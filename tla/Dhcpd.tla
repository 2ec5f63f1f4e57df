------------------------------- MODULE Dhcpd -------------------------------
(***************************************************************************)
(* The DHCP server of the soft access point (sw_services/dhcpd/FreeRTOS/   *)
(* dhcpd.c) with the clients of its network.                               *)
(*                                                                         *)
(* The server handles one message at a time under its lock, so a request   *)
(* and the change of the pool are one step; the reply reaches the client   *)
(* or is lost.  The clients keep to the protocol: what they hold, and for  *)
(* how long, is here to state what the server promises them.  The pool's   *)
(* list is ordered by expiry, and an available entry has none ahead of it, *)
(* so the oldest available entry is any of them.  A probe of an address    *)
(* may find a host there, and may also miss one.                           *)
(***************************************************************************)
EXTENDS Integers, FiniteSets

CONSTANTS DhClients,   \* the hosts, by hardware address
          DhStart, DhEnd, DhReserved, \* the configured pool; server, gateway and DNS
          DhLease,     \* DHCPD_LEASE_TIME
          DhOffer,     \* DHCPD_OFFER_EXPIRATION_TIME
          DhRetry      \* DHCPD_UNAVAILABLE_IP_PROBE_INTERVAL

NoMac == "nobody"
NoIp  == 0

ASSUME DhAssumption ==
  /\ {DhStart, DhEnd, DhLease, DhOffer, DhRetry} \subseteq Nat
  /\ DhStart <= DhEnd
  /\ DhLease > 0
  /\ NoMac \notin DhClients

(***************************************************************************)
(* The pool: dhcpd_ip_pool_init takes as many addresses as the range has   *)
(* steps, each the next valid one.                                         *)
(***************************************************************************)
ValidIp(ip) == ip % 256 \notin {0, 255} /\ ip \notin DhReserved

IpPool ==
  {ip \in DhStart .. DhEnd :
     /\ ValidIp(ip)
     /\ Cardinality({q \in DhStart .. ip : ValidIp(q)}) <= DhEnd - DhStart}

Entry(mac, state, left) == [mac |-> mac, state |-> state, left |-> left]

VARIABLES dhcp_ip_pool,  \* for each address who has it, its state and the time left
          dhClient       \* what each client believes

dhVars == <<dhcp_ip_pool, dhClient>>

Unbound(ip) == [phase |-> "init", ip |-> ip, left |-> 0]

dhcpd_ip_pool_init == [ip \in IpPool |-> Entry(NoMac, "available", 0)]

DhInit ==
  /\ dhcp_ip_pool = dhcpd_ip_pool_init
  /\ dhClient = [m \in DhClients |-> Unbound(NoIp)]

(***************************************************************************)
(* Looking up the pool.                                                    *)
(***************************************************************************)
dhcp_client_lookup_by_mac(m) == {ip \in IpPool : dhcp_ip_pool[ip].mac = m}

AvailableIps(pool) == {ip \in IpPool : pool[ip].state = "available"}

dhcp_client_update(pool, ip, mac, state, left) ==
  [pool EXCEPT ![ip] = Entry(mac, state, left)]

\* A probed address at which a host was found.
InUse(pool, found) ==
  [ip \in IpPool |-> IF ip \in found THEN Entry(NoMac, "unavailable", DhRetry)
                     ELSE pool[ip]]

\* The client's address is available again and not associated with it.
Forgotten(m) ==
  [ip \in IpPool |-> IF ip \in dhcp_client_lookup_by_mac(m)
                     THEN Entry(NoMac, "available", 0) ELSE dhcp_ip_pool[ip]]

(***************************************************************************)
(* dhcpd_client_ip_address_lease for the three messages.  Each states the  *)
(* new pool and the reply: "offer" or "ack" of an address, "nak", or none. *)
(***************************************************************************)
\* Mutant: a lease runs out like an offer.
Expiration_offer(message) == DhOffer

Expiration(message) == IF message = "discover" THEN DhOffer ELSE DhLease

Silent == [kind |-> "none", ip |-> NoIp]

\* A client the pool does not know: the address it asks for if that is
\* available and unused, else the next one that is.
OfferNew(m, pool, wanted, reply) ==
  \/ /\ wanted \in AvailableIps(pool)
     /\ dhcp_ip_pool' = dhcp_client_update(pool, wanted, m, "offered", Expiration("discover"))
     /\ reply = [kind |-> "offer", ip |-> wanted]
  \/ \E found \in SUBSET AvailableIps(pool) :
       /\ wanted \in AvailableIps(pool) => wanted \in found
       /\ \/ \E ip \in AvailableIps(pool) \ found :
               /\ dhcp_ip_pool' =
                    dhcp_client_update(InUse(pool, found), ip, m, "offered", Expiration("discover"))
               /\ reply = [kind |-> "offer", ip |-> ip]
          \/ /\ found = AvailableIps(pool)
             /\ dhcp_ip_pool' = InUse(pool, found)
             /\ reply = Silent

Discover(m, wanted, reply) ==
  LET known == dhcp_client_lookup_by_mac(m) IN
  \/ \E ip \in known :
       \/ /\ dhcp_ip_pool' =
                 dhcp_client_update(dhcp_ip_pool, ip, m, "offered", Expiration("discover"))
          /\ reply = [kind |-> "offer", ip |-> ip]
       \/ /\ dhcp_ip_pool[ip].state # "leased"
          /\ OfferNew(m, InUse(dhcp_ip_pool, {ip}), IF wanted = ip THEN NoIp ELSE wanted,
                      reply)
  \/ known = {} /\ OfferNew(m, dhcp_ip_pool, wanted, reply)

\* An address other than the one on record is refused, and the one on
\* record becomes available again; an unknown client hears nothing.
Request(m, wanted, reply) ==
  LET known == dhcp_client_lookup_by_mac(m) IN
  \/ /\ wanted \in known
     /\ dhcp_ip_pool' = dhcp_client_update(dhcp_ip_pool, wanted, m, "leased", Expiration("request"))
     /\ reply = [kind |-> "ack", ip |-> wanted]
  \/ \E ip \in known \ {wanted} :
       /\ dhcp_ip_pool' = dhcp_client_update(dhcp_ip_pool, ip, m, "available", 0)
       /\ reply = [kind |-> "nak", ip |-> NoIp]
  \/ /\ known = {}
     /\ reply = Silent
     /\ UNCHANGED dhcp_ip_pool

\* The address a client tells that it uses.  One it had not been given is
\* put on record as available, not as static: line 517 passes the result
\* of a comparison for the state.
Inform(m, ip) ==
  LET pool == Forgotten(m) IN
  dhcp_ip_pool' =
    IF ip \in dhcp_client_lookup_by_mac(m)
    THEN dhcp_client_update(dhcp_ip_pool, ip, m, "static", 0)
    ELSE IF ip \in AvailableIps(pool) THEN dhcp_client_update(pool, ip, m, "available", 0)
    ELSE pool

(***************************************************************************)
(* The messages that give an address back, and the passing of time.        *)
(***************************************************************************)
\* Another server was chosen: the client is forgotten.
RequestOther(m) == dhcp_ip_pool' = Forgotten(m)

Decline(ip) ==
  dhcp_ip_pool' = dhcp_client_update(dhcp_ip_pool, ip, NoMac, "unavailable", DhRetry)

\* The client is remembered, so that it may have the address again.
Release(ip) ==
  dhcp_ip_pool' =
    dhcp_client_update(dhcp_ip_pool, ip, dhcp_ip_pool[ip].mac, "available", 0)

\* Addresses found in use again are kept away for another interval.
dhcp_client_release_expired_leases(found) ==
  /\ dhcp_ip_pool' =
       [ip \in IpPool |->
          LET e == dhcp_ip_pool[ip] IN
          IF e.left > 0 \/ e.state \in {"available", "static"} THEN e
          ELSE IF ip \in found /\ e.state = "unavailable" THEN [e EXCEPT !.left = DhRetry]
          ELSE [e EXCEPT !.state = "available"]]
  /\ UNCHANGED dhClient

OneSecondOn(n) == IF n > 0 THEN n - 1 ELSE 0

Second ==
  /\ dhcp_ip_pool' = [ip \in IpPool |-> [dhcp_ip_pool[ip] EXCEPT !.left = OneSecondOn(@)]]
  /\ dhClient' = [m \in DhClients |->
                    LET c == dhClient[m] IN
                    IF c.phase # "bound" THEN c
                    ELSE IF c.left = 1 THEN Unbound(c.ip)
                    ELSE [c EXCEPT !.left = @ - 1]]

\* dhcpd_stop, when the soft AP has stopped and its hosts have gone, and
\* dhcpd_start.
Restart ==
  /\ dhcp_ip_pool' = dhcpd_ip_pool_init
  /\ dhClient' = [m \in DhClients |-> Unbound(dhClient[m].ip)]

(***************************************************************************)
(* The clients.                                                            *)
(***************************************************************************)
Believe(m, c) == dhClient' = [dhClient EXCEPT ![m] = c]

Bound(ip) == [phase |-> "bound", ip |-> ip, left |-> DhLease]

Replies == [kind : {"none", "offer", "ack", "nak"}, ip : IpPool \cup {NoIp}]

\* It looks for an address, perhaps for the one it had.
ClientDiscover(m) ==
  /\ dhClient[m].phase = "init"
  /\ \E reply \in Replies, wanted \in {NoIp, dhClient[m].ip} :
       /\ Discover(m, wanted, reply)
       /\ \/ UNCHANGED dhClient
          \/ /\ reply.kind = "offer"
             /\ Believe(m, [phase |-> "offered", ip |-> reply.ip, left |-> 0])

\* It takes up an offer, asks for its old address after a restart, or renews.
ClientRequest(m) ==
  /\ dhClient[m].ip # NoIp
  /\ dhClient[m].phase \in {"init", "offered", "bound"}
  /\ \E reply \in Replies :
       /\ Request(m, dhClient[m].ip, reply)
       /\ \/ UNCHANGED dhClient
          \/ reply.kind = "ack" /\ Believe(m, Bound(reply.ip))
          \/ reply.kind = "nak" /\ Believe(m, Unbound(NoIp))

ClientChoosesOther(m) ==
  /\ dhClient[m].phase = "offered"
  /\ RequestOther(m)
  /\ Believe(m, Unbound(NoIp))

\* It leaves, telling the server or not, or finds its new address in use.
ClientLeaves(m) ==
  /\ dhClient[m].phase = "bound"
  /\ Believe(m, Unbound(dhClient[m].ip))
  /\ Release(dhClient[m].ip) \/ UNCHANGED dhcp_ip_pool

ClientDeclines(m) ==
  /\ dhClient[m].phase = "bound"
  /\ Decline(dhClient[m].ip)
  /\ Believe(m, Unbound(NoIp))

\* It has been given a fixed address by hand.
ClientInforms(m) ==
  /\ dhClient[m].phase \in {"init", "bound"}
  /\ \E ip \in IpPool :
       /\ Inform(m, ip)
       /\ Believe(m, Unbound(ip))

DhNext ==
  \/ \E m \in DhClients :
       \/ ClientDiscover(m) \/ ClientRequest(m) \/ ClientChoosesOther(m)
       \/ ClientLeaves(m) \/ ClientDeclines(m) \/ ClientInforms(m)
  \/ \E found \in SUBSET IpPool : dhcp_client_release_expired_leases(found)
  \/ Second
  \/ Restart

DhSpec == DhInit /\ [][DhNext]_dhVars

(***************************************************************************)
(* Properties.                                                             *)
(***************************************************************************)
\* A lease is kept: as long as a client may use an address the server has
\* it on record as leased to that client for at least that long, whatever
\* replies were lost, whoever else asked for the address and however late
\* the server looks for expired leases; and no client is on record twice,
\* so that no two of them ever share an address.
DhcpLeaseKept ==
  /\ \A m \in DhClients : dhClient[m].phase = "bound" =>
       LET e == dhcp_ip_pool[dhClient[m].ip] IN
       e.mac = m /\ e.state = "leased" /\ e.left >= dhClient[m].left
  /\ \A m \in DhClients : Cardinality(dhcp_client_lookup_by_mac(m)) <= 1
=============================================================================
