--------------------------- MODULE ServiceProofs ---------------------------
(***************************************************************************)
(* The services: the DHCP server, the writer preferred lock, control       *)
(* transfers, the WiFi driver, the generic pipeline, the connection        *)
(* manager's cache of access points and remote procedure calls, for every  *)
(* value of their constants.                                               *)
(***************************************************************************)
EXTENDS ApCache, Dhcpd, GenericPipeline, MrswWriterPreferred, RpcTables, UsbControl,
        WifiManager, FiniteSetTheorems, SequenceTheorems, NaturalsInduction,
        WellFoundedInduction, TLAPS

(***************************************************************************)
(* The DHCP server.  A client has one entry of the pool at most, and the   *)
(* entry of one that uses its address is leased to it and outlives that    *)
(* use: no message of another client and no look for expired leases        *)
(* changes such an entry.                                                  *)
(***************************************************************************)
Macs == DhClients \cup {NoMac}
States == {"available", "unavailable", "offered", "leased", "static"}
Entries == [mac : Macs, state : States, left : Nat]

Pools == [IpPool -> Entries]

DhTypes ==
  /\ dhcp_ip_pool \in Pools
  /\ dhClient \in [DhClients -> [phase : {"init", "offered", "bound"},
                                 ip : IpPool \cup {NoIp}, left : 0..DhLease]]

\* A client is on record once.
OneEntryEach(pool) ==
  \A a, b \in IpPool : pool[a].mac = pool[b].mac /\ pool[a].mac # NoMac => a = b

\* The entry of a client that uses its address.
LeaseOf(m) ==
  LET c == dhClient[m] IN
  /\ c.ip \in IpPool
  /\ dhcp_ip_pool[c.ip].mac = m /\ dhcp_ip_pool[c.ip].state = "leased"
  /\ c.left > 0 /\ dhcp_ip_pool[c.ip].left >= c.left

\* The inductive invariant.
DhInv ==
  /\ DhTypes
  /\ OneEntryEach(dhcp_ip_pool)
  /\ \A m \in DhClients : dhClient[m].phase = "bound" => LeaseOf(m)

\* No address of the pool stands for none.
LEMMA NoIpNotInPool == NoIp \notin IpPool
  <1>1. 0 % 256 = 0
      OBVIOUS
  <1> QED
      BY <1>1 DEF NoIp, IpPool, ValidIp

\* A step of client m that leaves the entries of others that are in use alone
\* keeps the invariant, if m does not use an address after it, or has a lease.
LEMMA OthersKeepLeases ==
  ASSUME DhInv, NEW m \in DhClients, NEW c,
         dhcp_ip_pool' \in Pools, OneEntryEach(dhcp_ip_pool)',
         c \in [phase : {"init", "offered", "bound"}, ip : IpPool \cup {NoIp}, left : 0..DhLease],
         dhClient' = [dhClient EXCEPT ![m] = c],
         c.phase = "bound" => LeaseOf(m)',
         \A a \in IpPool : dhcp_ip_pool[a].mac # m /\ dhcp_ip_pool[a].state = "leased"
                               => dhcp_ip_pool'[a] = dhcp_ip_pool[a]
  PROVE  DhInv'
  <1>1. DhTypes'
      BY DEF DhInv, DhTypes
  <1>2. ASSUME NEW k \in DhClients, dhClient'[k].phase = "bound" PROVE LeaseOf(k)'
    <2>1. CASE k = m
        BY <1>2, <2>1 DEF DhInv, DhTypes
    <2>2. CASE k # m
      <3>1. dhClient'[k] = dhClient[k] /\ LeaseOf(k)
          BY <1>2, <2>2 DEF DhInv, DhTypes
      <3>2. dhcp_ip_pool'[dhClient[k].ip] = dhcp_ip_pool[dhClient[k].ip]
          BY <2>2, <3>1 DEF LeaseOf
      <3> QED
          BY <3>1, <3>2 DEF LeaseOf
    <2> QED
        BY <2>1, <2>2
  <1> QED
      BY <1>1, <1>2 DEF DhInv

\* An entry is written for a client that has no other one.
LEMMA UpdateKeeps ==
  ASSUME NEW pool \in Pools, OneEntryEach(pool), NEW ip \in IpPool,
         NEW mac \in Macs, NEW left \in Nat,
         NEW state \in States,
         \A a \in IpPool : pool[a].mac = mac /\ mac # NoMac => a = ip
  PROVE  /\ dhcp_client_update(pool, ip, mac, state, left) \in Pools
         /\ OneEntryEach(dhcp_client_update(pool, ip, mac, state, left))
         /\ dhcp_client_update(pool, ip, mac, state, left)[ip] = Entry(mac, state, left)
         /\ \A a \in IpPool \ {ip} : dhcp_client_update(pool, ip, mac, state, left)[a] = pool[a]
  <1> DEFINE new == dhcp_client_update(pool, ip, mac, state, left)
  <1>1. /\ Entry(mac, state, left) \in Entries /\ Entry(mac, state, left).mac = mac
      BY DEF Entry, Entries
  <1>2. new \in Pools /\ new[ip] = Entry(mac, state, left) /\ \A a \in IpPool \ {ip} : new[a] = pool[a]
      BY <1>1 DEF dhcp_client_update, Pools
  <1> HIDE DEF new
  <1>3. OneEntryEach(new)
      BY <1>1, <1>2 DEF OneEntryEach
  <1> QED
      BY <1>2, <1>3 DEF new

\* Entries are taken from their clients.
LEMMA InUseKeeps ==
  ASSUME NEW pool \in Pools, OneEntryEach(pool), NEW found
  PROVE  /\ InUse(pool, found) \in Pools /\ OneEntryEach(InUse(pool, found))
         /\ \A a \in IpPool : /\ a \in found => InUse(pool, found)[a].mac = NoMac
                              /\ a \notin found => InUse(pool, found)[a] = pool[a]
                              /\ InUse(pool, found)[a].mac \in {NoMac, pool[a].mac}
                              /\ InUse(pool, found)[a].state = "available" => a \notin found
  <1> DEFINE new == InUse(pool, found)
  <1>1. Entry(NoMac, "unavailable", DhRetry) \in Entries
      BY DhAssumption DEF Entry, Entries, Macs, States
  <1>2. /\ Entry(NoMac, "unavailable", DhRetry).mac = NoMac
        /\ Entry(NoMac, "unavailable", DhRetry).state = "unavailable"
      BY DEF Entry
  <1>3. /\ new \in Pools
        /\ \A a \in IpPool : new[a] = IF a \in found THEN Entry(NoMac, "unavailable", DhRetry) ELSE pool[a]
      BY <1>1 DEF InUse, Pools
  <1> HIDE DEF new
  <1>4. OneEntryEach(new)
      BY <1>2, <1>3 DEF OneEntryEach
  <1> QED
      BY <1>2, <1>3, <1>4 DEF new

\* An offer of an available address to a client that the pool does not know.
LEMMA OfferNewKeeps ==
  ASSUME NEW m \in DhClients, NEW pool \in Pools, OneEntryEach(pool),
         \A a \in IpPool : pool[a].mac # m,
         NEW wanted, NEW reply, OfferNew(m, pool, wanted, reply)
  PROVE  /\ dhcp_ip_pool' \in Pools /\ OneEntryEach(dhcp_ip_pool)'
         /\ \A a \in IpPool : pool[a].state # "available" => dhcp_ip_pool'[a] = pool[a]
  <1>1. Expiration("discover") \in Nat /\ m \in Macs /\ m # NoMac /\ "offered" \in States
      BY DhAssumption DEF Expiration, Macs, States
  <1>2. CASE /\ wanted \in AvailableIps(pool)
             /\ dhcp_ip_pool' = dhcp_client_update(pool, wanted, m, "offered", Expiration("discover"))
    <2>1. wanted \in IpPool /\ pool[wanted].state = "available"
        BY <1>2 DEF AvailableIps
    <2> QED
        BY <1>1, <1>2, <2>1, UpdateKeeps DEF OneEntryEach
  <1>3. ASSUME NEW found \in SUBSET AvailableIps(pool), NEW ip \in AvailableIps(pool) \ found,
               dhcp_ip_pool' =
                   dhcp_client_update(InUse(pool, found), ip, m, "offered", Expiration("discover"))
        PROVE  /\ dhcp_ip_pool' \in Pools /\ OneEntryEach(dhcp_ip_pool)'
               /\ \A a \in IpPool : pool[a].state # "available" => dhcp_ip_pool'[a] = pool[a]
    <2>1. ip \in IpPool /\ pool[ip].state = "available"
          /\ \A a \in IpPool : pool[a].state # "available" => a \notin found /\ a # ip
        BY <1>3 DEF AvailableIps
    <2>2. PICK new \in Pools : /\ new = InUse(pool, found) /\ OneEntryEach(new)
                               /\ \A a \in IpPool : a \notin found => new[a] = pool[a]
                               /\ \A a \in IpPool : new[a].mac # m
        BY <1>1, InUseKeeps
    <2>3. dhcp_ip_pool' = dhcp_client_update(new, ip, m, "offered", Expiration("discover"))
        BY <1>3, <2>2
    <2>4. /\ dhcp_ip_pool' \in Pools /\ OneEntryEach(dhcp_ip_pool')
          /\ \A a \in IpPool \ {ip} : dhcp_ip_pool'[a] = new[a]
        BY <1>1, <2>1, <2>2, <2>3, UpdateKeeps
    <2> QED
        BY <2>1, <2>2, <2>4 DEF OneEntryEach
  <1>4. ASSUME NEW found \in SUBSET AvailableIps(pool), dhcp_ip_pool' = InUse(pool, found)
        PROVE  /\ dhcp_ip_pool' \in Pools /\ OneEntryEach(dhcp_ip_pool)'
               /\ \A a \in IpPool : pool[a].state # "available" => dhcp_ip_pool'[a] = pool[a]
    <2>1. \A a \in IpPool : pool[a].state # "available" => a \notin found
        BY <1>4 DEF AvailableIps
    <2> QED
        BY <1>4, <2>1, InUseKeeps DEF OneEntryEach
  <1> QED
      BY <1>2, <1>3, <1>4 DEF OfferNew

\* The entries of a client that the pool knows, and the phases of a client.
LEMMA KnownEntries ==
  ASSUME DhInv, NEW m \in DhClients
  PROVE  /\ \A ip \in dhcp_client_lookup_by_mac(m) :
               /\ ip \in IpPool /\ dhcp_ip_pool[ip].mac = m
               /\ \A a \in IpPool : dhcp_ip_pool[a].mac = m => a = ip
         /\ \A a \in IpPool : dhcp_ip_pool[a].mac = m => a \in dhcp_client_lookup_by_mac(m)
         /\ dhcp_ip_pool \in Pools /\ OneEntryEach(dhcp_ip_pool)
         /\ m # NoMac /\ m \in Macs
  BY DhAssumption DEF DhInv, DhTypes, OneEntryEach, dhcp_client_lookup_by_mac, Macs

\* DHCPDISCOVER changes no entry that is leased to another client.
LEMMA DiscoverKeeps ==
  ASSUME DhInv, NEW m \in DhClients, NEW wanted, NEW reply, Discover(m, wanted, reply)
  PROVE  /\ dhcp_ip_pool' \in Pools /\ OneEntryEach(dhcp_ip_pool)'
         /\ \A a \in IpPool : dhcp_ip_pool[a].mac # m /\ dhcp_ip_pool[a].state = "leased"
                                  => dhcp_ip_pool'[a] = dhcp_ip_pool[a]
  <1>1. Expiration("discover") \in Nat /\ "offered" \in States
      BY DhAssumption DEF Expiration, States
  <1>2. ASSUME NEW ip \in dhcp_client_lookup_by_mac(m),
               dhcp_ip_pool' = dhcp_client_update(dhcp_ip_pool, ip, m, "offered", Expiration("discover"))
        PROVE  /\ dhcp_ip_pool' \in Pools /\ OneEntryEach(dhcp_ip_pool)'
               /\ \A a \in IpPool : dhcp_ip_pool[a].mac # m => dhcp_ip_pool'[a] = dhcp_ip_pool[a]
    <2>1. /\ dhcp_ip_pool' \in Pools /\ OneEntryEach(dhcp_ip_pool')
          /\ \A a \in IpPool \ {ip} : dhcp_ip_pool'[a] = dhcp_ip_pool[a]
        BY <1>1, <1>2, KnownEntries, UpdateKeeps
    <2> QED
        BY <1>2, <2>1, KnownEntries DEF OneEntryEach
  <1>3. ASSUME NEW ip \in dhcp_client_lookup_by_mac(m), NEW w,
               OfferNew(m, InUse(dhcp_ip_pool, {ip}), w, reply)
        PROVE  /\ dhcp_ip_pool' \in Pools /\ OneEntryEach(dhcp_ip_pool)'
               /\ \A a \in IpPool : dhcp_ip_pool[a].mac # m /\ dhcp_ip_pool[a].state = "leased"
                                        => dhcp_ip_pool'[a] = dhcp_ip_pool[a]
    <2>1. PICK new \in Pools : /\ new = InUse(dhcp_ip_pool, {ip}) /\ OneEntryEach(new)
                               /\ \A a \in IpPool \ {ip} : new[a] = dhcp_ip_pool[a]
                               /\ \A a \in IpPool : new[a].mac # m
      <3>1. \A a \in IpPool : a \in {ip} <=> a = ip
          OBVIOUS
      <3> QED
          BY <1>3, <3>1, KnownEntries, InUseKeeps
    <2>2. OfferNew(m, new, w, reply)
        BY <1>3, <2>1
    <2>3. /\ dhcp_ip_pool' \in Pools /\ OneEntryEach(dhcp_ip_pool)'
          /\ \A a \in IpPool : new[a].state # "available" => dhcp_ip_pool'[a] = new[a]
        BY <2>1, <2>2, OfferNewKeeps
    <2> QED
        BY <1>3, <2>1, <2>3, KnownEntries
  <1>4. ASSUME dhcp_client_lookup_by_mac(m) = {}, OfferNew(m, dhcp_ip_pool, wanted, reply)
        PROVE  /\ dhcp_ip_pool' \in Pools /\ OneEntryEach(dhcp_ip_pool)'
               /\ \A a \in IpPool : dhcp_ip_pool[a].mac # m /\ dhcp_ip_pool[a].state = "leased"
                                        => dhcp_ip_pool'[a] = dhcp_ip_pool[a]
    <2>1. \A a \in IpPool : dhcp_ip_pool[a].mac # m
        BY <1>4, KnownEntries
    <2> QED
        BY <1>4, <2>1, KnownEntries, OfferNewKeeps
  <1> QED
      BY <1>2, <1>3, <1>4 DEF Discover

\* The entry of a client that is given another state, or whose client forgets it.
LEMMA EntryOfClient ==
  ASSUME DhInv, NEW m \in DhClients, NEW ip \in IpPool, NEW mac \in {m, NoMac},
         NEW left \in Nat, NEW state \in States,
         dhcp_ip_pool[ip].mac = m,
         dhcp_ip_pool' = dhcp_client_update(dhcp_ip_pool, ip, mac, state, left)
  PROVE  /\ dhcp_ip_pool' \in Pools /\ OneEntryEach(dhcp_ip_pool)'
         /\ dhcp_ip_pool'[ip] = Entry(mac, state, left)
         /\ \A a \in IpPool : dhcp_ip_pool[a].mac # m => dhcp_ip_pool'[a] = dhcp_ip_pool[a]
  <1>1. /\ \A a \in IpPool : dhcp_ip_pool[a].mac = mac /\ mac # NoMac => a = ip
        /\ mac \in Macs /\ dhcp_ip_pool \in Pools /\ OneEntryEach(dhcp_ip_pool)
      BY DEF DhInv, DhTypes, OneEntryEach, Macs
  <1>2. /\ dhcp_ip_pool' \in Pools /\ OneEntryEach(dhcp_ip_pool')
        /\ dhcp_ip_pool'[ip] = Entry(mac, state, left)
        /\ \A a \in IpPool \ {ip} : dhcp_ip_pool'[a] = dhcp_ip_pool[a]
    <2>1. PICK pool \in Pools : pool = dhcp_ip_pool
        BY <1>1
    <2>2. /\ \A a \in IpPool : pool[a].mac = mac /\ mac # NoMac => a = ip
          /\ mac \in Macs /\ OneEntryEach(pool) /\ pool \in Pools
          /\ ip \in IpPool /\ left \in Nat
          /\ state \in States
        BY <1>1, <2>1
    <2>3. /\ dhcp_client_update(pool, ip, mac, state, left) \in Pools
          /\ OneEntryEach(dhcp_client_update(pool, ip, mac, state, left))
          /\ dhcp_client_update(pool, ip, mac, state, left)[ip] = Entry(mac, state, left)
          /\ \A a \in IpPool \ {ip} : dhcp_client_update(pool, ip, mac, state, left)[a] = pool[a]
        BY ONLY <2>2, UpdateKeeps
    <2> QED
        BY <2>1, <2>3
  <1> QED
      BY <1>2 DEF OneEntryEach

\* A client looks for an address.
LEMMA ClientDiscoverInv ==
  ASSUME DhInv, NEW m \in DhClients, ClientDiscover(m)
  PROVE  DhInv'
  <1>1. PICK reply \in Replies, wanted \in {NoIp, dhClient[m].ip} :
          /\ Discover(m, wanted, reply)
          /\ \/ UNCHANGED dhClient
             \/ /\ reply.kind = "offer"
                /\ Believe(m, [phase |-> "offered", ip |-> reply.ip, left |-> 0])
      BY DEF ClientDiscover
  <1>2. dhClient[m].phase # "bound" /\ DhTypes
      BY DEF ClientDiscover, DhInv
  <1>3. /\ dhcp_ip_pool' \in Pools /\ OneEntryEach(dhcp_ip_pool)'
        /\ \A a \in IpPool : dhcp_ip_pool[a].mac # m /\ dhcp_ip_pool[a].state = "leased"
                                 => dhcp_ip_pool'[a] = dhcp_ip_pool[a]
      BY <1>1, DiscoverKeeps
  <1>4. CASE UNCHANGED dhClient
    <2>1. dhClient' = [dhClient EXCEPT ![m] = dhClient[m]]
          /\ dhClient[m] \in [phase : {"init", "offered", "bound"}, ip : IpPool \cup {NoIp}, left : 0..DhLease]
        BY <1>2, <1>4 DEF DhTypes
    <2> QED
        BY <1>2, <1>3, <2>1, OthersKeepLeases
  <1>5. CASE Believe(m, [phase |-> "offered", ip |-> reply.ip, left |-> 0])
    <2>1. 0 \in 0..DhLease
        BY DhAssumption
    <2> DEFINE c == [phase |-> "offered", ip |-> reply.ip, left |-> 0]
    <2>2. /\ c \in [phase : {"init", "offered", "bound"}, ip : IpPool \cup {NoIp}, left : 0..DhLease]
          /\ c.phase # "bound"
      <3>1. reply.ip \in IpPool \cup {NoIp}
          BY DEF Replies
      <3> QED
          BY <2>1, <3>1
    <2>3. dhClient' = [dhClient EXCEPT ![m] = c]
        BY <1>5 DEF Believe
    <2> HIDE DEF c
    <2> QED
        BY <1>3, <2>2, <2>3, OthersKeepLeases
  <1> QED
      BY <1>1, <1>4, <1>5

\* A client takes up an offer, asks for its old address, or renews its lease.
LEMMA ClientRequestInv ==
  ASSUME DhInv, NEW m \in DhClients, ClientRequest(m)
  PROVE  DhInv'
  <1> DEFINE phases == [phase : {"init", "offered", "bound"}, ip : IpPool \cup {NoIp}, left : 0..DhLease]
  <1>1. PICK reply \in Replies :
          /\ Request(m, dhClient[m].ip, reply)
          /\ \/ UNCHANGED dhClient
             \/ reply.kind = "ack" /\ Believe(m, Bound(reply.ip))
             \/ reply.kind = "nak" /\ Believe(m, Unbound(NoIp))
      BY DEF ClientRequest
  <1>2. /\ dhClient \in [DhClients -> phases] /\ dhClient[m] \in phases
        /\ dhClient = [dhClient EXCEPT ![m] = dhClient[m]]
        /\ dhClient[m].phase = "bound" => LeaseOf(m)
      BY DEF DhInv, DhTypes
  <1>3. /\ Unbound(NoIp) \in phases /\ Unbound(NoIp).phase # "bound"
        /\ Expiration("request") = DhLease /\ DhLease \in Nat /\ DhLease > 0
        /\ "leased" \in States /\ "available" \in States
      BY DhAssumption DEF Unbound, Expiration, States
  <1>4. ASSUME NEW ip \in IpPool
        PROVE  Bound(ip) \in phases /\ Bound(ip).ip = ip /\ Bound(ip).left = DhLease
      BY <1>3 DEF Bound
  <1>5. CASE /\ dhClient[m].ip \in dhcp_client_lookup_by_mac(m)
             /\ dhcp_ip_pool' = dhcp_client_update(dhcp_ip_pool, dhClient[m].ip, m, "leased", Expiration("request"))
             /\ reply = [kind |-> "ack", ip |-> dhClient[m].ip]
    <2>1. PICK ip \in IpPool : ip = dhClient[m].ip /\ dhcp_ip_pool[ip].mac = m
        BY <1>5, KnownEntries
    <2>2. dhcp_ip_pool' = dhcp_client_update(dhcp_ip_pool, ip, m, "leased", DhLease)
        BY <1>3, <1>5, <2>1
    <2>3. /\ dhcp_ip_pool' \in Pools /\ OneEntryEach(dhcp_ip_pool)'
          /\ dhcp_ip_pool'[ip] = Entry(m, "leased", DhLease)
          /\ \A a \in IpPool : dhcp_ip_pool[a].mac # m => dhcp_ip_pool'[a] = dhcp_ip_pool[a]
        BY <1>3, <2>1, <2>2, EntryOfClient
    <2>4. PICK c \in phases : /\ dhClient' = [dhClient EXCEPT ![m] = c]
                              /\ c.phase = "bound" => c.ip = ip /\ c.left > 0 /\ c.left <= DhLease
      <3>1. CASE UNCHANGED dhClient
        <4>1. dhClient' = [dhClient EXCEPT ![m] = dhClient[m]]
            BY <1>2, <3>1
        <4>2. dhClient[m].phase = "bound" => dhClient[m].ip = ip /\ dhClient[m].left > 0 /\ dhClient[m].left <= DhLease
            BY <1>2, <2>1 DEF LeaseOf
        <4> QED
            BY <1>2, <4>1, <4>2
      <3>2. CASE Believe(m, Bound(reply.ip))
        <4>1. reply.ip = ip
            BY <1>5, <2>1
        <4>2. dhClient' = [dhClient EXCEPT ![m] = Bound(ip)]
            BY <3>2, <4>1 DEF Believe
        <4>3. Bound(ip) \in phases /\ Bound(ip).ip = ip /\ Bound(ip).left > 0 /\ Bound(ip).left <= DhLease
          <5>1. Bound(ip).left = DhLease /\ DhLease <= DhLease
              BY <1>3, <1>4
          <5> QED
              BY <1>3, <1>4, <5>1
        <4> HIDE DEF phases
        <4> QED
            BY <4>2, <4>3
      <3>3. CASE Believe(m, Unbound(NoIp))
          BY <1>3, <3>3 DEF Believe
      <3>4. UNCHANGED dhClient \/ Believe(m, Bound(reply.ip)) \/ Believe(m, Unbound(NoIp))
          BY <1>1
      <3> QED
          BY <3>1, <3>2, <3>3, <3>4, Zenon
    <2>5. c.phase = "bound" => LeaseOf(m)'
      <3>1. dhClient'[m] = c
          BY <1>2, <2>4
      <3> QED
          BY <2>1, <2>3, <2>4, <3>1 DEF LeaseOf, Entry
    <2> HIDE DEF phases
    <2>6. c \in [phase : {"init", "offered", "bound"}, ip : IpPool \cup {NoIp}, left : 0..DhLease]
        BY <2>4 DEF phases
    <2> QED
        BY <2>3, <2>4, <2>5, <2>6, OthersKeepLeases
  <1>6. ASSUME NEW c \in phases, c.phase # "bound", dhClient' = [dhClient EXCEPT ![m] = c],
               dhcp_ip_pool' \in Pools, OneEntryEach(dhcp_ip_pool)',
               \A a \in IpPool : dhcp_ip_pool[a].mac # m => dhcp_ip_pool'[a] = dhcp_ip_pool[a]
        PROVE  DhInv'
      BY <1>6, OthersKeepLeases
  <1>7. ASSUME NEW ip \in dhcp_client_lookup_by_mac(m) \ {dhClient[m].ip},
               dhcp_ip_pool' = dhcp_client_update(dhcp_ip_pool, ip, m, "available", 0),
               reply = [kind |-> "nak", ip |-> NoIp]
        PROVE  DhInv'
    <2>1. ip \in IpPool /\ dhcp_ip_pool[ip].mac = m /\ dhClient[m].phase # "bound"
        BY <1>2, <1>7, KnownEntries DEF LeaseOf
    <2>2. /\ dhcp_ip_pool' \in Pools /\ OneEntryEach(dhcp_ip_pool)'
          /\ \A a \in IpPool : dhcp_ip_pool[a].mac # m => dhcp_ip_pool'[a] = dhcp_ip_pool[a]
        BY <1>3, <1>7, <2>1, EntryOfClient
    <2>3. reply.kind # "ack"
        BY <1>7
    <2>4. CASE UNCHANGED dhClient
      <3>1. dhClient' = [dhClient EXCEPT ![m] = dhClient[m]]
          BY <1>2, <2>4
      <3> QED
          BY <1>2, <1>6, <2>1, <2>2, <3>1
    <2>5. CASE Believe(m, Unbound(NoIp))
        BY <1>3, <1>6, <2>2, <2>5 DEF Believe
    <2> QED
        BY <1>1, <2>3, <2>4, <2>5
  <1>8. CASE dhcp_client_lookup_by_mac(m) = {} /\ reply = Silent /\ UNCHANGED dhcp_ip_pool
    <2>1. UNCHANGED dhClient
        BY <1>1, <1>8 DEF Silent
    <2> QED
        BY <1>8, <2>1 DEF DhInv, DhTypes, OneEntryEach, LeaseOf
  <1> QED
      BY <1>1, <1>5, <1>7, <1>8 DEF Request

\* The pool once a client is forgotten.
LEMMA ForgottenKeeps ==
  ASSUME DhInv, NEW m \in DhClients
  PROVE  /\ Forgotten(m) \in Pools /\ OneEntryEach(Forgotten(m))
         /\ \A a \in IpPool : /\ Forgotten(m)[a].mac # m
                              /\ dhcp_ip_pool[a].mac # m => Forgotten(m)[a] = dhcp_ip_pool[a]
  <1> DEFINE new == Forgotten(m)
  <1>1. Entry(NoMac, "available", 0) \in Entries /\ Entry(NoMac, "available", 0).mac = NoMac
      BY DEF Entry, Entries, Macs, States
  <1>2. /\ new \in Pools
        /\ \A a \in IpPool : new[a] = IF dhcp_ip_pool[a].mac = m THEN Entry(NoMac, "available", 0)
                                                                 ELSE dhcp_ip_pool[a]
      BY <1>1 DEF Forgotten, dhcp_client_lookup_by_mac, Pools, DhInv, DhTypes
  <1> HIDE DEF new
  <1>3. OneEntryEach(new)
      BY <1>1, <1>2 DEF OneEntryEach, DhInv
  <1>4. m # NoMac
      BY DhAssumption
  <1> QED
      BY <1>1, <1>2, <1>3, <1>4 DEF new

\* A client that stops using its address.
LEMMA ClientGoes ==
  ASSUME DhInv, NEW m \in DhClients, NEW ip \in IpPool \cup {NoIp},
         dhClient' = [dhClient EXCEPT ![m] = Unbound(ip)],
         dhcp_ip_pool' \in Pools, OneEntryEach(dhcp_ip_pool)',
         \A a \in IpPool : dhcp_ip_pool[a].mac # m /\ dhcp_ip_pool[a].state = "leased"
                               => dhcp_ip_pool'[a] = dhcp_ip_pool[a]
  PROVE  DhInv'
  <1> DEFINE c == Unbound(ip)
  <1>1. /\ c \in [phase : {"init", "offered", "bound"}, ip : IpPool \cup {NoIp}, left : 0..DhLease]
        /\ c.phase # "bound"
      BY DhAssumption DEF Unbound
  <1>2. dhClient' = [dhClient EXCEPT ![m] = c]
      OBVIOUS
  <1> HIDE DEF c
  <1> QED
      BY <1>1, <1>2, OthersKeepLeases

\* A client that chose another server, left, found its address in use, or has been
\* given a fixed one.
LEMMA ClientGoesInv ==
  ASSUME DhInv, NEW m \in DhClients,
         ClientChoosesOther(m) \/ ClientLeaves(m) \/ ClientDeclines(m) \/ ClientInforms(m)
  PROVE  DhInv'
  <1>1. /\ dhClient[m].ip \in IpPool \cup {NoIp} /\ NoIp \in IpPool \cup {NoIp}
        /\ dhcp_ip_pool \in Pools /\ OneEntryEach(dhcp_ip_pool)
        /\ dhClient[m].phase = "bound" => dhClient[m].ip \in IpPool /\ dhcp_ip_pool[dhClient[m].ip].mac = m
      BY DEF DhInv, DhTypes, LeaseOf
  <1>2. /\ {"available", "unavailable", "static"} \subseteq States /\ DhRetry \in Nat /\ 0 \in Nat
        /\ m \in Macs /\ m # NoMac
      BY DhAssumption DEF States, Macs
  <1>3. CASE ClientChoosesOther(m)
    <2>1. dhcp_ip_pool' = Forgotten(m) /\ dhClient' = [dhClient EXCEPT ![m] = Unbound(NoIp)]
        BY <1>3 DEF ClientChoosesOther, RequestOther, Believe
    <2>2. /\ dhcp_ip_pool' \in Pools /\ OneEntryEach(dhcp_ip_pool)'
          /\ \A a \in IpPool : dhcp_ip_pool[a].mac # m => dhcp_ip_pool'[a] = dhcp_ip_pool[a]
        BY <2>1, ForgottenKeeps DEF OneEntryEach
    <2> QED
        BY <1>1, <2>1, <2>2, ClientGoes
  <1>4. CASE ClientLeaves(m)
    <2>1. /\ dhClient[m].phase = "bound" /\ dhClient' = [dhClient EXCEPT ![m] = Unbound(dhClient[m].ip)]
          /\ Release(dhClient[m].ip) \/ UNCHANGED dhcp_ip_pool
        BY <1>4 DEF ClientLeaves, Believe
    <2>2. PICK ip \in IpPool : ip = dhClient[m].ip /\ dhcp_ip_pool[ip].mac = m
        BY <1>1, <2>1
    <2>3. CASE Release(ip)
      <3>1. dhcp_ip_pool' = dhcp_client_update(dhcp_ip_pool, ip, m, "available", 0)
          BY <2>2, <2>3 DEF Release
      <3>2. /\ dhcp_ip_pool' \in Pools /\ OneEntryEach(dhcp_ip_pool)'
            /\ \A a \in IpPool : dhcp_ip_pool[a].mac # m => dhcp_ip_pool'[a] = dhcp_ip_pool[a]
          BY <1>2, <2>2, <3>1, EntryOfClient
      <3> QED
          BY <1>1, <2>1, <3>2, ClientGoes
    <2>4. CASE UNCHANGED dhcp_ip_pool
      <3>1. dhcp_ip_pool' \in Pools /\ OneEntryEach(dhcp_ip_pool)'
          BY <1>1, <2>4 DEF OneEntryEach
      <3> QED
          BY <1>1, <2>1, <2>4, <3>1, ClientGoes
    <2> QED
        BY <2>1, <2>2, <2>3, <2>4
  <1>5. CASE ClientDeclines(m)
    <2>1. /\ dhClient[m].phase = "bound" /\ dhClient' = [dhClient EXCEPT ![m] = Unbound(NoIp)]
          /\ Decline(dhClient[m].ip)
        BY <1>5 DEF ClientDeclines, Believe
    <2>2. PICK ip \in IpPool : ip = dhClient[m].ip /\ dhcp_ip_pool[ip].mac = m
        BY <1>1, <2>1
    <2>3. dhcp_ip_pool' = dhcp_client_update(dhcp_ip_pool, ip, NoMac, "unavailable", DhRetry)
        BY <2>1, <2>2 DEF Decline
    <2>4. /\ dhcp_ip_pool' \in Pools /\ OneEntryEach(dhcp_ip_pool)'
          /\ \A a \in IpPool : dhcp_ip_pool[a].mac # m => dhcp_ip_pool'[a] = dhcp_ip_pool[a]
        BY <1>2, <2>2, <2>3, EntryOfClient
    <2> QED
        BY <1>1, <2>1, <2>4, ClientGoes
  <1>6. CASE ClientInforms(m)
    <2>1. PICK ip \in IpPool : Inform(m, ip) /\ dhClient' = [dhClient EXCEPT ![m] = Unbound(ip)]
        BY <1>6 DEF ClientInforms, Believe
    <2>2. CASE dhcp_ip_pool' = dhcp_client_update(dhcp_ip_pool, ip, m, "static", 0)
               /\ ip \in dhcp_client_lookup_by_mac(m)
      <3>1. dhcp_ip_pool[ip].mac = m
          BY <2>2, KnownEntries
      <3>2. /\ dhcp_ip_pool' \in Pools /\ OneEntryEach(dhcp_ip_pool)'
            /\ \A a \in IpPool : dhcp_ip_pool[a].mac # m => dhcp_ip_pool'[a] = dhcp_ip_pool[a]
          BY <1>2, <2>2, <3>1, EntryOfClient
      <3> QED
          BY <2>1, <3>2, ClientGoes
    <2>3. PICK pool \in Pools : /\ pool = Forgotten(m) /\ OneEntryEach(pool)
                                /\ \A a \in IpPool :
                                      /\ pool[a].mac # m
                                      /\ dhcp_ip_pool[a].mac # m => pool[a] = dhcp_ip_pool[a]
        BY ForgottenKeeps
    <2>4. CASE dhcp_ip_pool' = dhcp_client_update(pool, ip, m, "available", 0)
               /\ ip \in AvailableIps(pool)
      <3>1. pool[ip].state = "available"
          BY <2>4 DEF AvailableIps
      <3>2. /\ dhcp_ip_pool' \in Pools /\ OneEntryEach(dhcp_ip_pool')
            /\ \A a \in IpPool \ {ip} : dhcp_ip_pool'[a] = pool[a]
          BY <1>2, <2>3, <2>4, UpdateKeeps
      <3>3. \A a \in IpPool : dhcp_ip_pool[a].mac # m /\ dhcp_ip_pool[a].state = "leased"
                                  => dhcp_ip_pool'[a] = dhcp_ip_pool[a]
          BY <2>3, <3>1, <3>2
      <3>4. OneEntryEach(dhcp_ip_pool)'
          BY <3>2 DEF OneEntryEach
      <3> QED
          BY <2>1, <3>2, <3>3, <3>4, ClientGoes
    <2>5. CASE dhcp_ip_pool' = pool
      <3>1. OneEntryEach(dhcp_ip_pool)'
          BY <2>3, <2>5 DEF OneEntryEach
      <3> QED
          BY <2>1, <2>3, <2>5, <3>1, ClientGoes
    <2> QED
        BY <2>1, <2>2, <2>3, <2>4, <2>5 DEF Inform
  <1> QED
      BY <1>3, <1>4, <1>5, <1>6

\* The server looks for expired leases: none that is in use has expired.
LEMMA ExpiredInv ==
  ASSUME DhInv, NEW found, dhcp_client_release_expired_leases(found)
  PROVE  DhInv'
  <1> DEFINE new(a) == LET e == dhcp_ip_pool[a] IN
                       IF e.left > 0 \/ e.state \in {"available", "static"} THEN e
                       ELSE IF a \in found /\ e.state = "unavailable" THEN [e EXCEPT !.left = DhRetry]
                       ELSE [e EXCEPT !.state = "available"]
  <1>1. DhTypes /\ OneEntryEach(dhcp_ip_pool) /\ dhClient' = dhClient
        /\ \A m \in DhClients : dhClient[m].phase = "bound" => LeaseOf(m)
      BY DEF DhInv, dhcp_client_release_expired_leases
  <1>2. dhcp_ip_pool' = [a \in IpPool |-> new(a)]
      BY DEF dhcp_client_release_expired_leases
  <1>3. ASSUME NEW a \in IpPool
        PROVE  /\ new(a) \in Entries /\ new(a).mac = dhcp_ip_pool[a].mac
               /\ dhcp_ip_pool[a].left > 0 => new(a) = dhcp_ip_pool[a]
    <2>1. dhcp_ip_pool[a] \in Entries
        BY <1>1 DEF DhTypes, Pools
    <2>2. DhRetry \in Nat
        BY DhAssumption
    <2> QED
        BY <2>1, <2>2 DEF Entries, States
  <1> HIDE DEF new
  <1>4. /\ dhcp_ip_pool' \in Pools
        /\ \A a \in IpPool : /\ dhcp_ip_pool'[a].mac = dhcp_ip_pool[a].mac
                             /\ dhcp_ip_pool[a].left > 0 => dhcp_ip_pool'[a] = dhcp_ip_pool[a]
      BY <1>2, <1>3 DEF Pools
  <1>5. DhTypes'
      BY <1>1, <1>4 DEF DhTypes
  <1>6. OneEntryEach(dhcp_ip_pool)'
      BY <1>1, <1>4 DEF OneEntryEach
  <1>7. ASSUME NEW m \in DhClients, dhClient'[m].phase = "bound" PROVE LeaseOf(m)'
    <2>1. LeaseOf(m) /\ dhClient'[m] = dhClient[m]
        BY <1>1, <1>7
    <2>2. dhClient[m].ip \in IpPool /\ dhcp_ip_pool[dhClient[m].ip].left > 0
      <3>1. dhClient[m].ip \in IpPool
          BY <2>1 DEF LeaseOf
      <3>2. dhcp_ip_pool[dhClient[m].ip].left \in Nat /\ dhClient[m].left \in Nat
          BY <1>1, <3>1, DhAssumption DEF DhTypes, Pools, Entries
      <3> QED
          BY <2>1, <3>1, <3>2 DEF LeaseOf
    <2> QED
        BY <1>4, <2>1, <2>2 DEF LeaseOf
  <1> QED
      BY <1>5, <1>6, <1>7 DEF DhInv

\* A second passes, for the server and for the clients.
LEMMA SecondInv ==
  ASSUME DhInv, Second
  PROVE  DhInv'
  <1> DEFINE phases == [phase : {"init", "offered", "bound"}, ip : IpPool \cup {NoIp}, left : 0..DhLease]
             later(m) == LET c == dhClient[m] IN
                         IF c.phase # "bound" THEN c
                         ELSE IF c.left = 1 THEN Unbound(c.ip)
                         ELSE [c EXCEPT !.left = dhClient[m].left - 1]
  <1>1. DhTypes /\ OneEntryEach(dhcp_ip_pool)
        /\ \A m \in DhClients : dhClient[m].phase = "bound" => LeaseOf(m)
      BY DEF DhInv
  <1>2. /\ dhcp_ip_pool' = [a \in IpPool |-> [dhcp_ip_pool[a] EXCEPT !.left = OneSecondOn(dhcp_ip_pool[a].left)]]
        /\ dhClient' = [m \in DhClients |-> later(m)]
      BY DEF Second
  <1>3. ASSUME NEW a \in IpPool
        PROVE  /\ dhcp_ip_pool[a].left \in Nat /\ dhcp_ip_pool'[a] \in Entries
               /\ dhcp_ip_pool'[a].mac = dhcp_ip_pool[a].mac
               /\ dhcp_ip_pool'[a].state = dhcp_ip_pool[a].state
               /\ dhcp_ip_pool[a].left > 0 => dhcp_ip_pool'[a].left = dhcp_ip_pool[a].left - 1
    <2>1. dhcp_ip_pool[a] \in Entries
        BY <1>1 DEF DhTypes, Pools
    <2>2. /\ OneSecondOn(dhcp_ip_pool[a].left) \in Nat
          /\ dhcp_ip_pool[a].left > 0 => OneSecondOn(dhcp_ip_pool[a].left) = dhcp_ip_pool[a].left - 1
        BY <2>1 DEF OneSecondOn, Entries
    <2> QED
        BY <1>2, <2>1, <2>2 DEF Entries
  <1>4. ASSUME NEW m \in DhClients
        PROVE  /\ dhClient[m].left \in Nat /\ later(m) \in phases
               /\ later(m).phase = "bound" =>
                     /\ dhClient[m].phase = "bound" /\ later(m).ip = dhClient[m].ip
                     /\ later(m).left = dhClient[m].left - 1 /\ dhClient[m].left # 1
    <2>1. dhClient[m] \in phases
        BY <1>1 DEF DhTypes
    <2>2. dhClient[m].phase = "bound" => dhClient[m].left > 0
        BY <1>1 DEF LeaseOf
    <2>3. /\ Unbound(dhClient[m].ip) \in phases /\ Unbound(dhClient[m].ip).phase # "bound"
        BY <2>1, DhAssumption DEF Unbound
    <2>4. /\ dhClient[m].left \in Nat
          /\ dhClient[m].phase = "bound" => dhClient[m].left - 1 \in 0..DhLease
        BY <2>1, <2>2, DhAssumption
    <2>5. CASE dhClient[m].phase # "bound" \/ dhClient[m].left = 1
        BY <2>1, <2>3, <2>4, <2>5
    <2>6. CASE dhClient[m].phase = "bound" /\ dhClient[m].left # 1
        BY <2>1, <2>4, <2>6
    <2> QED
        BY <2>5, <2>6
  <1> HIDE DEF later
  <1>5. DhTypes'
    <2>1. dhcp_ip_pool' \in Pools
        BY <1>2, <1>3 DEF Pools
    <2>2. dhClient' \in [DhClients -> phases]
        BY <1>2, <1>4
    <2> QED
        BY <2>1, <2>2 DEF DhTypes
  <1>6. OneEntryEach(dhcp_ip_pool)'
      BY <1>1, <1>3 DEF OneEntryEach
  <1>7. ASSUME NEW m \in DhClients, dhClient'[m].phase = "bound" PROVE LeaseOf(m)'
    <2>1. dhClient'[m] = later(m)
        BY <1>2
    <2>2. /\ LeaseOf(m) /\ dhClient'[m].ip = dhClient[m].ip /\ dhClient[m].left \in Nat
          /\ dhClient'[m].left = dhClient[m].left - 1 /\ dhClient[m].left # 1
        BY <1>1, <1>4, <1>7, <2>1
    <2>3. PICK a \in IpPool : /\ a = dhClient[m].ip /\ dhcp_ip_pool[a].mac = m
                              /\ dhcp_ip_pool[a].state = "leased"
                              /\ dhClient[m].left > 0 /\ dhcp_ip_pool[a].left >= dhClient[m].left
        BY <2>2 DEF LeaseOf
    <2>4. /\ dhcp_ip_pool'[a].mac = m /\ dhcp_ip_pool'[a].state = "leased"
          /\ dhcp_ip_pool[a].left \in Nat
          /\ dhcp_ip_pool[a].left > 0 => dhcp_ip_pool'[a].left = dhcp_ip_pool[a].left - 1
        BY <1>3, <2>3
    <2>5. dhClient'[m].left > 0 /\ dhcp_ip_pool'[a].left >= dhClient'[m].left
        BY <2>2, <2>3, <2>4
    <2> QED
        BY <2>2, <2>3, <2>4, <2>5 DEF LeaseOf
  <1> QED
      BY <1>5, <1>6, <1>7 DEF DhInv

\* The server is started, or started again when its hosts have gone.
LEMMA PoolFresh ==
  /\ dhcpd_ip_pool_init \in Pools /\ OneEntryEach(dhcpd_ip_pool_init)
  /\ \A ip \in IpPool \cup {NoIp} :
        /\ Unbound(ip) \in [phase : {"init", "offered", "bound"}, ip : IpPool \cup {NoIp}, left : 0..DhLease]
        /\ Unbound(ip).phase # "bound"
  <1>1. Entry(NoMac, "available", 0) \in Entries /\ Entry(NoMac, "available", 0).mac = NoMac
      BY DEF Entry, Entries, Macs, States
  <1>2. /\ dhcpd_ip_pool_init \in Pools
        /\ \A a \in IpPool : dhcpd_ip_pool_init[a].mac = NoMac
      BY <1>1 DEF dhcpd_ip_pool_init, Pools
  <1> QED
      BY <1>2, DhAssumption DEF Unbound, OneEntryEach

LEMMA DhInitInv == DhInit => DhInv
  <1> SUFFICES ASSUME DhInit PROVE DhInv
      OBVIOUS
  <1>1. NoIp \in IpPool \cup {NoIp}
      OBVIOUS
  <1>2. \A m \in DhClients : dhClient[m] = Unbound(NoIp)
      BY DEF DhInit
  <1> QED
      BY <1>1, <1>2, PoolFresh DEF DhInit, DhInv, DhTypes

LEMMA RestartInv == ASSUME DhInv, Restart PROVE DhInv'
  <1>1. \A m \in DhClients : dhClient[m].ip \in IpPool \cup {NoIp}
      BY DEF DhInv, DhTypes
  <1>2. \A m \in DhClients : dhClient'[m] = Unbound(dhClient[m].ip) /\ dhClient'[m].phase # "bound"
      BY <1>1, PoolFresh DEF Restart
  <1>3. DhTypes'
      BY <1>1, PoolFresh DEF Restart, DhTypes
  <1>4. OneEntryEach(dhcp_ip_pool)'
      BY PoolFresh DEF Restart, OneEntryEach
  <1> QED
      BY <1>2, <1>3, <1>4 DEF DhInv

\* As long as a client may use an address it is on record with it, for at least
\* that long, and no client is on record twice: no two clients share an address,
\* whichever replies are lost and however late expired leases are looked for.
THEOREM DhcpKeepsLeases == DhSpec => []DhcpLeaseKept
  <1>1. DhInv /\ [DhNext]_dhVars => DhInv'
    <2> SUFFICES ASSUME DhInv, [DhNext]_dhVars PROVE DhInv'
        OBVIOUS
    <2>1. ASSUME NEW m \in DhClients, ClientDiscover(m) PROVE DhInv'
        BY <2>1, ClientDiscoverInv
    <2>2. ASSUME NEW m \in DhClients, ClientRequest(m) PROVE DhInv'
        BY <2>2, ClientRequestInv
    <2>3. ASSUME NEW m \in DhClients,
                 ClientChoosesOther(m) \/ ClientLeaves(m) \/ ClientDeclines(m) \/ ClientInforms(m)
          PROVE  DhInv'
        BY <2>3, ClientGoesInv
    <2>4. ASSUME NEW found \in SUBSET IpPool, dhcp_client_release_expired_leases(found) PROVE DhInv'
        BY <2>4, ExpiredInv
    <2>5. CASE Second
        BY <2>5, SecondInv
    <2>6. CASE Restart
        BY <2>6, RestartInv
    <2>7. CASE UNCHANGED dhVars
        BY <2>7 DEF dhVars, DhInv, DhTypes, OneEntryEach, LeaseOf
    <2> QED
        BY <2>1, <2>2, <2>3, <2>4, <2>5, <2>6, <2>7 DEF DhNext
  <1>2. DhInv => DhcpLeaseKept
    <2> SUFFICES ASSUME DhInv PROVE DhcpLeaseKept
        OBVIOUS
    <2>1. ASSUME NEW m \in DhClients PROVE Cardinality(dhcp_client_lookup_by_mac(m)) <= 1
      <3>1. CASE dhcp_client_lookup_by_mac(m) = {}
          BY <3>1, FS_EmptySet
      <3>2. ASSUME NEW ip \in dhcp_client_lookup_by_mac(m) PROVE Cardinality(dhcp_client_lookup_by_mac(m)) <= 1
        <4>1. dhcp_client_lookup_by_mac(m) = {ip}
            BY KnownEntries DEF dhcp_client_lookup_by_mac
        <4>2. Cardinality({ip}) = 1
            BY FS_Singleton
        <4> QED
            BY <4>1, <4>2
      <3> QED
          BY <3>1, <3>2
    <2> QED
        BY <2>1 DEF DhcpLeaseKept, DhInv, LeaseOf
  <1> QED
      BY <1>1, <1>2, DhInitInv, PTL DEF DhSpec

-----------------------------------------------------------------------------
(***************************************************************************)
(* The writer preferred lock.  num_writers_waiting goes up and down with   *)
(* the set of the writers that are blocked, and never wraps.               *)
(***************************************************************************)
BlockedAt == {"w_blocked", "w_wait", "w_woken", "w_timeout"}
Blocked == {t \in WpThreads : wpPc[t] \in BlockedAt}

\* The inductive invariant.
WpInv ==
  /\ wpPc \in [WpThreads -> Locations]
  /\ num_writers_waiting = Cardinality(Blocked)

\* The sizes that occur do not wrap.
LEMMA WpModulo ==
  ASSUME NEW n \in Nat
  PROVE  /\ n < Cardinality(WpThreads) => Plus(n) = n + 1
         /\ n > 0 /\ n <= Cardinality(WpThreads) => Minus(n) = n - 1
  <1>1. PICK M \in Nat : M = UINT_MOD /\ M > Cardinality(WpThreads) + 1 /\ Cardinality(WpThreads) \in Nat
      BY WriterPreferredAssumption, FS_CardinalityType
  <1>2. \A k \in Nat : k < M => k % M = k /\ (k + M) % M = k
      BY <1>1
  <1>3. ASSUME n < Cardinality(WpThreads) PROVE Plus(n) = n + 1
    <2>1. n + 1 \in Nat /\ n + 1 < M
        BY <1>1, <1>3
    <2> QED
        BY <1>1, <1>2, <2>1 DEF Plus
  <1>4. ASSUME n > 0, n <= Cardinality(WpThreads) PROVE Minus(n) = n - 1
    <2>1. n - 1 \in Nat /\ n - 1 < M
        BY <1>1, <1>4
    <2> QED
        BY <1>1, <1>2, <2>1 DEF Minus
  <1> QED
      BY <1>3, <1>4

\* A thread joins the blocked writers, or leaves them, or none does.
LEMMA BlockedMoves ==
  ASSUME WpInv, wpPc' \in [WpThreads -> Locations]
  PROVE  /\ (Blocked' = Blocked /\ num_writers_waiting' = num_writers_waiting) => WpInv'
         /\ \A t \in WpThreads :
              (wpPc[t] \notin BlockedAt /\ Blocked' = Blocked \cup {t}
                 /\ num_writers_waiting' = Plus(num_writers_waiting)) => WpInv'
         /\ \A t \in WpThreads :
              (wpPc[t] \in BlockedAt /\ Blocked' = Blocked \ {t}
                 /\ num_writers_waiting' = Minus(num_writers_waiting)) => WpInv'
  <1>1. IsFiniteSet(WpThreads) /\ Blocked \subseteq WpThreads
      BY WriterPreferredAssumption DEF Blocked
  <1>2. /\ IsFiniteSet(Blocked) /\ Cardinality(Blocked) \in Nat /\ Cardinality(WpThreads) \in Nat
        /\ Cardinality(Blocked) <= Cardinality(WpThreads)
        /\ Cardinality(Blocked) = Cardinality(WpThreads) => Blocked = WpThreads
      BY <1>1, FS_Subset, FS_CardinalityType
  <1>3. ASSUME Blocked' = Blocked, num_writers_waiting' = num_writers_waiting PROVE WpInv'
      BY <1>3 DEF WpInv
  <1>4. ASSUME NEW t \in WpThreads, wpPc[t] \notin BlockedAt, Blocked' = Blocked \cup {t},
               num_writers_waiting' = Plus(num_writers_waiting)
        PROVE  WpInv'
    <2>1. t \notin Blocked /\ Cardinality(Blocked) < Cardinality(WpThreads)
        BY <1>2, <1>4 DEF Blocked
    <2>2. Cardinality(Blocked \cup {t}) = Cardinality(Blocked) + 1
        BY <1>2, <2>1, FS_AddElement
    <2> QED
        BY <1>2, <1>4, <2>1, <2>2, WpModulo DEF WpInv
  <1>5. ASSUME NEW t \in WpThreads, wpPc[t] \in BlockedAt, Blocked' = Blocked \ {t},
               num_writers_waiting' = Minus(num_writers_waiting)
        PROVE  WpInv'
    <2>1. t \in Blocked
        BY <1>5 DEF Blocked
    <2>2. Cardinality(Blocked) > 0
        BY <1>2, <2>1, FS_EmptySet
    <2>3. Cardinality(Blocked \ {t}) = Cardinality(Blocked) - 1
        BY <1>2, <2>1, FS_RemoveElement
    <2> QED
        BY <1>2, <1>5, <2>2, <2>3, WpModulo DEF WpInv
  <1> QED
      BY <1>3, <1>4, <1>5

\* The flag wakes every waiting thread, and none that waited leaves.
LEMMA FlagKeepsBlocked ==
  ASSUME WpInv, NEW t \in WpThreads, wpPc[t] \notin BlockedAt, SetFlag(t, "idle")
  PROVE  wpPc' \in [WpThreads -> Locations] /\ Blocked' = Blocked
  <1>1. \A u \in WpThreads : Resume(wpPc[u]) \in Locations /\ (Resume(wpPc[u]) \in BlockedAt <=> wpPc[u] \in BlockedAt)
      BY DEF WpInv, Resume, Locations, BlockedAt
  <1>2. wpPc' = [u \in WpThreads |-> IF u = t THEN "idle" ELSE Resume(wpPc[u])]
      BY DEF SetFlag
  <1> QED
      BY <1>1, <1>2 DEF Blocked, BlockedAt, Locations

\* A thread that goes on by itself.
LEMMA GotoBlocked ==
  ASSUME WpInv, NEW t \in WpThreads, NEW there \in Locations, WpGoto(t, there)
  PROVE  /\ wpPc' \in [WpThreads -> Locations]
         /\ there \in BlockedAt => Blocked' = Blocked \cup {t}
         /\ there \notin BlockedAt => Blocked' = Blocked \ {t}
  BY DEF WpInv, WpGoto, Blocked

\* The counter of waiting writers, which keeps readers out, is the number of the
\* writers that are blocked: one that was served or gave up is not counted.
THEOREM WritersAreCounted == WpSpec => []WritersCounted
  <1>1. WpInit => WpInv
    <2>1. ASSUME WpInit PROVE Blocked = {}
        BY <2>1 DEF WpInit, Blocked, BlockedAt
    <2> QED
        BY <2>1, FS_EmptySet DEF WpInit, WpInv, Locations
  <1>2. WpInv /\ [WpNext]_wpVars => WpInv'
    <2> SUFFICES ASSUME WpInv, [WpNext]_wpVars PROVE WpInv'
        OBVIOUS
    <2>1. ASSUME NEW t \in WpThreads, NEW there \in Locations,
                 WpGoto(t, there), wpPc[t] \in BlockedAt <=> there \in BlockedAt,
                 num_writers_waiting' = num_writers_waiting
          PROVE  WpInv'
      <3>1. Blocked' = Blocked
          BY <2>1, GotoBlocked DEF Blocked
      <3> QED
          BY <2>1, <3>1, GotoBlocked, BlockedMoves
    <2>2. ASSUME NEW t \in WpThreads, ReaderGet(t) \/ ReaderTry(t) \/ ReaderAwait(t)
                 \/ ReaderTimeout(t) \/ ReaderGiveUp(t) \/ WriterGet(t) \/ WriterTimeout(t)
          PROVE  WpInv'
      <3>1. /\ {"r_try", "r_blocked", "r_wait", "r_timeout", "reading", "w_try", "w_timeout"} \subseteq Locations
            /\ \A p \in {"idle", "r_try", "r_blocked", "r_wait", "r_timeout", "reading", "w_try"} : p \notin BlockedAt
            /\ "w_timeout" \in BlockedAt /\ "w_wait" \in BlockedAt
            /\ Resume("r_wait") = "r_try"
          BY DEF Locations, BlockedAt, Resume
      <3> QED
          BY <2>1, <2>2, <3>1 DEF ReaderGet, ReaderTry, ReaderAwait, ReaderTimeout, ReaderGiveUp,
                                  WriterGet, WriterTimeout, AwaitFlag
    <2>3. ASSUME NEW t \in WpThreads, WriterAwait(t) PROVE WpInv'
      <3>1. /\ {"w_wait", "w_woken"} \subseteq Locations /\ Resume("w_wait") = "w_woken"
            /\ {"w_blocked", "w_wait", "w_woken"} \subseteq BlockedAt
          BY DEF Locations, BlockedAt, Resume
      <3> QED
          BY <2>1, <2>3, <3>1 DEF WriterAwait, AwaitFlag
    <2>4. ASSUME NEW t \in WpThreads, ReaderPut(t) PROVE WpInv'
      <3>1. wpPc[t] \notin BlockedAt /\ "idle" \in Locations /\ "idle" \notin BlockedAt
          BY <2>4 DEF ReaderPut, BlockedAt, Locations
      <3> QED
          BY <2>1, <2>4, <3>1, FlagKeepsBlocked, BlockedMoves DEF ReaderPut
    <2>5. ASSUME NEW t \in WpThreads, WriterPut(t) PROVE WpInv'
      <3>1. wpPc[t] \notin BlockedAt
          BY <2>5 DEF WriterPut, BlockedAt
      <3> QED
          BY <2>5, <3>1, FlagKeepsBlocked, BlockedMoves DEF WriterPut
    <2>6. ASSUME NEW t \in WpThreads, WriterTry(t) PROVE WpInv'
      <3>1. /\ wpPc[t] \notin BlockedAt /\ "w_blocked" \in Locations /\ "writing" \in Locations
            /\ "w_blocked" \in BlockedAt /\ "writing" \notin BlockedAt
          BY <2>6 DEF WriterTry, BlockedAt, Locations
      <3> QED
          BY <2>1, <2>6, <3>1, GotoBlocked, BlockedMoves DEF WriterTry
    <2>7. ASSUME NEW t \in WpThreads, WriterWoken(t) \/ WriterGiveUp(t) PROVE WpInv'
      <3>1. wpPc[t] \in BlockedAt /\ "writing" \in Locations /\ "writing" \notin BlockedAt
          BY <2>7 DEF WriterWoken, WriterGiveUp, BlockedAt, Locations
      <3> QED
          BY <2>7, <3>1, GotoBlocked, BlockedMoves DEF WriterWoken, WriterGiveUp
    <2>8. CASE UNCHANGED wpVars
        BY <2>8 DEF wpVars, WpInv, Blocked
    <2> QED
        BY <2>2, <2>3, <2>4, <2>5, <2>6, <2>7, <2>8 DEF WpNext, LockCode
  <1>3. WpInv => WritersCounted
      BY DEF WpInv, WritersCounted, Blocked, BlockedAt
  <1> QED
      BY <1>1, <1>2, <1>3, PTL DEF WpSpec

-----------------------------------------------------------------------------
(***************************************************************************)
(* Control transfers.  The endpoint, the queue of events and TinyUSB are   *)
(* where the stage of the host's request allows; the last event of the     *)
(* request before may still be in the queue.                               *)
(***************************************************************************)
UsbHeaders == [no : Nat, kind : UsbKinds]
UsbTransfers == [ep : {"in", "out"}, request : UsbHeaders]
UsbEntries == [ep : {"in", "out", "setup"}, request : UsbHeaders]

UsbTypes ==
  /\ usbHost \in [no : Nat, kind : UsbKinds,
                  stage : {"idle", "data_in", "data_out", "status_in", "status_out"}]
  /\ usbStack \in [no : Nat, kind : UsbKinds, stage : {"idle", "data", "status"}]
  /\ setup_packet \in UsbHeaders
  /\ usbIn \in UsbInLengths \cup {0, -1}

\* What the next stages of a request are for.
FirstStage(k) == CASE k = "in" -> "data_in" [] k = "out" -> "data_out" [] k = "none" -> "status_in"
SetupEvent == [ep |-> "setup", request |-> [no |-> usbHost.no, kind |-> usbHost.kind]]

\* No request is under way.
UsbBetween ==
  /\ usbHost.stage = "idle" /\ usbOut = "setup" /\ usbIn = -1
  /\ \/ usbStack.stage = "idle" /\ usbEvents = << >>
     \/ usbStack.stage = "status" /\ \E e \in UsbTransfers : usbEvents = <<e>>

\* A request has come and TinyUSB has yet to be told.
UsbUntold ==
  /\ usbHost.stage = FirstStage(usbHost.kind) /\ usbOut = "no" /\ usbIn = -1
  /\ waiting_for_setup = FALSE
  /\ \/ usbStack.stage = "idle" /\ usbEvents = <<SetupEvent>>
     \/ usbStack.stage = "status" /\ \E e \in UsbTransfers : usbEvents = <<e, SetupEvent>>

\* The stages of a request that sends data to the host: the data are on the way,
\* have been sent, and the empty packet is awaited.
UsbDataIn ==
  /\ usbHost.stage = "data_in" /\ usbOut = "no" /\ usbIn \in UsbInLengths /\ usbEvents = << >>
  /\ usbStack.stage = "data" /\ usbStack.kind = "in"

UsbDataSent ==
  /\ usbHost.stage = "status_out" /\ usbOut = "no" /\ usbIn = -1
  /\ \E e \in UsbTransfers : e.ep = "in" /\ usbEvents = <<e>>
  /\ usbStack.stage = "data" /\ usbStack.kind = "in"

UsbAwaitsEnd ==
  /\ usbHost.stage = "status_out" /\ usbOut = "data" /\ usbIn = -1 /\ usbEvents = << >>
  /\ usbStack.stage = "status"

\* The stages of one that takes data from the host.
UsbDataOut ==
  /\ usbHost.stage = "data_out" /\ usbOut = "data" /\ usbIn = -1 /\ usbEvents = << >>
  /\ dest_ctrl_buffer = usbHost.no
  /\ usbStack.stage = "data" /\ usbStack.kind = "out"

UsbDataReceived ==
  /\ usbHost.stage = "status_in" /\ usbOut = "no" /\ usbIn = -1
  /\ \E e \in UsbTransfers : e.ep = "out" /\ usbEvents = <<e>>
  /\ usbStack.stage = "data" /\ usbStack.kind = "out"

\* The empty packet that ends such a request, or one without data.
UsbSendsEnd ==
  /\ usbHost.stage = "status_in" /\ usbOut = "no" /\ usbIn = 0 /\ usbEvents = << >>
  /\ usbStack.stage = "status"

\* Data that TinyUSB has refused are on the way.
UsbRefused ==
  /\ usbHost.stage = "data_out" /\ usbOut = "setup" /\ usbIn = -1 /\ usbEvents = << >>
  /\ usbStack.stage = "idle"

\* The inductive invariant.
UsbInv ==
  /\ UsbTypes
  /\ \/ UsbBetween \/ UsbUntold \/ UsbDataIn \/ UsbDataSent \/ UsbAwaitsEnd
     \/ UsbDataOut \/ UsbDataReceived \/ UsbSendsEnd \/ UsbRefused

\* The queue of events.
LEMMA UsbQueue ==
  ASSUME NEW e \in UsbEntries, NEW f \in UsbEntries
  PROVE  /\ Append(<< >>, e) = <<e>> /\ Append(<<e>>, f) = <<e, f>>
         /\ <<e>> # << >> /\ <<e, f>> # << >>
         /\ Head(<<e>>) = e /\ Tail(<<e>>) = << >>
         /\ Head(<<e, f>>) = e /\ Tail(<<e, f>>) = <<f>>
  <1>1. Append(<< >>, e) = <<e>>
      OBVIOUS
  <1>2. Append(<<e>>, f) = <<e, f>>
    <2>1. /\ <<e>> \in Seq(UsbEntries) /\ Len(<<e>>) = 1 /\ <<e>>[1] = e
          /\ <<e, f>> \in Seq(UsbEntries) /\ Len(<<e, f>>) = 2 /\ <<e, f>>[1] = e /\ <<e, f>>[2] = f
        OBVIOUS
    <2>2. /\ Append(<<e>>, f) \in Seq(UsbEntries) /\ Len(Append(<<e>>, f)) = 2
          /\ Append(<<e>>, f)[1] = e /\ Append(<<e>>, f)[2] = f
        BY <2>1, AppendProperties
    <2>3. \A i \in 1..Len(Append(<<e>>, f)) : i = 1 \/ i = 2
        BY <2>2
    <2> DEFINE s == Append(<<e>>, f)  t == <<e, f>>
    <2>4. /\ s \in Seq(UsbEntries) /\ t \in Seq(UsbEntries) /\ Len(s) = Len(t)
          /\ \A i \in 1..Len(s) : s[i] = t[i]
        BY <2>1, <2>2, <2>3
    <2> HIDE DEF s, t
    <2>5. s = t
        BY <2>4, SeqEqual
    <2> QED
        BY <2>5 DEF s, t
  <1>3. <<e>> # << >> /\ <<e, f>> # << >>
      OBVIOUS
  <1>4. Head(<<e>>) = e /\ Tail(<<e>>) = << >>
      OBVIOUS
  <1>5. Head(<<e, f>>) = e
      OBVIOUS
  <1>6. Tail(<<e, f>>) = <<f>>
      OBVIOUS
  <1> QED
      BY <1>1, <1>2, <1>3, <1>4, <1>5, <1>6

\* What the events are.
LEMMA UsbEntriesAre ==
  /\ UsbTransfers \subseteq UsbEntries
  /\ \A h \in UsbHeaders : [ep |-> "setup", request |-> h] \in UsbEntries
  /\ UsbTypes => SetupEvent \in UsbEntries
  <1>1. UsbTypes => [no |-> usbHost.no, kind |-> usbHost.kind] \in UsbHeaders
      BY DEF UsbTypes, UsbHeaders
  <1> QED
      BY <1>1 DEF UsbTransfers, UsbEntries, SetupEvent

\* A SETUP packet is taken between two requests only.
LEMMA SetupPacketInv == ASSUME UsbInv, SetupPacket PROVE UsbInv'
  <1>1. UsbTypes /\ UsbBetween
      BY DEF UsbInv, SetupPacket, UsbBetween, UsbUntold, UsbDataIn, UsbDataSent, UsbAwaitsEnd,
             UsbDataOut, UsbDataReceived, UsbSendsEnd, UsbRefused, UsbTypes, UsbKinds, FirstStage
  <1>2. PICK k \in UsbKinds, r \in UsbHeaders :
          /\ r = [no |-> usbHost.no + 1, kind |-> k]
          /\ usbHost' = [no |-> r.no, kind |-> k, stage |-> FirstStage(k)]
          /\ setup_packet' = r
          /\ usbEvents' = Append(usbEvents, [ep |-> "setup", request |-> r])
    <2>1. \A k \in UsbKinds : [no |-> usbHost.no + 1, kind |-> k] \in UsbHeaders
        BY <1>1 DEF UsbTypes, UsbHeaders
    <2> QED
        BY <1>1, <2>1 DEF SetupPacket, UsbBetween, dcd_event, FirstStage
  <1>3. /\ SetupEvent' = [ep |-> "setup", request |-> r] /\ r.kind = k /\ usbHost'.kind = k
        /\ [ep |-> "setup", request |-> r] \in UsbEntries
      BY <1>2, UsbEntriesAre DEF SetupEvent
  <1>4. /\ FirstStage(k) \in {"data_in", "data_out", "status_in"}
        /\ usbHost'.stage = FirstStage(usbHost'.kind) /\ r.no \in Nat /\ k \in UsbKinds
      BY <1>2, <1>3 DEF FirstStage, UsbKinds, UsbHeaders
  <1>5. UsbTypes'
      BY <1>1, <1>2, <1>4 DEF UsbTypes, SetupPacket
  <1>6. /\ usbOut' = "no" /\ waiting_for_setup' = FALSE
        /\ UNCHANGED <<usbIn, dest_ctrl_buffer, usbStack>>
      BY DEF SetupPacket
  <1>7. \/ usbStack.stage = "idle" /\ usbEvents' = <<SetupEvent'>>
        \/ usbStack.stage = "status" /\ \E e \in UsbTransfers : usbEvents' = <<e, SetupEvent'>>
    <2>1. CASE usbStack.stage = "idle" /\ usbEvents = << >>
        BY <1>2, <1>3, <2>1, UsbQueue
    <2>2. ASSUME usbStack.stage = "status", NEW e \in UsbTransfers, usbEvents = <<e>>
          PROVE  usbEvents' = <<e, SetupEvent'>>
        BY <1>2, <1>3, <2>2, UsbQueue, UsbEntriesAre
    <2> QED
        BY <1>1, <2>1, <2>2 DEF UsbBetween
  <1> QED
      BY <1>1, <1>4, <1>5, <1>6, <1>7 DEF UsbInv, UsbUntold, UsbBetween

\* A packet to the host: its data, or the empty one that ends its request.
LEMMA InPacketInv == ASSUME UsbInv, 0 \notin UsbInLengths, InPacket PROVE UsbInv'
  <1>1. UsbTypes /\ (UsbDataIn \/ UsbSendsEnd)
      BY DEF UsbInv, InPacket, UsbBetween, UsbUntold, UsbDataIn, UsbDataSent, UsbAwaitsEnd,
             UsbDataOut, UsbDataReceived, UsbSendsEnd, UsbRefused
  <1> DEFINE e == [ep |-> "in", request |-> setup_packet]
  <1>2. e \in UsbTransfers /\ e \in UsbEntries /\ e.ep = "in"
      BY <1>1 DEF UsbTypes, UsbTransfers, UsbEntries
  <1>3. usbEvents' = <<e>> /\ usbIn' = -1 /\ UNCHANGED <<dest_ctrl_buffer, setup_packet, usbStack>>
      BY <1>1, <1>2, UsbQueue DEF InPacket, dcd_event, UsbDataIn, UsbSendsEnd
  <1> HIDE DEF e
  <1>4. CASE UsbDataIn
    <2>1. usbHost'.stage = "status_out" /\ usbHost' = [usbHost EXCEPT !.stage = "status_out"]
        BY <1>1, <1>4 DEF InPacket, UsbAt, UsbDataIn, UsbTypes
    <2>2. usbOut' = "no"
        BY <1>4 DEF InPacket, InPacketReady, UsbDataIn
    <2>3. UsbTypes'
        BY <1>1, <1>3, <2>1 DEF UsbTypes
    <2> QED
        BY <1>2, <1>3, <1>4, <2>1, <2>2, <2>3 DEF UsbInv, UsbDataIn, UsbDataSent
  <1>5. CASE UsbSendsEnd
    <2>1. usbHost'.stage = "idle" /\ usbHost' = [usbHost EXCEPT !.stage = "idle"]
        BY <1>1, <1>5 DEF InPacket, UsbAt, UsbSendsEnd, UsbTypes
    <2>2. usbOut' = "setup"
        BY <1>5 DEF InPacket, InPacketReady, UsbSendsEnd, prepare_setup
    <2>3. UsbTypes'
        BY <1>1, <1>3, <2>1 DEF UsbTypes
    <2> QED
        BY <1>2, <1>3, <1>5, <2>1, <2>2, <2>3 DEF UsbInv, UsbSendsEnd, UsbBetween
  <1> QED
      BY <1>1, <1>4, <1>5

\* A packet from the host: the empty one that ends its request, its data, or data
\* that have been refused.
LEMMA OutPacketInv == ASSUME UsbInv, OutStatus \/ OutData \/ OutDataDropped PROVE UsbInv'
  <1>1. /\ UsbTypes
        /\ OutStatus => UsbAwaitsEnd
        /\ OutData => UsbDataOut
        /\ OutDataDropped => UsbRefused
      BY DEF UsbInv, OutStatus, OutData, OutDataDropped, UsbBetween, UsbUntold, UsbDataIn,
             UsbDataSent, UsbAwaitsEnd, UsbDataOut, UsbDataReceived, UsbSendsEnd, UsbRefused
  <1> DEFINE e == [ep |-> "out", request |-> setup_packet]
  <1>2. e \in UsbTransfers /\ e \in UsbEntries /\ e.ep = "out"
      BY <1>1 DEF UsbTypes, UsbTransfers, UsbEntries
  <1>3. ASSUME NEW stage \in {"idle", "status_in"}, usbHost' = UsbAt(stage)
        PROVE  usbHost'.stage = stage /\ usbHost' = [usbHost EXCEPT !.stage = stage]
      BY <1>1, <1>3 DEF UsbTypes, UsbAt
  <1>4. CASE OutStatus
    <2>1. usbEvents' = <<e>> /\ usbOut' = "setup" /\ usbHost' = UsbAt("idle")
          /\ UNCHANGED <<usbIn, setup_packet, usbStack>>
        BY <1>1, <1>2, <1>4, UsbQueue DEF OutStatus, UsbAwaitsEnd, dcd_event, prepare_setup
    <2>2. UsbTypes'
        BY <1>1, <1>3, <2>1 DEF UsbTypes
    <2> QED
        BY <1>1, <1>2, <1>3, <1>4, <2>1, <2>2 DEF UsbInv, UsbAwaitsEnd, UsbBetween
  <1>5. CASE OutData
    <2>1. usbEvents' = <<e>> /\ usbOut' = "no" /\ usbHost' = UsbAt("status_in")
          /\ UNCHANGED <<usbIn, setup_packet, usbStack>>
        BY <1>1, <1>2, <1>5, UsbQueue DEF OutData, UsbDataOut, dcd_event
    <2>2. UsbTypes'
        BY <1>1, <1>3, <2>1 DEF UsbTypes
    <2> QED
        BY <1>1, <1>2, <1>3, <1>5, <2>1, <2>2 DEF UsbInv, UsbDataOut, UsbDataReceived
  <1>6. CASE OutDataDropped
    <2>1. usbOut' = "setup" /\ usbHost' = UsbAt("idle")
          /\ UNCHANGED <<usbIn, setup_packet, usbStack, usbEvents>>
        BY <1>6 DEF OutDataDropped, prepare_setup
    <2>2. UsbTypes'
        BY <1>1, <1>3, <2>1 DEF UsbTypes
    <2> QED
        BY <1>1, <1>3, <1>6, <2>1, <2>2 DEF UsbInv, UsbRefused, UsbBetween
  <1> QED
      BY <1>4, <1>5, <1>6

\* TinyUSB is told of a request, and goes on with it or stalls it.
LEMMA TakeSetupInv == ASSUME UsbInv, TakeSetup PROVE UsbInv'
  <1>1. /\ UsbTypes /\ UsbUntold /\ usbStack.stage = "idle" /\ usbEvents = <<SetupEvent>>
    <2>1. \A e \in UsbTransfers : Head(<<e>>).ep # "setup" /\ Head(<<e, SetupEvent>>).ep # "setup"
        BY UsbQueue, UsbEntriesAre DEF UsbTransfers, UsbInv
    <2> QED
        BY <2>1 DEF UsbInv, TakeSetup, UsbBetween, UsbUntold, UsbDataIn, UsbDataSent, UsbAwaitsEnd,
             UsbDataOut, UsbDataReceived, UsbSendsEnd, UsbRefused
  <1>2. /\ usbEvents' = << >> /\ setup_packet' = setup_packet
        /\ Head(usbEvents).request = [no |-> usbHost.no, kind |-> usbHost.kind]
    <2>1. Head(usbEvents) = SetupEvent /\ Tail(usbEvents) = << >>
        BY <1>1, UsbQueue, UsbEntriesAre
    <2> QED
        BY <2>1 DEF TakeSetup, SetupEvent
  <1>3. PICK r \in UsbHeaders :
          /\ r = Head(usbEvents).request /\ r.no = usbHost.no /\ r.kind = usbHost.kind
          /\ r.no \in Nat /\ r.kind \in UsbKinds
      BY <1>1, <1>2 DEF UsbTypes, UsbHeaders
  <1>4. ASSUME NEW stage \in {"data", "status"}, StackAt(r, stage)
        PROVE  /\ usbStack' \in [no : Nat, kind : UsbKinds, stage : {"idle", "data", "status"}]
               /\ usbStack'.stage = stage /\ usbStack'.kind = r.kind
      BY <1>3, <1>4 DEF StackAt
  <1>5. CASE /\ r.kind = "in" /\ \E len \in UsbInLengths : dcd_edpt_xfer_in(len)
             /\ StackAt(r, "data") /\ UNCHANGED usbHost
    <2>1. usbHost.stage = "data_in" /\ usbOut' = "no" /\ usbIn' \in UsbInLengths
        BY <1>1, <1>3, <1>5 DEF UsbUntold, FirstStage, dcd_edpt_xfer_in
    <2>2. UsbTypes'
        BY <1>1, <1>2, <1>4, <1>5, <2>1 DEF UsbTypes
    <2> QED
        BY <1>2, <1>4, <1>5, <2>1, <2>2 DEF UsbInv, UsbDataIn
  <1>6. CASE /\ r.kind = "out" /\ dcd_edpt_xfer_out(r.no)
             /\ StackAt(r, "data") /\ UNCHANGED usbHost
    <2>1. usbHost.stage = "data_out" /\ usbOut' = "data" /\ usbIn' = -1 /\ dest_ctrl_buffer' = usbHost.no
        BY <1>1, <1>3, <1>6 DEF UsbUntold, FirstStage, dcd_edpt_xfer_out
    <2>2. UsbTypes'
        BY <1>1, <1>2, <1>4, <1>6, <2>1 DEF UsbTypes
    <2> QED
        BY <1>2, <1>4, <1>6, <2>1, <2>2 DEF UsbInv, UsbDataOut
  <1>7. CASE /\ r.kind = "none" /\ dcd_edpt_xfer_in(0)
             /\ StackAt(r, "status") /\ UNCHANGED usbHost
    <2>1. usbHost.stage = "status_in" /\ usbOut' = "no" /\ usbIn' = 0
        BY <1>1, <1>3, <1>7 DEF UsbUntold, FirstStage, dcd_edpt_xfer_in
    <2>2. UsbTypes'
        BY <1>1, <1>2, <1>4, <1>7, <2>1 DEF UsbTypes
    <2> QED
        BY <1>2, <1>4, <1>7, <2>1, <2>2 DEF UsbInv, UsbSendsEnd
  <1>8. CASE dcd_edpt_stall
    <2>1. usbOut' = "setup" /\ usbIn' = -1 /\ usbStack' = NoRequest
          /\ (usbHost' = UsbAt("idle") \/ (usbHost.stage = "data_out" /\ usbHost' = usbHost))
        BY <1>1, <1>8 DEF dcd_edpt_stall, UsbUntold, prepare_setup
    <2>2. /\ NoRequest \in [no : Nat, kind : UsbKinds, stage : {"idle", "data", "status"}]
          /\ NoRequest.stage = "idle"
        BY DEF NoRequest, UsbKinds
    <2>3. usbHost' = UsbAt("idle") => usbHost'.stage = "idle" /\ usbHost' = [usbHost EXCEPT !.stage = "idle"]
        BY <1>1 DEF UsbAt, UsbTypes
    <2>4. UsbTypes'
        BY <1>1, <1>2, <2>1, <2>2, <2>3 DEF UsbTypes
    <2> QED
        BY <1>2, <2>1, <2>2, <2>3, <2>4 DEF UsbInv, UsbBetween, UsbRefused
  <1> QED
      BY <1>3, <1>5, <1>6, <1>7, <1>8 DEF TakeSetup

\* TinyUSB is told that a transfer is over.
LEMMA TakeTransferInv == ASSUME UsbInv, TakeTransfer PROVE UsbInv'
  <1>1. /\ UsbTypes
        /\ UNCHANGED <<setup_packet, usbHost>>
      BY DEF UsbInv, TakeTransfer
  <1>2. /\ usbStack.no \in Nat /\ usbStack.kind \in UsbKinds
        /\ \A stage \in {"idle", "data", "status"} :
              LET s == [no |-> usbStack.no, kind |-> usbStack.kind, stage |-> stage] IN
              /\ s \in [no : Nat, kind : UsbKinds, stage : {"idle", "data", "status"}]
              /\ s.stage = stage /\ [usbStack EXCEPT !.stage = stage] = s
      BY <1>1 DEF UsbTypes
  <1>3. CASE usbStack.stage = "status"
    <2>1. /\ usbStack' = [usbStack EXCEPT !.stage = "idle"] /\ usbEvents' = Tail(usbEvents)
          /\ UNCHANGED <<usbOut, usbIn, waiting_for_setup, dest_ctrl_buffer>>
        BY <1>3 DEF TakeTransfer
    <2>2. usbStack'.stage = "idle" /\ UsbTypes'
        BY <1>1, <1>2, <2>1 DEF UsbTypes
    <2>3. \/ UsbBetween /\ \E e \in UsbTransfers : usbEvents = <<e>>
          \/ UsbUntold /\ \E e \in UsbTransfers : usbEvents = <<e, SetupEvent>>
        BY <1>3 DEF UsbInv, TakeTransfer, UsbBetween, UsbUntold, UsbDataIn, UsbDataSent, UsbAwaitsEnd,
                    UsbDataOut, UsbDataReceived, UsbSendsEnd, UsbRefused
    <2>4. CASE UsbBetween /\ \E e \in UsbTransfers : usbEvents = <<e>>
      <3>1. usbEvents' = << >>
          BY <2>1, <2>4, UsbQueue, UsbEntriesAre
      <3> QED
          BY <1>1, <2>1, <2>2, <2>4, <3>1 DEF UsbInv, UsbBetween
    <2>5. CASE UsbUntold /\ \E e \in UsbTransfers : usbEvents = <<e, SetupEvent>>
      <3>1. usbEvents' = <<SetupEvent>> /\ SetupEvent' = SetupEvent
        <4>1. SetupEvent' = SetupEvent
            BY <1>1 DEF SetupEvent
        <4> QED
            BY <1>1, <2>1, <2>5, <4>1, UsbQueue, UsbEntriesAre
      <3> QED
          BY <1>1, <2>1, <2>2, <2>5, <3>1 DEF UsbInv, UsbUntold
    <2> QED
        BY <2>3, <2>4, <2>5
  <1>4. CASE usbStack.stage # "status"
    <2>1. /\ UsbDataSent \/ UsbDataReceived
          /\ \E e \in UsbTransfers : e.ep = usbStack.kind /\ usbEvents = <<e>>
      <3>1. usbEvents = <<SetupEvent>> => Head(usbEvents).ep = "setup"
          BY <1>1, UsbQueue, UsbEntriesAre DEF SetupEvent
      <3> QED
          BY <1>4, <3>1 DEF UsbInv, TakeTransfer, UsbBetween, UsbUntold, UsbDataIn, UsbDataSent,
                 UsbAwaitsEnd, UsbDataOut, UsbDataReceived, UsbSendsEnd, UsbRefused
    <2>2. /\ usbEvents' = << >> /\ StackAt(usbStack, "status")
          /\ IF usbStack.kind = "in" THEN dcd_edpt_xfer_out(usbStack.no) ELSE dcd_edpt_xfer_in(0)
        BY <2>1, UsbQueue, UsbEntriesAre DEF TakeTransfer, UsbDataSent, UsbDataReceived
    <2>3. usbStack'.stage = "status"
          /\ usbStack' \in [no : Nat, kind : UsbKinds, stage : {"idle", "data", "status"}]
        BY <1>2, <2>2 DEF StackAt
    <2>4. CASE UsbDataSent
      <3>1. usbOut' = "data" /\ usbIn' = -1
          BY <2>2, <2>4 DEF UsbDataSent, dcd_edpt_xfer_out
      <3> QED
          BY <1>1, <2>2, <2>3, <2>4, <3>1 DEF UsbInv, UsbTypes, UsbDataSent, UsbAwaitsEnd
    <2>5. CASE UsbDataReceived
      <3>1. usbOut' = "no" /\ usbIn' = 0
          BY <2>2, <2>5 DEF UsbDataReceived, dcd_edpt_xfer_in
      <3> QED
          BY <1>1, <2>2, <2>3, <2>5, <3>1 DEF UsbInv, UsbTypes, UsbDataReceived, UsbSendsEnd
    <2> QED
        BY <2>1, <2>4, <2>5
  <1> QED
      BY <1>3, <1>4

\* A request is handed to TinyUSB when the one before has ended, as the host sent it,
\* and the data of the host are copied to the buffer of their own request, if TinyUSB
\* never answers with no data where data are due: the handler takes an empty packet
\* for the end of the request.
THEOREM UsbInTurn == ASSUME 0 \notin UsbInLengths PROVE UsbSpec => []UsbRequestsInTurn
  <1>1. UsbInit => UsbInv
      BY DEF UsbInit, UsbInv, UsbTypes, UsbBetween, NoRequest, UsbKinds, UsbHeaders
  <1>2. UsbInv /\ [UsbNext]_usbVars => UsbInv'
    <2> SUFFICES ASSUME UsbInv, [UsbNext]_usbVars PROVE UsbInv'
        OBVIOUS
    <2>1. CASE UsbDone \/ UNCHANGED usbVars
      <3>1. UNCHANGED <<usbOut, usbIn, waiting_for_setup, dest_ctrl_buffer, setup_packet,
                        usbEvents, usbHost, usbStack>>
          BY <2>1 DEF UsbDone, usbVars
      <3> QED
          BY <3>1 DEF UsbInv, UsbTypes, UsbBetween, UsbUntold, UsbDataIn, UsbDataSent, UsbAwaitsEnd,
                    UsbDataOut, UsbDataReceived, UsbSendsEnd, UsbRefused, SetupEvent
    <2> QED
        BY <2>1, SetupPacketInv, InPacketInv, OutPacketInv, TakeSetupInv, TakeTransferInv DEF UsbNext
  <1>3. UsbInv => UsbRequestsInTurn
    <2> SUFFICES ASSUME UsbInv PROVE UsbRequestsInTurn
        OBVIOUS
    <2>1. UsbTypes /\ (usbHost.stage = "data_out" /\ usbOut = "data" => dest_ctrl_buffer = usbHost.no)
        BY DEF UsbInv, UsbBetween, UsbUntold, UsbDataIn, UsbDataSent, UsbAwaitsEnd,
               UsbDataOut, UsbDataReceived, UsbSendsEnd, UsbRefused
    <2>2. CASE usbEvents = << >>
        BY <2>1, <2>2 DEF UsbRequestsInTurn
    <2>3. ASSUME NEW e \in UsbTransfers, usbEvents = <<e>> PROVE UsbRequestsInTurn
      <3>1. DOMAIN <<e>> = {1} /\ <<e>>[1] = e /\ Head(<<e>>) = e /\ e.ep # "setup"
          BY DEF UsbTransfers
      <3> QED
          BY <2>1, <2>3, <3>1 DEF UsbRequestsInTurn
    <2>4. CASE usbEvents = <<SetupEvent>> /\ usbStack.stage = "idle"
      <3>1. DOMAIN <<SetupEvent>> = {1} /\ <<SetupEvent>>[1] = SetupEvent /\ Head(<<SetupEvent>>) = SetupEvent
          OBVIOUS
      <3> QED
          BY <2>1, <2>4, <3>1 DEF UsbRequestsInTurn, SetupEvent
    <2>5. ASSUME NEW e \in UsbTransfers, usbEvents = <<e, SetupEvent>> PROVE UsbRequestsInTurn
      <3>1. /\ DOMAIN <<e, SetupEvent>> = {1, 2} /\ <<e, SetupEvent>>[1] = e /\ e.ep # "setup"
            /\ <<e, SetupEvent>>[2] = SetupEvent /\ Head(<<e, SetupEvent>>) = e
          BY DEF UsbTransfers
      <3> QED
          BY <2>1, <2>5, <3>1 DEF UsbRequestsInTurn, SetupEvent
    <2> QED
        BY <2>2, <2>3, <2>4, <2>5 DEF UsbInv, UsbBetween, UsbUntold, UsbDataIn, UsbDataSent, UsbAwaitsEnd,
               UsbDataOut, UsbDataReceived, UsbSendsEnd, UsbRefused
  <1> QED
      BY <1>1, <1>2, <1>3, PTL DEF UsbSpec

(***************************************************************************)
(* WiFi connection manager.                                                *)
(***************************************************************************)

\* Where a caller is: in a call and holding the lock, in a call, or between its calls.
Inside == {"begin", "tear", "tearing", "send", "joining"}
Calling == Inside \cup {"lock"}
Resting == {"top", "try", "tried", "soft", "soft_asked", "soft_started", "wait",
            "down_asked", "reset_done", "idle"}

\* What the manager and the application call for.
MgrCalls == {[op |-> "up", role |-> "sta", then |-> "tried"],
             [op |-> "ask", role |-> "ap", then |-> "soft_asked"],
             [op |-> "up", role |-> "ap", then |-> "soft_started"],
             [op |-> "ask", role |-> "sta", then |-> "down_asked"],
             [op |-> "reset", role |-> "sta", then |-> "reset_done"]}
\* What the application calls for.
AppCalls == {[op |-> "down", role |-> r, then |-> "idle"] : r \in Roles}
DriverCalls == MgrCalls \cup AppCalls \cup {NoCall}
\* The callbacks of the module and their steps.
Callbacks == [kind : {"none", "up", "fail", "down"}, role : Roles, step : 0..3, had : BOOLEAN]

\* The type invariant.
WmTypes ==
  /\ wmUp \in SUBSET Roles /\ wmDowned \in SUBSET Roles /\ wmFailed \in SUBSET Roles
  /\ wifi_lock \in Callers \cup {"free"} /\ wifi_mode \in Roles
  /\ wmAt \in [Callers -> Calling \cup Resting]
  /\ wmCall \in [Callers -> DriverCalls]
  /\ wmOk \in [Callers -> BOOLEAN]
  /\ wmAsked \in {"none", "up", "down"} \X Roles
  /\ wmCallback \in Callbacks
  /\ wmIpDown \in BOOLEAN /\ wmSilent \in BOOLEAN /\ connected_ap \in BOOLEAN
  /\ wmMode \in Roles

\* A caller is in a call, and has the lock, where its call takes it.
InCall(c) ==
  /\ wmAt[c] \in Inside <=> wifi_lock = c
  /\ wmAt[c] \in Calling => wmCall[c] \in IF c = "mgr" THEN MgrCalls ELSE AppCalls
  /\ wmAt[c] \in {"tear", "tearing"} => wmCall[c].op \in {"up", "down"}
  /\ wmAt[c] \in {"send", "joining"} => wmCall[c].op = "up" /\ wifi_mode = wmCall[c].role
  /\ wmAt[c] = "send" => wmCall[c].role \notin wmUp
  /\ wmAt[c] = "tearing" => wmCallback.kind # "up"

\* So it is of the manager and of the application.
InCalls == \A c \in Callers : InCall(c)

\* The module comes up in a role, or fails to, only while a caller waits for it.
Joining(r) ==
  /\ r \notin wmUp \cup wmFailed
  /\ \E c \in Callers : wmAt[c] = "joining" /\ wmCall[c].role = r

\* A command is answered before a callback runs, and a callback is about what was asked.
BusRight ==
  /\ wmAsked # Idle => wmCallback = Quiet
  /\ wmAsked[1] = "up" => Joining(wmAsked[2])
  /\ wmCallback.kind = "up" /\ wmCallback.step = 1 => Joining(wmCallback.role)
  /\ wmCallback.kind = "fail" => Joining(wmCallback.role) /\ ~ wmCallback.had
  /\ wmCallback.kind # "none" => wmCallback.step \in 1..3
  /\ wmCallback.step = 1 => ~ wmCallback.had
  /\ wmCallback.kind = "down" /\ wmCallback.step > 1 => wmCallback.role \notin wmUp

\* Only the driver's mode can be up, and a bit that says down is not beside it for long.
BitsRight ==
  /\ wmUp \subseteq {wifi_mode}
  /\ \A r \in wmDowned : r \in wmUp =>
        wmCallback.kind = "up" /\ wmCallback.step = 2 /\ wmCallback.role = r

\* The manager is past a connection that succeeded.
Believes == connected_ap \/ (wmAt["mgr"] = "tried" /\ wmOk["mgr"])

\* The manager has heard and is about to ask or to reset the module.
Heard ==
  \/ wmAt["mgr"] \in Calling /\ wmCall["mgr"].op \in {"ask", "reset"}
  \/ wmAt["mgr"] = "reset_done"
  \/ wmAt["mgr"] = "down_asked" /\ ~ wmOk["mgr"]

\* What the manager is about, and what it believes of the connection.
MgrRight ==
  /\ connected_ap => wmMode = "sta" /\ wmAt["mgr"] \notin {"try", "tried"}
  /\ wmAt["mgr"] \in {"try", "tried"} => wmMode = "sta"
  /\ wmAt["mgr"] \in Calling /\ wmCall["mgr"].op # "reset" =>
        \/ wmCall["mgr"].then = "tried" /\ ~ connected_ap /\ wmMode = "sta"
        \/ wmCall["mgr"].then \in {"soft_asked", "soft_started"} /\ wmMode = "ap"
        \/ wmCall["mgr"].then = "down_asked"
  /\ wmAt["mgr"] \in {"soft_asked", "soft_started"} => wmMode = "ap"
  /\ Believes => wifi_mode = "sta"
  /\ Believes => "sta" \in wmUp \/ Announced \/ wmSilent \/ Heard

\* The inductive invariant.
WmInv ==
  /\ WmTypes
  /\ InCalls /\ BusRight /\ BitsRight /\ MgrRight

\* A call that returns leaves for where its caller rests.
LEMMA Leaving ==
  ASSUME WmTypes, NEW c \in Callers, NEW ok \in BOOLEAN, Leave(c, ok), wmCall[c].then \in Resting
  PROVE  /\ wmAt' \in [Callers -> Calling \cup Resting] /\ wmCall' \in [Callers -> DriverCalls]
         /\ wmOk' \in [Callers -> BOOLEAN] /\ wifi_lock' \in Callers \cup {"free"}
  BY DEF WmTypes, Leave, WmGoto, DriverCalls

\* A call under way is one of the two callers' calls.
LEMMA CallsGoOn ==
  ASSUME WmInv, NEW c \in Callers, wmAt[c] \in Calling
  PROVE  /\ wmCall[c].then \in Resting /\ wmCall[c].role \in Roles
         /\ wmCall[c].op \in {"up", "down", "ask", "reset"} /\ Tearing(c) \in Roles
  BY
     DEF WmInv, InCalls, InCall, MgrCalls, AppCalls, Resting, Roles, Callers, Tearing,
         Other

\* A caller goes to another place of its call.
LEMMA WmGoing ==
  ASSUME WmTypes, NEW c \in Callers, NEW l \in Calling, WmGoto(c, l)
  PROVE  wmAt' \in [Callers -> Calling \cup Resting]
  BY DEF WmTypes, WmGoto

\* The steps of a callback, and the event bits they set.
LEMMA CallbackSteps ==
  ASSUME wmCallback \in Callbacks
  PROVE  /\ Quiet \in Callbacks /\ Quiet.kind = "none" /\ Quiet.step = 0 /\ Quiet.had = FALSE
         /\ NextStep /\ wmCallback.step \in {1, 2} =>
              /\ wmCallback' \in Callbacks /\ wmCallback'.step = wmCallback.step + 1
              /\ wmCallback'.kind = wmCallback.kind /\ wmCallback'.role = wmCallback.role
              /\ wmCallback'.had = wmCallback.had
         /\ \A r \in Roles : ClearUp(r) =>
              /\ wmCallback' \in Callbacks /\ wmCallback'.step = 2 /\ wmUp' = wmUp \ {r}
              /\ wmCallback'.kind = wmCallback.kind /\ wmCallback'.role = wmCallback.role
              /\ wmCallback'.had <=> r \in wmUp
         /\ \A k \in {"up", "fail", "down"}, r \in Roles : Callback(k, r) =>
              /\ wmCallback' \in Callbacks /\ wmCallback'.step = 1 /\ wmCallback'.had = FALSE
              /\ wmCallback'.kind = k /\ wmCallback'.role = r
  <1>1. Quiet \in Callbacks /\ Quiet.kind = "none" /\ Quiet.step = 0 /\ Quiet.had = FALSE
      BY DEF Quiet, Callbacks, Roles
  <1>2. ASSUME NextStep, wmCallback.step \in {1, 2}
        PROVE  /\ wmCallback' \in Callbacks /\ wmCallback'.step = wmCallback.step + 1
               /\ wmCallback'.kind = wmCallback.kind /\ wmCallback'.role = wmCallback.role
               /\ wmCallback'.had = wmCallback.had
      BY <1>2 DEF NextStep, Callbacks
  <1>3. ASSUME NEW r \in Roles, ClearUp(r)
        PROVE  /\ wmCallback' \in Callbacks /\ wmCallback'.step = 2 /\ wmUp' = wmUp \ {r}
               /\ wmCallback'.kind = wmCallback.kind /\ wmCallback'.role = wmCallback.role
               /\ wmCallback'.had <=> r \in wmUp
    <2>1. ASSUME NEW b \in BOOLEAN, wmCallback' = [wmCallback EXCEPT !.step = 2, !.had = b]
          PROVE  /\ wmCallback' \in Callbacks /\ wmCallback'.step = 2 /\ wmCallback'.had = b
                 /\ wmCallback'.kind = wmCallback.kind /\ wmCallback'.role = wmCallback.role
      <3>1. wmCallback' = [kind |-> wmCallback.kind, role |-> wmCallback.role, step |-> 2, had |-> b]
          BY <2>1 DEF Callbacks
      <3>2. /\ wmCallback.kind \in {"none", "up", "fail", "down"} /\ wmCallback.role \in Roles
            /\ 2 \in 0..3
          BY DEF Callbacks
      <3> QED
          BY <3>1, <3>2 DEF Callbacks
    <2>2. wmUp' = wmUp \ {r} /\ wmCallback' = [wmCallback EXCEPT !.step = 2, !.had = r \in wmUp]
        BY <1>3 DEF ClearUp
    <2>3. CASE r \in wmUp
      <3>1. wmCallback' = [wmCallback EXCEPT !.step = 2, !.had = TRUE]
          BY <2>2, <2>3
      <3> QED
          BY <2>1, <2>2, <2>3, <3>1
    <2>4. CASE r \notin wmUp
      <3>1. (r \in wmUp) = FALSE
          BY <2>4
      <3>2. wmCallback' = [wmCallback EXCEPT !.step = 2, !.had = FALSE]
          BY <2>2, <3>1, Zenon
      <3> QED
          BY <2>1, <2>2, <2>4, <3>2
    <2> QED
        BY <2>3, <2>4
  <1>4. ASSUME NEW k \in {"up", "fail", "down"}, NEW r \in Roles, Callback(k, r)
        PROVE  /\ wmCallback' \in Callbacks /\ wmCallback'.step = 1 /\ wmCallback'.had = FALSE
               /\ wmCallback'.kind = k /\ wmCallback'.role = r
      BY <1>4 DEF Callback, Callbacks
  <1> QED
      BY <1>1, <1>2, <1>3, <1>4

\* A caller takes the lock.
LEMMA WIFI_GetLockInv == ASSUME WmInv, NEW c \in Callers, WIFI_GetLock(c) PROVE WmInv'
  <1>1. WmTypes'
      BY
         DEF WmInv, WIFI_GetLock, WmGoto, wmDriver, wmModule, wmManager, WmTypes,
             Calling, Inside
  <1>2. InCalls'
      BY
         DEF WmInv, WIFI_GetLock, WmGoto, WmTypes, InCalls, InCall, Callers, Calling,
             Inside
  <1>3. BusRight'
      BY DEF WmInv, WIFI_GetLock, WmGoto, wmDriver, wmModule, BusRight, Joining
  <1>4. BitsRight'
      BY DEF WmInv, WIFI_GetLock, wmDriver, wmModule, BitsRight
  <1>5. MgrRight'
      BY
         DEF WmInv, WIFI_GetLock, WmGoto, wmDriver, wmModule, wmManager, MgrRight,
             Believes, Heard, Announced, Calling, Inside
  <1> QED
      BY <1>1, <1>2, <1>3, <1>4, <1>5 DEF WmInv

\* A caller gives up waiting for the lock.
LEMMA WIFI_GetLock_timeoutInv ==
  ASSUME WmInv, NEW c \in Callers, WIFI_GetLock_timeout(c)
  PROVE  WmInv'
  <1>1. WmTypes'
      BY
         DEF WmInv, WIFI_GetLock_timeout, WmGoto, wmDriver, wmModule, wmManager,
             WmTypes, Resting, DriverCalls, MgrCalls, AppCalls, NoCall
  <1>2. InCalls'
      BY
         DEF WmInv, WIFI_GetLock_timeout, WmGoto, wmDriver, wmModule, WmTypes, InCalls,
             InCall, Calling, Inside, MgrCalls, AppCalls
  <1>3. BusRight'
      BY DEF WmInv, WIFI_GetLock_timeout, WmGoto, wmDriver, wmModule, BusRight, Joining
  <1>4. BitsRight'
      BY DEF WmInv, WIFI_GetLock_timeout, wmDriver, wmModule, BitsRight
  <1>5. MgrRight'
      BY
         DEF WmInv, WIFI_GetLock_timeout, WmGoto, wmDriver, wmModule, wmManager,
             WmTypes, MgrRight, Believes, Heard, Announced, Calling, Inside,
             DriverCalls, MgrCalls, AppCalls, NoCall
  <1> QED
      BY <1>1, <1>2, <1>3, <1>4, <1>5 DEF WmInv

\* A call looks at the mode and at what is up, and decides.
LEMMA WmBeginInv == ASSUME WmInv, NEW c \in Callers, WmBegin(c) PROVE WmInv'
  <1>1. WmTypes'
    <2>1. /\ wmCall[c].then \in Resting /\ wmCall[c].role \in Roles /\ Tearing(c) \in Roles
        BY CallsGoOn DEF WmInv, WmBegin, Calling, Inside
    <2>2. \A ok \in BOOLEAN : Leave(c, ok) => wmAt' \in [Callers -> Calling \cup Resting]
             /\ wmCall' \in [Callers -> DriverCalls] /\ wmOk' \in [Callers -> BOOLEAN]
             /\ wifi_lock' \in Callers \cup {"free"}
        BY <2>1, Leaving DEF WmInv
    <2>3. \A l \in Calling : WmGoto(c, l) => wmAt' \in [Callers -> Calling \cup Resting]
        BY WmGoing DEF WmInv
    <2>4. /\ {"begin", "tear", "tearing", "send", "joining"} \subseteq Calling
          /\ \A r \in Roles : <<"up", r>> \in {"none", "up", "down"} \X Roles
                            /\ <<"down", r>> \in {"none", "up", "down"} \X Roles
          /\ Idle \in {"none", "up", "down"} \X Roles
        BY DEF Calling, Inside, Idle, Roles
    <2>5. /\ wmAt' \in [Callers -> Calling \cup Resting] /\ wmCall' \in [Callers -> DriverCalls]
          /\ wmOk' \in [Callers -> BOOLEAN] /\ wifi_lock' \in Callers \cup {"free"}
        BY <2>2, <2>3, <2>4 DEF WmInv, WmTypes, WmBegin
    <2>6. /\ wifi_mode' \in Roles /\ wmAsked' \in {"none", "up", "down"} \X Roles
          /\ wmUp' \in SUBSET Roles /\ wmDowned' \in SUBSET Roles /\ wmFailed' \in SUBSET Roles
          /\ wmSilent' \in BOOLEAN /\ wmCallback' = wmCallback
        BY <2>1, <2>4 DEF WmInv, WmTypes, WmBegin, wmModule
    <2> QED
        BY <2>5, <2>6 DEF WmInv, WmTypes, WmBegin, wmManager
  <1>2. InCalls'
      BY
         DEF WmInv, WmBegin, Leave, WmGoto, WmTypes, InCalls, InCall, Callers, Calling,
             Inside, MgrCalls, AppCalls
  <1>3. BusRight'
      BY DEF WmInv, WmBegin, Leave, WmGoto, wmModule, WmTypes, BusRight, Joining
  <1>4. BitsRight'
      BY
         DEF WmInv, WmBegin, Leave, wmModule, WmTypes, BusRight, BitsRight, Roles,
             DriverCalls, MgrCalls, AppCalls, NoCall, Other
  <1>5. MgrRight'
    <2>1. CASE c = "app"
        BY <2>1
           DEF WmInv, WmBegin, Leave, WmGoto, wmModule, wmManager, WmTypes, MgrRight,
               InCalls, Believes, Heard, Announced, InCall, Callers, Calling, Inside,
               AppCalls
    <2>2. CASE c = "mgr"
      <3>1. /\ connected_ap' => wmMode' = "sta" /\ wmAt'["mgr"] \notin {"try", "tried"}
            /\ wmAt'["mgr"] \in {"try", "tried"} => wmMode' = "sta"
          BY <2>2
             DEF WmInv, WmBegin, Leave, WmGoto, wmManager, WmTypes, MgrRight, Resting
      <3>2. wmAt'["mgr"] \in Calling /\ wmCall'["mgr"].op # "reset" =>
              \/ wmCall'["mgr"].then = "tried" /\ ~ connected_ap' /\ wmMode' = "sta"
              \/ wmCall'["mgr"].then \in {"soft_asked", "soft_started"} /\ wmMode' = "ap"
              \/ wmCall'["mgr"].then = "down_asked"
          BY <2>2
             DEF WmInv, WmBegin, Leave, WmGoto, wmManager, WmTypes, MgrRight, Calling,
                 Inside
      <3>3. wmAt'["mgr"] \in {"soft_asked", "soft_started"} => wmMode' = "ap"
          BY <2>2
             DEF WmInv, WmBegin, Leave, WmGoto, wmManager, WmTypes, MgrRight, Resting
      <3>4. Believes' => wifi_mode' = "sta"
          BY <2>2
             DEF WmInv, WmBegin, Leave, WmGoto, wmManager, WmTypes, MgrRight, InCalls,
                 Believes, InCall, Resting, MgrCalls
      <3>5. Believes' => "sta" \in wmUp' \/ Announced' \/ wmSilent' \/ Heard'
        <4>1. CASE wmCall[c].op # "ask"
            BY <2>2, <4>1
               DEF WmInv, WmBegin, Leave, WmGoto, wmManager, WmTypes, MgrRight, InCalls,
                   Believes, InCall, Resting, MgrCalls
        <4>2. CASE wmCall[c].op = "ask"
          <5>1. /\ wmAt'["mgr"] = wmCall["mgr"].then /\ wmCall["mgr"].then # "tried"
                /\ wmOk'["mgr"] = (wmUp # {}) /\ wmUp' = wmUp /\ wifi_mode' = wifi_mode
                /\ connected_ap' = connected_ap
              BY <2>2, <4>2
                 DEF WmInv, WmBegin, Leave, WmGoto, wmManager, WmTypes, InCalls, InCall,
                     Resting, MgrCalls
          <5>2. connected_ap => wmAt'["mgr"] = "down_asked" /\ wifi_mode = "sta"
              BY <2>2, <4>2, <5>1
                 DEF WmInv, WmBegin, WmTypes, MgrRight, Believes, Resting
          <5>3. connected_ap /\ wmUp # {} => "sta" \in wmUp
              BY <5>2 DEF WmInv, BitsRight
          <5> QED
              BY <5>1, <5>2, <5>3 DEF Believes, Heard
        <4> QED
            BY <4>1, <4>2
      <3> QED
          BY <3>1, <3>2, <3>3, <3>4, <3>5 DEF MgrRight
    <2> QED
        BY <2>1, <2>2 DEF Callers
  <1> QED
      BY <1>1, <1>2, <1>3, <1>4, <1>5 DEF WmInv

\* The module is reset.
LEMMA ResetCallInv == ASSUME WmInv, NEW c \in Callers, ResetCall(c) PROVE WmInv'
  <1>1. WmTypes'
      BY
         DEF WmInv, ResetCall, WIFI_Reset, Leave, WmGoto, wmManager, WmTypes, Resting,
             Callbacks, DriverCalls, MgrCalls, AppCalls, NoCall, Quiet, Idle
  <1>2. InCalls'
      BY
         DEF WmInv, ResetCall, Leave, WmGoto, WmTypes, InCalls, InCall, Callers,
             Calling, Inside, MgrCalls, AppCalls
  <1>3. BusRight'
      BY DEF ResetCall, WIFI_Reset, BusRight, Quiet, Idle
  <1>4. BitsRight'
      BY DEF ResetCall, WIFI_Reset, BitsRight
  <1>5. MgrRight'
      BY
         DEF WmInv, ResetCall, WIFI_Reset, Leave, WmGoto, wmManager, WmTypes, MgrRight,
             Believes, Heard, Announced, Callers, Calling, Inside, DriverCalls,
             MgrCalls, AppCalls, NoCall
  <1> QED
      BY <1>1, <1>2, <1>3, <1>4, <1>5 DEF WmInv

\* The module is asked to leave the network, or to stop the soft AP.
LEMMA SendDownInv == ASSUME WmInv, NEW c \in Callers, SendDown(c) PROVE WmInv'
  <1>1. WmTypes'
    <2>1. /\ wmCall[c].then \in Resting /\ wmCall[c].role \in Roles /\ Tearing(c) \in Roles
        BY CallsGoOn DEF WmInv, SendDown, Calling, Inside
    <2>2. \A ok \in BOOLEAN : Leave(c, ok) => wmAt' \in [Callers -> Calling \cup Resting]
             /\ wmCall' \in [Callers -> DriverCalls] /\ wmOk' \in [Callers -> BOOLEAN]
             /\ wifi_lock' \in Callers \cup {"free"}
        BY <2>1, Leaving DEF WmInv
    <2>3. \A l \in Calling : WmGoto(c, l) => wmAt' \in [Callers -> Calling \cup Resting]
        BY WmGoing DEF WmInv
    <2>4. /\ {"begin", "tear", "tearing", "send", "joining"} \subseteq Calling
          /\ \A r \in Roles : <<"up", r>> \in {"none", "up", "down"} \X Roles
                            /\ <<"down", r>> \in {"none", "up", "down"} \X Roles
          /\ Idle \in {"none", "up", "down"} \X Roles
        BY DEF Calling, Inside, Idle, Roles
    <2>5. /\ wmAt' \in [Callers -> Calling \cup Resting] /\ wmCall' \in [Callers -> DriverCalls]
          /\ wmOk' \in [Callers -> BOOLEAN] /\ wifi_lock' \in Callers \cup {"free"}
        BY <2>2, <2>3, <2>4 DEF WmInv, WmTypes, SendDown
    <2>6. /\ wifi_mode' \in Roles /\ wmAsked' \in {"none", "up", "down"} \X Roles
          /\ wmUp' \in SUBSET Roles /\ wmDowned' \in SUBSET Roles /\ wmFailed' \in SUBSET Roles
          /\ wmSilent' \in BOOLEAN /\ wmCallback' = wmCallback
        BY <2>1, <2>4
           DEF WmInv, WmTypes, SendDown, WIFI_Reset, Roles, wmDriver, wmModule
    <2> QED
        BY <2>5, <2>6 DEF WmInv, WmTypes, SendDown, wmManager
  <1>2. InCalls'
      BY
         DEF WmInv, SendDown, Leave, WmGoto, WmTypes, InCalls, InCall, Callers, Calling,
             Inside, MgrCalls, AppCalls, Quiet
  <1>3. BusRight'
      BY
         DEF WmInv, SendDown, WIFI_Reset, Leave, WmGoto, wmDriver, wmModule, WmTypes,
             BusRight, Joining, Idle
  <1>4. BitsRight'
    <2>1. CASE wmAsked' = <<"down", Tearing(c)>> /\ WmGoto(c, "tearing")
                /\ UNCHANGED <<wmDriver, wmLink, wmCallback, wmSilent, wmOk, wmCall, wifi_lock>>
        BY <2>1 DEF WmInv, WIFI_Reset, wmDriver, wmModule, BitsRight
    <2>2. CASE WIFI_Reset(c) /\ Leave(c, FALSE)
        BY <2>2 DEF WmInv, WIFI_Reset, wmDriver, wmModule, BitsRight
    <2>3. CASE Leave(c, FALSE) /\ UNCHANGED <<wmDriver, wmModule, wmSilent>>
        BY <2>3 DEF WmInv, WIFI_Reset, wmDriver, wmModule, BitsRight
    <2> QED
        BY <2>1, <2>2, <2>3 DEF SendDown
  <1>5. MgrRight'
    <2>1. CASE c = "app"
      <3>1. CASE wmAsked' = <<"down", Tearing(c)>> /\ WmGoto(c, "tearing")
                /\ UNCHANGED <<wmDriver, wmLink, wmCallback, wmSilent, wmOk, wmCall, wifi_lock>>
          BY <2>1, <3>1
             DEF WmInv, SendDown, WmGoto, wmDriver, wmManager, MgrRight, Believes,
                 Heard, Announced
      <3>2. CASE WIFI_Reset(c) /\ Leave(c, FALSE)
          BY <2>1, <3>2
             DEF WmInv, SendDown, Leave, WIFI_Reset, WmGoto, wmManager, WmTypes,
                 MgrRight, Believes, Heard, Announced, Callers
      <3>3. CASE Leave(c, FALSE) /\ UNCHANGED <<wmDriver, wmModule, wmSilent>>
          BY <2>1, <3>3
             DEF WmInv, SendDown, Leave, WmGoto, wmDriver, wmModule, wmManager,
                 MgrRight, Believes, Heard, Announced
      <3> QED
          BY <3>1, <3>2, <3>3 DEF SendDown
    <2>2. CASE c = "mgr"
      <3>1. /\ connected_ap' => wmMode' = "sta" /\ wmAt'["mgr"] \notin {"try", "tried"}
            /\ wmAt'["mgr"] \in {"try", "tried"} => wmMode' = "sta"
          BY <2>2
             DEF WmInv, SendDown, Leave, WmGoto, wmManager, WmTypes, MgrRight, InCalls,
                 InCall, Resting
      <3>2. wmAt'["mgr"] \in Calling /\ wmCall'["mgr"].op # "reset" =>
              \/ wmCall'["mgr"].then = "tried" /\ ~ connected_ap' /\ wmMode' = "sta"
              \/ wmCall'["mgr"].then \in {"soft_asked", "soft_started"} /\ wmMode' = "ap"
              \/ wmCall'["mgr"].then = "down_asked"
          BY <2>2
             DEF WmInv, SendDown, Leave, WmGoto, wmManager, WmTypes, MgrRight, InCalls,
                 InCall, Calling, Inside
      <3>3. wmAt'["mgr"] \in {"soft_asked", "soft_started"} => wmMode' = "ap"
          BY <2>2
             DEF WmInv, SendDown, Leave, WmGoto, wmManager, WmTypes, MgrRight, InCalls,
                 InCall, Resting
      <3>4. Believes' => wifi_mode' = "sta"
          BY <2>2
             DEF WmInv, SendDown, Leave, WIFI_Reset, WmGoto, wmDriver, wmManager,
                 WmTypes, MgrRight, Believes
      <3>5. Believes' => "sta" \in wmUp' \/ Announced' \/ wmSilent' \/ Heard'
          BY <2>2
             DEF WmInv, SendDown, Leave, WmGoto, wmDriver, wmManager, WmTypes, MgrRight,
                 InCalls, Believes, Heard, Announced, InCall, Resting
      <3> QED
          BY <3>1, <3>2, <3>3, <3>4, <3>5 DEF MgrRight
    <2> QED
        BY <2>1, <2>2 DEF Callers
  <1> QED
      BY <1>1, <1>2, <1>3, <1>4, <1>5 DEF WmInv

\* The caller finds the bit that says that the link is down.
LEMMA TornInv == ASSUME WmInv, NEW c \in Callers, Torn(c) PROVE WmInv'
  <1>1. WmTypes'
    <2>1. /\ wmCall[c].then \in Resting /\ wmCall[c].role \in Roles /\ Tearing(c) \in Roles
        BY CallsGoOn DEF WmInv, Torn, Calling, Inside
    <2>2. \A ok \in BOOLEAN : Leave(c, ok) => wmAt' \in [Callers -> Calling \cup Resting]
             /\ wmCall' \in [Callers -> DriverCalls] /\ wmOk' \in [Callers -> BOOLEAN]
             /\ wifi_lock' \in Callers \cup {"free"}
        BY <2>1, Leaving DEF WmInv
    <2>3. \A l \in Calling : WmGoto(c, l) => wmAt' \in [Callers -> Calling \cup Resting]
        BY WmGoing DEF WmInv
    <2>4. /\ {"begin", "tear", "tearing", "send", "joining"} \subseteq Calling
          /\ \A r \in Roles : <<"up", r>> \in {"none", "up", "down"} \X Roles
                            /\ <<"down", r>> \in {"none", "up", "down"} \X Roles
          /\ Idle \in {"none", "up", "down"} \X Roles
        BY DEF Calling, Inside, Idle, Roles
    <2>5. /\ wmAt' \in [Callers -> Calling \cup Resting] /\ wmCall' \in [Callers -> DriverCalls]
          /\ wmOk' \in [Callers -> BOOLEAN] /\ wifi_lock' \in Callers \cup {"free"}
        BY <2>2, <2>3, <2>4 DEF WmInv, WmTypes, Torn
    <2>6. /\ wifi_mode' \in Roles /\ wmAsked' \in {"none", "up", "down"} \X Roles
          /\ wmUp' \in SUBSET Roles /\ wmDowned' \in SUBSET Roles /\ wmFailed' \in SUBSET Roles
          /\ wmSilent' \in BOOLEAN /\ wmCallback' = wmCallback
        BY <2>1, <2>4 DEF WmInv, WmTypes, Torn, wmModule
    <2> QED
        BY <2>5, <2>6 DEF WmInv, WmTypes, Torn, wmManager
  <1>2. InCalls'
      BY
         DEF WmInv, Torn, Leave, Tearing, WmGoto, WmTypes, BitsRight, InCalls, InCall,
             Callers, Calling, Inside, MgrCalls, AppCalls
  <1>3. BusRight'
      BY DEF WmInv, Torn, Leave, WmGoto, wmModule, WmTypes, BusRight, Joining
  <1>4. BitsRight'
    <2>1. /\ Tearing(c) \in Roles /\ Tearing(c) \notin wmUp /\ wmCall[c].role \in Roles
          /\ wmCallback.kind # "up" /\ UNCHANGED <<wmUp, wmCallback>>
          /\ wmCall[c].op \in {"up", "down"}
        BY CallsGoOn
           DEF WmInv, BitsRight, InCalls, InCall, Torn, Calling, Inside, wmModule
    <2>2. wifi_mode' = wifi_mode \/ (wifi_mode # wmCall[c].role => Tearing(c) = wifi_mode)
        BY <2>1 DEF WmInv, WmTypes, Torn, Tearing, Other, Roles
    <2>3. wifi_mode' # wifi_mode => wmUp = {}
        BY <2>1, <2>2 DEF WmInv, WmTypes, BitsRight, Torn
    <2> QED
        BY <2>1, <2>3 DEF WmInv, BitsRight, Torn
  <1>5. MgrRight'
    <2>1. wifi_mode = "sta" => wifi_mode' = "sta" \/ (c = "mgr" /\ wmMode = "ap")
        BY
           DEF WmInv, Torn, Leave, WmTypes, InCalls, InCall, MgrRight, Resting,
               MgrCalls, AppCalls
    <2>2. CASE c = "app"
        BY <2>1, <2>2
           DEF WmInv, Torn, Leave, WmGoto, wmModule, wmManager, WmTypes, MgrRight,
               Believes, Heard, Announced, Callers
    <2>3. CASE c = "mgr"
      <3>1. /\ connected_ap' => wmMode' = "sta" /\ wmAt'["mgr"] \notin {"try", "tried"}
            /\ wmAt'["mgr"] \in {"try", "tried"} => wmMode' = "sta"
          BY <2>1, <2>3
             DEF WmInv, Torn, Leave, WmGoto, wmManager, WmTypes, MgrRight, Resting
      <3>2. wmAt'["mgr"] \in Calling /\ wmCall'["mgr"].op # "reset" =>
              \/ wmCall'["mgr"].then = "tried" /\ ~ connected_ap' /\ wmMode' = "sta"
              \/ wmCall'["mgr"].then \in {"soft_asked", "soft_started"} /\ wmMode' = "ap"
              \/ wmCall'["mgr"].then = "down_asked"
          BY <2>1, <2>3
             DEF WmInv, Torn, Leave, WmGoto, wmManager, WmTypes, MgrRight, Calling,
                 Inside
      <3>3. wmAt'["mgr"] \in {"soft_asked", "soft_started"} => wmMode' = "ap"
          BY <2>1, <2>3
             DEF WmInv, Torn, Leave, WmGoto, wmManager, WmTypes, MgrRight, Resting
      <3>4. Believes' => wifi_mode' = "sta"
          BY <2>1, <2>3
             DEF WmInv, Torn, Leave, WmGoto, wmManager, WmTypes, MgrRight, InCalls,
                 Believes, InCall, Resting, MgrCalls
      <3>5. Believes' => "sta" \in wmUp' \/ Announced' \/ wmSilent' \/ Heard'
          BY <2>1, <2>3
             DEF WmInv, Torn, Leave, WmGoto, wmManager, WmTypes, MgrRight, InCalls,
                 Believes, InCall, Resting, MgrCalls
      <3> QED
          BY <3>1, <3>2, <3>3, <3>4, <3>5 DEF MgrRight
    <2> QED
        BY <2>2, <2>3 DEF Callers
  <1> QED
      BY <1>1, <1>2, <1>3, <1>4, <1>5 DEF WmInv

\* The caller has waited for that bit in vain.
LEMMA TearTimeoutInv == ASSUME WmInv, NEW c \in Callers, TearTimeout(c) PROVE WmInv'
  <1>1. WmTypes'
      BY
         DEF WmInv, TearTimeout, WIFI_Reset, Leave, WmGoto, wmManager, WmTypes, Resting,
             Callbacks, DriverCalls, MgrCalls, AppCalls, NoCall, Quiet, Idle
  <1>2. InCalls'
      BY
         DEF WmInv, TearTimeout, Leave, WmGoto, WmTypes, InCalls, InCall, Callers,
             Calling, Inside, MgrCalls, AppCalls
  <1>3. BusRight'
      BY DEF TearTimeout, WIFI_Reset, BusRight, Quiet, Idle
  <1>4. BitsRight'
      BY DEF TearTimeout, WIFI_Reset, BitsRight
  <1>5. MgrRight'
      BY
         DEF WmInv, TearTimeout, WIFI_Reset, Leave, WmGoto, wmManager, WmTypes,
             MgrRight, Believes, Heard, Announced, Callers, Calling, Inside,
             DriverCalls, MgrCalls, AppCalls, NoCall
  <1> QED
      BY <1>1, <1>2, <1>3, <1>4, <1>5 DEF WmInv

\* The module is asked to join the network, or to start the soft AP.
LEMMA SendUpInv == ASSUME WmInv, NEW c \in Callers, SendUp(c) PROVE WmInv'
  <1>1. WmTypes'
    <2>1. /\ wmCall[c].then \in Resting /\ wmCall[c].role \in Roles /\ Tearing(c) \in Roles
        BY CallsGoOn DEF WmInv, SendUp, Calling, Inside
    <2>2. \A ok \in BOOLEAN : Leave(c, ok) => wmAt' \in [Callers -> Calling \cup Resting]
             /\ wmCall' \in [Callers -> DriverCalls] /\ wmOk' \in [Callers -> BOOLEAN]
             /\ wifi_lock' \in Callers \cup {"free"}
        BY <2>1, Leaving DEF WmInv
    <2>3. \A l \in Calling : WmGoto(c, l) => wmAt' \in [Callers -> Calling \cup Resting]
        BY WmGoing DEF WmInv
    <2>4. /\ {"begin", "tear", "tearing", "send", "joining"} \subseteq Calling
          /\ \A r \in Roles : <<"up", r>> \in {"none", "up", "down"} \X Roles
                            /\ <<"down", r>> \in {"none", "up", "down"} \X Roles
          /\ Idle \in {"none", "up", "down"} \X Roles
        BY DEF Calling, Inside, Idle, Roles
    <2>5. /\ wmAt' \in [Callers -> Calling \cup Resting] /\ wmCall' \in [Callers -> DriverCalls]
          /\ wmOk' \in [Callers -> BOOLEAN] /\ wifi_lock' \in Callers \cup {"free"}
        BY <2>2, <2>3, <2>4 DEF WmInv, WmTypes, SendUp
    <2>6. /\ wifi_mode' \in Roles /\ wmAsked' \in {"none", "up", "down"} \X Roles
          /\ wmUp' \in SUBSET Roles /\ wmDowned' \in SUBSET Roles /\ wmFailed' \in SUBSET Roles
          /\ wmSilent' \in BOOLEAN /\ wmCallback' = wmCallback
        BY <2>1, <2>4 DEF WmInv, WmTypes, SendUp, WIFI_Reset, Roles, wmDriver, wmModule
    <2> QED
        BY <2>5, <2>6 DEF WmInv, WmTypes, SendUp, wmManager
  <1>2. InCalls'
      BY
         DEF WmInv, SendUp, Leave, WmGoto, WmTypes, InCalls, InCall, Callers, Calling,
             Inside, MgrCalls, AppCalls
  <1>3. BusRight'
    <2>1. CASE wmFailed' = wmFailed \ {wmCall[c].role} /\ wmAsked' = <<"up", wmCall[c].role>>
                /\ WmGoto(c, "joining")
                /\ UNCHANGED <<wmUp, wmDowned, wifi_mode, wmLink, wmCallback, wmSilent,
                               wmOk, wmCall, wifi_lock>>
        BY <2>1 DEF WmInv, SendUp, WmGoto, WmTypes, InCall, Joining, BusRight, InCalls
    <2>2. CASE WIFI_Reset(c) /\ Leave(c, FALSE)
        BY <2>2 DEF WIFI_Reset, Quiet, Idle, BusRight
    <2>3. CASE wmFailed' = wmFailed \ {wmCall[c].role} /\ Leave(c, FALSE)
                /\ UNCHANGED <<wmUp, wmDowned, wifi_mode, wmModule, wmSilent>>
        BY <2>3 DEF WmInv, SendUp, Leave, WmGoto, wmModule, Joining, BusRight
    <2> QED
        BY <2>1, <2>2, <2>3 DEF SendUp
  <1>4. BitsRight'
      BY DEF WmInv, SendUp, WIFI_Reset, wmModule, BitsRight
  <1>5. MgrRight'
      BY
         DEF WmInv, SendUp, WIFI_Reset, Leave, WmGoto, wmModule, wmManager, WmTypes,
             MgrRight, Believes, Heard, Announced, Callers, Calling, Inside,
             DriverCalls, MgrCalls, AppCalls, NoCall
  <1> QED
      BY <1>1, <1>2, <1>3, <1>4, <1>5 DEF WmInv

\* The caller finds that the link is up, or that it failed.
LEMMA JoinedInv == ASSUME WmInv, NEW c \in Callers, Joined(c) PROVE WmInv'
  <1>1. WmTypes'
      BY
         DEF WmInv, Joined, Leave, WmGoto, wmDriver, wmModule, wmManager, WmTypes,
             Resting, DriverCalls, MgrCalls, AppCalls, NoCall
  <1>2. InCalls'
      BY
         DEF WmInv, Joined, Leave, WmGoto, WmTypes, InCalls, InCall, Callers, Calling,
             Inside, MgrCalls, AppCalls
  <1>3. BusRight'
      BY DEF WmInv, Joined, Leave, WmGoto, wmDriver, wmModule, BusRight, Joining
  <1>4. BitsRight'
      BY DEF WmInv, Joined, wmDriver, wmModule, BitsRight
  <1>5. MgrRight'
      BY
         DEF WmInv, Joined, Leave, WmGoto, wmDriver, wmModule, wmManager, WmTypes,
             MgrRight, Believes, Heard, Announced, BitsRight, Calling, Inside,
             DriverCalls, MgrCalls, AppCalls, NoCall, Quiet
  <1> QED
      BY <1>1, <1>2, <1>3, <1>4, <1>5 DEF WmInv

\* The caller has waited for either in vain.
LEMMA JoinTimeoutInv == ASSUME WmInv, NEW c \in Callers, JoinTimeout(c) PROVE WmInv'
  <1>1. WmTypes'
      BY
         DEF WmInv, JoinTimeout, WIFI_Reset, Leave, WmGoto, wmManager, WmTypes, Resting,
             Callbacks, DriverCalls, MgrCalls, AppCalls, NoCall, Quiet, Idle
  <1>2. InCalls'
      BY
         DEF WmInv, JoinTimeout, Leave, WmGoto, WmTypes, InCalls, InCall, Callers,
             Calling, Inside, MgrCalls, AppCalls
  <1>3. BusRight'
      BY DEF JoinTimeout, WIFI_Reset, BusRight, Quiet, Idle
  <1>4. BitsRight'
      BY DEF JoinTimeout, WIFI_Reset, BitsRight
  <1>5. MgrRight'
      BY
         DEF WmInv, JoinTimeout, WIFI_Reset, Leave, WmGoto, wmManager, WmTypes,
             MgrRight, Believes, Heard, Announced, Callers, Calling, Inside,
             DriverCalls, MgrCalls, AppCalls, NoCall
  <1> QED
      BY <1>1, <1>2, <1>3, <1>4, <1>5 DEF WmInv

\* A callback that follows on from the module's answer.
LEMMA AnswerInv == ASSUME WmInv, Answer PROVE WmInv'
  <1>1. /\ wmCallback = Quiet /\ Quiet.kind = "none" /\ wmAsked' = Idle /\ Idle[1] = "none"
        /\ wmAsked \in {"none", "up", "down"} \X Roles /\ wmAsked[2] \in Roles
        /\ Idle \in {"none", "up", "down"} \X Roles
      BY CallbackSteps DEF WmInv, WmTypes, Answer, Idle, Roles
  <1>2. /\ wmCallback' \in Callbacks /\ wmCallback'.step = 1 /\ wmCallback'.had = FALSE
        /\ wmCallback'.role = wmAsked[2] /\ wmCallback'.kind \in {"up", "fail", "down"}
        /\ wmCallback'.kind \in {"up", "fail"} => wmAsked[1] = "up"
        /\ wmCallback'.kind = "down" => wmAsked[1] = "down"
      BY <1>1, CallbackSteps DEF WmInv, WmTypes, Answer
  <1>3. UNCHANGED <<wmUp, wmDowned, wmFailed, wifi_mode, wmMode, connected_ap, wifi_lock, wmAt,
                    wmCall, wmOk, wmIpDown, wmNotified, wmSilent>>
      BY DEF Answer, wmDriver, wmManager
  <1>4. WmTypes'
      BY <1>1, <1>2, <1>3 DEF WmInv, WmTypes
  <1>5. InCalls'
      BY <1>1, <1>2, <1>3 DEF WmInv, BusRight, Joining, InCalls, InCall, Inside
  <1>6. BusRight'
      BY <1>1, <1>2, <1>3 DEF WmInv, BusRight, Joining
  <1>7. BitsRight'
      BY <1>1, <1>2, <1>3 DEF WmInv, BitsRight
  <1>8. MgrRight'
      BY <1>1, <1>2, <1>3 DEF WmInv, MgrRight, Believes, Heard, Announced
  <1> QED
      BY <1>4, <1>5, <1>6, <1>7, <1>8 DEF WmInv

\* What the callbacks leave alone.
BusTaskOnly == UNCHANGED <<wifi_mode, wmLink, wmAsked, wmManager, wmBounds, wifi_lock, wmAt,
                           wmCall, wmOk, wmNotified, wmSilent>>

\* The callback of a link that has come up.
LEMMA UpCallbackInv ==
  ASSUME WmInv, NEW r \in Roles, UpCallback(r), BusTaskOnly
  PROVE  WmInv'
  <1>1. /\ UNCHANGED <<wifi_mode, wmAsked, wmMode, connected_ap, wifi_lock, wmAt, wmCall, wmOk,
                       wmNotified, wmSilent, wmFailed, wmIpDown>>
        /\ wmCallback \in Callbacks /\ wmCallback.step \in {1, 2}
        /\ wmCallback.kind = "up" /\ wmCallback.role = r /\ wmAsked = Idle /\ Idle[1] = "none"
      BY DEF WmInv, WmTypes, BusRight, UpCallback, BusTaskOnly, wmManager, Quiet, Idle
  <1>2. CASE wmCallback.step = 1
    <2>1. /\ wmUp' = wmUp \cup {r} /\ wmDowned' = wmDowned /\ wmCallback' \in Callbacks
          /\ wmCallback'.step = 2 /\ wmCallback'.kind = "up" /\ wmCallback'.role = r
          /\ wmCallback'.had = wmCallback.had
        BY <1>1, <1>2, CallbackSteps DEF UpCallback
    <2>2. PICK c \in Callers : wmAt[c] = "joining" /\ wmCall[c].role = r /\ r \notin wmUp
        BY <1>1, <1>2 DEF WmInv, BusRight, Joining
    <2>3. r = wifi_mode /\ wifi_lock = c
        BY <2>2 DEF WmInv, InCalls, InCall, Inside
    <2>4. WmTypes'
        BY <1>1, <2>1 DEF WmInv, WmTypes, Roles
    <2>5. InCalls'
        BY <1>1, <2>1, <2>2, <2>3 DEF WmInv, InCalls, InCall, Inside
    <2>6. BusRight'
        BY <1>1, <2>1 DEF WmInv, BusRight, Joining
    <2>7. BitsRight'
        BY <1>1, <1>2, <2>1, <2>3 DEF WmInv, BitsRight
    <2>8. MgrRight'
        BY <1>1, <2>1 DEF WmInv, MgrRight, Believes, Heard, Announced
    <2> QED
        BY <2>4, <2>5, <2>6, <2>7, <2>8 DEF WmInv
  <1>3. CASE wmCallback.step = 2
    <2>1. /\ wmUp' = wmUp /\ wmDowned' = wmDowned \ {r} /\ wmCallback' = Quiet
          /\ Quiet \in Callbacks /\ Quiet.kind = "none" /\ Quiet.step = 0 /\ Quiet.had = FALSE
      <3>1. Quiet \in Callbacks /\ Quiet.kind = "none" /\ Quiet.step = 0 /\ Quiet.had = FALSE
          BY <1>1, CallbackSteps
      <3> QED
          BY <1>1, <1>3, <3>1 DEF UpCallback
    <2>2. WmTypes'
        BY <1>1, <2>1 DEF WmInv, WmTypes, Roles
    <2>3. InCalls' /\ BusRight' /\ BitsRight'
        BY <1>1, <2>1 DEF WmInv, InCalls, InCall, BusRight, BitsRight
    <2>4. MgrRight'
        BY <1>1, <2>1 DEF WmInv, MgrRight, Believes, Heard, Announced
    <2> QED
        BY <2>2, <2>3, <2>4 DEF WmInv
  <1> QED
      BY <1>1, <1>2, <1>3

\* The callback of a link that could not come up.
LEMMA FailCallbackInv ==
  ASSUME WmInv, NEW r \in Roles, FailCallback(r), BusTaskOnly
  PROVE  WmInv'
  <1>1. /\ UNCHANGED <<wifi_mode, wmAsked, wmMode, connected_ap, wifi_lock, wmAt, wmCall, wmOk,
                       wmNotified, wmSilent, wmDowned>>
        /\ wmCallback \in Callbacks /\ wmCallback.step \in {1, 2, 3} /\ wmCallback.had = FALSE
        /\ wmCallback.kind = "fail" /\ wmCallback.role = r /\ wmAsked = Idle /\ Idle[1] = "none"
        /\ Joining(r) /\ r \notin wmUp
      BY
         DEF WmInv, WmTypes, BusRight, FailCallback, BusTaskOnly, Joining, wmManager,
             Quiet, Idle
  <1>2. CASE wmCallback.step \in {1, 2}
    <2>1. /\ wmUp' = wmUp /\ wmFailed' = wmFailed /\ wmIpDown' = wmIpDown /\ wmCallback' \in Callbacks
          /\ wmCallback'.step = wmCallback.step + 1 /\ wmCallback'.kind = "fail"
          /\ wmCallback'.role = r /\ wmCallback'.had = FALSE
      <3>1. /\ wmUp \ {r} = wmUp /\ wmCallback'.had \in BOOLEAN => (wmCallback'.had = FALSE <=> ~ wmCallback'.had)
            /\ wmIpDown \in BOOLEAN
          BY <1>1 DEF WmInv, WmTypes
      <3>2. CASE wmCallback.step = 1
          BY <1>1, <3>1, <3>2, CallbackSteps DEF FailCallback, Callbacks
      <3>3. CASE wmCallback.step = 2
          BY <1>1, <3>1, <3>3, CallbackSteps DEF FailCallback
      <3> QED
          BY <1>2, <3>2, <3>3
    <2>2. WmTypes'
        BY <1>1, <2>1 DEF WmInv, WmTypes
    <2>3. InCalls' /\ BusRight' /\ BitsRight'
        BY <1>1, <1>2, <2>1 DEF WmInv, InCalls, InCall, BusRight, BitsRight, Joining
    <2>4. MgrRight'
        BY <1>1, <2>1 DEF WmInv, MgrRight, Believes, Heard, Announced
    <2> QED
        BY <2>2, <2>3, <2>4 DEF WmInv
  <1>3. CASE wmCallback.step = 3
    <2>1. /\ wmUp' = wmUp /\ wmIpDown' = wmIpDown /\ wmFailed' = wmFailed \cup {r} /\ wmCallback' = Quiet
          /\ Quiet \in Callbacks /\ Quiet.kind = "none" /\ Quiet.step = 0 /\ Quiet.had = FALSE
      <3>1. Quiet \in Callbacks /\ Quiet.kind = "none" /\ Quiet.step = 0 /\ Quiet.had = FALSE
          BY <1>1, CallbackSteps
      <3> QED
          BY <1>1, <1>3, <3>1 DEF FailCallback
    <2>2. WmTypes'
        BY <1>1, <2>1 DEF WmInv, WmTypes, Roles
    <2>3. InCalls' /\ BusRight' /\ BitsRight'
        BY <1>1, <2>1 DEF WmInv, InCalls, InCall, BusRight, BitsRight
    <2>4. MgrRight'
        BY <1>1, <2>1 DEF WmInv, MgrRight, Believes, Heard, Announced
    <2> QED
        BY <2>2, <2>3, <2>4 DEF WmInv
  <1> QED
      BY <1>1, <1>2, <1>3

\* The callback of a link that has gone down.
LEMMA DownCallbackInv ==
  ASSUME WmInv, NEW r \in Roles, DownCallback(r), BusTaskOnly
  PROVE  WmInv'
  <1>1. /\ UNCHANGED <<wifi_mode, wmAsked, wmMode, connected_ap, wifi_lock, wmAt, wmCall, wmOk,
                       wmNotified, wmSilent, wmFailed>>
        /\ wmCallback \in Callbacks /\ wmCallback.step \in {1, 2, 3}
        /\ wmCallback.kind = "down" /\ wmCallback.role = r /\ wmAsked = Idle /\ Idle[1] = "none"
      BY DEF WmInv, WmTypes, BusRight, DownCallback, BusTaskOnly, wmManager, Quiet, Idle
  <1>2. CASE wmCallback.step = 1
    <2>1. /\ wmUp' = wmUp \ {r} /\ UNCHANGED <<wmDowned, wmIpDown>> /\ wmCallback' \in Callbacks
          /\ wmCallback'.step = 2 /\ wmCallback'.kind = "down" /\ wmCallback'.role = r
          /\ wmCallback'.had <=> r \in wmUp
        BY <1>1, <1>2, CallbackSteps DEF DownCallback
    <2>2. WmTypes'
        BY <1>1, <2>1 DEF WmInv, WmTypes
    <2>3. InCalls' /\ BusRight' /\ BitsRight'
        BY <1>1, <2>1 DEF WmInv, InCalls, InCall, BusRight, BitsRight
    <2>4. MgrRight'
        BY <1>1, <1>2, <2>1 DEF WmInv, MgrRight, BusRight, Believes, Heard, Announced
    <2> QED
        BY <2>2, <2>3, <2>4 DEF WmInv
  <1>3. CASE wmCallback.step = 2
    <2>1. /\ wmDowned' = wmDowned \cup {r} /\ UNCHANGED <<wmUp, wmIpDown>> /\ wmCallback' \in Callbacks
          /\ wmCallback'.step = 3 /\ wmCallback'.kind = "down" /\ wmCallback'.role = r
          /\ wmCallback'.had = wmCallback.had
        BY <1>1, <1>3, CallbackSteps DEF DownCallback
    <2>2. WmTypes'
        BY <1>1, <2>1 DEF WmInv, WmTypes, Roles
    <2>3. r \notin wmUp
        BY <1>1, <1>3 DEF WmInv, BusRight
    <2>4. InCalls' /\ BusRight' /\ BitsRight'
        BY <1>1, <2>1, <2>3 DEF WmInv, InCalls, InCall, BusRight, BitsRight
    <2>5. MgrRight'
        BY <1>1, <2>1 DEF WmInv, MgrRight, Believes, Heard, Announced
    <2> QED
        BY <2>2, <2>4, <2>5 DEF WmInv
  <1>4. CASE wmCallback.step = 3
    <2>1. /\ UNCHANGED <<wmUp, wmDowned>> /\ wmIpDown' = (wmIpDown \/ wmCallback.had) /\ wmCallback' = Quiet
          /\ Quiet \in Callbacks /\ Quiet.kind = "none" /\ Quiet.step = 0 /\ Quiet.had = FALSE
      <3>1. Quiet \in Callbacks /\ Quiet.kind = "none" /\ Quiet.step = 0 /\ Quiet.had = FALSE
          BY <1>1, CallbackSteps
      <3> QED
          BY <1>1, <1>4, <3>1 DEF DownCallback
    <2>2. wmIpDown' \in BOOLEAN
        BY <2>1
    <2>3. WmTypes'
        BY <1>1, <2>1, <2>2 DEF WmInv, WmTypes
    <2>4. InCalls' /\ BusRight' /\ BitsRight'
        BY <1>1, <2>1 DEF WmInv, InCalls, InCall, BusRight, BitsRight
    <2>5. Announced => Announced'
        BY <1>1, <2>1 DEF Announced
    <2>6. MgrRight'
        BY <1>1, <2>1, <2>5 DEF WmInv, MgrRight, Believes, Heard
    <2> QED
        BY <2>3, <2>4, <2>6 DEF WmInv
  <1> QED
      BY <1>1, <1>2, <1>3, <1>4

\* The module loses the link of its own accord.
LEMMA LinkLostInv == ASSUME WmInv, LinkLost PROVE WmInv'
  <1>1. WmTypes'
      BY
         DEF WmInv, LinkLost, Callback, WmTypes, Callbacks, Quiet, Idle, wmDriver,
             wmManager
  <1>2. InCalls'
      BY DEF WmInv, LinkLost, Callback, InCalls, InCall, wmDriver
  <1>3. BusRight'
      BY DEF LinkLost, Callback, BusRight, Idle
  <1>4. BitsRight'
      BY DEF WmInv, LinkLost, BitsRight, Quiet, wmDriver
  <1>5. MgrRight'
      BY
         DEF WmInv, LinkLost, MgrRight, Believes, Heard, Announced, Quiet, wmDriver,
             wmManager
  <1> QED
      BY <1>1, <1>2, <1>3, <1>4, <1>5 DEF WmInv

\* The IP task passes on that the network is down.
LEMMA wifi_conn_mgr_network_eventInv ==
  ASSUME WmInv, wifi_conn_mgr_network_event
  PROVE  WmInv'
  <1>1. WmTypes'
      BY DEF WmInv, wifi_conn_mgr_network_event, WmTypes, wmDriver, wmModule, wmManager
  <1>2. InCalls'
      BY DEF WmInv, wifi_conn_mgr_network_event, InCalls, InCall, wmDriver, wmModule
  <1>3. BusRight'
      BY DEF WmInv, wifi_conn_mgr_network_event, BusRight, Joining, wmDriver, wmModule
  <1>4. BitsRight'
      BY DEF WmInv, wifi_conn_mgr_network_event, BitsRight, wmDriver, wmModule
  <1>5. MgrRight'
      BY
         DEF WmInv, wifi_conn_mgr_network_event, MgrRight, Believes, Announced,
             wmDriver, wmManager
  <1> QED
      BY <1>1, <1>2, <1>3, <1>4, <1>5 DEF WmInv

\* The module asks to be reset.
LEMMA sl_wfx_reset_request_callbackInv ==
  ASSUME WmInv, sl_wfx_reset_request_callback
  PROVE  WmInv'
  <1>1. WmTypes'
      BY
         DEF WmInv, sl_wfx_reset_request_callback, WmTypes, wmDriver, wmModule,
             wmManager
  <1>2. InCalls'
      BY DEF WmInv, sl_wfx_reset_request_callback, InCalls, InCall, wmDriver, wmModule
  <1>3. BusRight'
      BY DEF WmInv, sl_wfx_reset_request_callback, BusRight, Joining, wmDriver, wmModule
  <1>4. BitsRight'
      BY DEF WmInv, sl_wfx_reset_request_callback, BitsRight, wmDriver, wmModule
  <1>5. MgrRight'
      BY
         DEF WmInv, sl_wfx_reset_request_callback, MgrRight, Believes, Announced,
             wmDriver, wmManager
  <1> QED
      BY <1>1, <1>2, <1>3, <1>4, <1>5 DEF WmInv

\* The application makes a call.
LEMMA ApplicationInv == ASSUME WmInv, Application PROVE WmInv'
  <1>1. WmTypes'
      BY
         DEF WmInv, Application, Enter, WmTypes, Callers, Calling, DriverCalls,
             AppCalls, WmGoto, wmDriver, wmModule, wmManager
  <1>2. InCalls'
      BY
         DEF WmInv, Application, Enter, WmTypes, InCalls, InCall, Inside, AppCalls,
             WmGoto, wmDriver, wmModule
  <1>3. BusRight'
      BY DEF WmInv, Application, Enter, BusRight, Joining, WmGoto, wmDriver, wmModule
  <1>4. BitsRight'
      BY DEF WmInv, Application, BitsRight, wmDriver, wmModule
  <1>5. MgrRight'
      BY
         DEF WmInv, Application, Enter, MgrRight, Believes, Heard, Announced, WmGoto,
             wmDriver, wmModule, wmManager
  <1> QED
      BY <1>1, <1>2, <1>3, <1>4, <1>5 DEF WmInv

\* The manager starts a round.
LEMMA TopInv ==
  ASSUME WmInv, Top, UNCHANGED wmNotified, UNCHANGED <<wmDriver, wmModule, wmBounds,
         wifi_lock, wmIpDown, wmSilent>>
  PROVE  WmInv'
  <1>1. WmTypes'
    <2>1. wmAt' \in [Callers -> Calling \cup Resting]
        BY DEF WmInv, WmTypes, Top, WmGoto, Resting
    <2>2. connected_ap' \in BOOLEAN
        BY DEF WmInv, WmTypes, Top
    <2> QED
        BY <2>1, <2>2 DEF WmInv, WmTypes, Top, wmDriver, wmModule
  <1>2. InCalls'
      BY
         DEF WmInv, Top, WmTypes, InCalls, InCall, Calling, Inside, WmGoto, wmDriver,
             wmModule
  <1>3. BusRight'
      BY DEF WmInv, Top, WmTypes, BusRight, Joining, WmGoto, wmDriver, wmModule
  <1>4. BitsRight'
      BY DEF WmInv, BitsRight, wmDriver, wmModule
  <1>5. MgrRight'
      BY
         DEF WmInv, Top, WmTypes, MgrRight, Believes, Heard, Announced, Calling, Inside,
             WmGoto, wmDriver, wmModule
  <1> QED
      BY <1>1, <1>2, <1>3, <1>4, <1>5 DEF WmInv

\* It tries an access point.
LEMMA TryInv ==
  ASSUME WmInv, Try, UNCHANGED wmNotified, UNCHANGED <<wmDriver, wmModule, wmBounds,
         wifi_lock, wmIpDown, wmSilent>>
  PROVE  WmInv'
  <1>1. WmTypes'
      BY
         DEF WmInv, Try, Enter, WmTypes, Calling, DriverCalls, MgrCalls, WmGoto,
             wmDriver, wmModule
  <1>2. InCalls'
      BY
         DEF WmInv, Try, Enter, WmTypes, InCalls, InCall, Inside, MgrCalls, WmGoto,
             wmDriver, wmModule
  <1>3. BusRight'
      BY DEF WmInv, Try, Enter, BusRight, Joining, WmGoto, wmDriver, wmModule
  <1>4. BitsRight'
      BY DEF WmInv, BitsRight, wmDriver, wmModule
  <1>5. MgrRight'
      BY DEF WmInv, Try, Enter, WmTypes, MgrRight, Believes, WmGoto
  <1> QED
      BY <1>1, <1>2, <1>3, <1>4, <1>5 DEF WmInv

\* It looks at how the attempt ended.
LEMMA TriedInv ==
  ASSUME WmInv, Tried, UNCHANGED wmNotified, UNCHANGED <<wmDriver, wmModule, wmBounds,
         wifi_lock, wmIpDown, wmSilent>>
  PROVE  WmInv'
  <1>1. WmTypes'
      BY DEF WmInv, Tried, WmTypes, Callers, Resting, WmGoto, wmDriver, wmModule
  <1>2. InCalls'
      BY DEF WmInv, Tried, InCalls, InCall, Calling, Inside, WmGoto, wmDriver, wmModule
  <1>3. BusRight'
      BY DEF WmInv, Tried, BusRight, Joining, WmGoto, wmDriver, wmModule
  <1>4. BitsRight'
      BY DEF WmInv, BitsRight, wmDriver, wmModule
  <1>5. MgrRight'
    <2>1. /\ wmOk["mgr"] \in BOOLEAN /\ connected_ap' = wmOk["mgr"] /\ ~ connected_ap
          /\ wmAt'["mgr"] = IF wmOk["mgr"] THEN "soft" ELSE "try"
          /\ wmMode = "sta" /\ UNCHANGED <<wmMode, wmUp, wifi_mode, wmCallback, wmIpDown, wmNotified, wmSilent>>
        BY DEF WmInv, WmTypes, MgrRight, Tried, WmGoto, Callers, wmDriver, wmModule
    <2>2. connected_ap' <=> Believes
        BY <2>1 DEF WmInv, MgrRight, Believes, Tried
    <2> QED
        BY <2>1, <2>2 DEF WmInv, MgrRight, Believes, Heard, Announced, Calling, Inside
  <1> QED
      BY <1>1, <1>2, <1>3, <1>4, <1>5 DEF WmInv

\* It has tried every access point.
LEMMA GiveUpInv ==
  ASSUME WmInv, GiveUp, UNCHANGED wmNotified, UNCHANGED <<wmDriver, wmModule, wmBounds,
         wifi_lock, wmIpDown, wmSilent>>
  PROVE  WmInv'
  <1>1. WmTypes'
      BY DEF WmInv, GiveUp, WmTypes, Resting, WmGoto, wmDriver, wmModule
  <1>2. InCalls'
      BY DEF WmInv, GiveUp, InCalls, InCall, Calling, Inside, WmGoto, wmDriver, wmModule
  <1>3. BusRight'
      BY DEF WmInv, GiveUp, BusRight, Joining, WmGoto, wmDriver, wmModule
  <1>4. BitsRight'
      BY DEF WmInv, BitsRight, wmDriver, wmModule
  <1>5. MgrRight'
      BY
         DEF WmInv, GiveUp, WmTypes, MgrRight, Believes, Callers, Calling, Inside,
             WmGoto
  <1> QED
      BY <1>1, <1>2, <1>3, <1>4, <1>5 DEF WmInv

\* It asks for the soft AP.
LEMMA SoftApInv ==
  ASSUME WmInv, SoftAp, UNCHANGED wmNotified, UNCHANGED <<wmDriver, wmModule, wmBounds,
         wifi_lock, wmIpDown, wmSilent>>
  PROVE  WmInv'
  <1>1. WmTypes'
      BY
         DEF WmInv, SoftAp, Enter, WmTypes, Calling, Resting, DriverCalls, MgrCalls,
             WmGoto, wmDriver, wmModule, wmManager
  <1>2. InCalls'
      BY
         DEF WmInv, SoftAp, Enter, WmTypes, InCalls, InCall, Calling, Inside, MgrCalls,
             WmGoto, wmDriver, wmModule
  <1>3. BusRight'
      BY
         DEF WmInv, SoftAp, Enter, WmTypes, BusRight, Joining, WmGoto, wmDriver,
             wmModule
  <1>4. BitsRight'
      BY DEF WmInv, BitsRight, wmDriver, wmModule
  <1>5. MgrRight'
      BY
         DEF WmInv, SoftAp, Enter, WmTypes, MgrRight, Believes, Heard, Announced,
             Calling, Inside, WmGoto, wmDriver, wmModule, wmManager
  <1> QED
      BY <1>1, <1>2, <1>3, <1>4, <1>5 DEF WmInv

\* It looks at whether the soft AP is up.
LEMMA SoftApAskedInv ==
  ASSUME WmInv, SoftApAsked, UNCHANGED wmNotified, UNCHANGED <<wmDriver, wmModule,
         wmBounds, wifi_lock, wmIpDown, wmSilent>>
  PROVE  WmInv'
  <1>1. WmTypes'
      BY
         DEF WmInv, SoftApAsked, Enter, WmTypes, Calling, Resting, DriverCalls,
             MgrCalls, WmGoto, wmDriver, wmModule, wmManager
  <1>2. InCalls'
      BY
         DEF WmInv, SoftApAsked, Enter, WmTypes, InCalls, InCall, Calling, Inside,
             MgrCalls, WmGoto, wmDriver, wmModule
  <1>3. BusRight'
      BY
         DEF WmInv, SoftApAsked, Enter, WmTypes, BusRight, Joining, WmGoto, wmDriver,
             wmModule
  <1>4. BitsRight'
      BY DEF WmInv, BitsRight, wmDriver, wmModule
  <1>5. MgrRight'
      BY
         DEF WmInv, SoftApAsked, Enter, WmTypes, MgrRight, Believes, Calling, Inside,
             WmGoto, wmManager
  <1> QED
      BY <1>1, <1>2, <1>3, <1>4, <1>5 DEF WmInv

\* It looks at whether a link is up after all, and starts again.
LEMMA DownAskedInv ==
  ASSUME WmInv, DownAsked, UNCHANGED wmNotified, UNCHANGED <<wmDriver, wmModule,
         wmBounds, wifi_lock, wmIpDown, wmSilent>>
  PROVE  WmInv'
  <1>1. WmTypes'
      BY DEF WmInv, DownAsked, WmTypes, Resting, WmGoto, wmDriver, wmModule
  <1>2. InCalls'
      BY
         DEF WmInv, DownAsked, InCalls, InCall, Calling, Inside, WmGoto, wmDriver,
             wmModule
  <1>3. BusRight'
      BY DEF WmInv, DownAsked, BusRight, Joining, WmGoto, wmDriver, wmModule
  <1>4. BitsRight'
      BY DEF WmInv, BitsRight, wmDriver, wmModule
  <1>5. MgrRight'
      BY
         DEF WmInv, DownAsked, WmTypes, MgrRight, Believes, Heard, Announced, Calling,
             Inside, WmGoto, wmDriver, wmModule
  <1> QED
      BY <1>1, <1>2, <1>3, <1>4, <1>5 DEF WmInv

\* The module has been reset.
LEMMA ResetDoneInv ==
  ASSUME WmInv, ResetDone, UNCHANGED wmNotified, UNCHANGED <<wmDriver, wmModule,
         wmBounds, wifi_lock, wmIpDown, wmSilent>>
  PROVE  WmInv'
  <1>1. WmTypes'
      BY DEF WmInv, ResetDone, WmTypes, Resting, WmGoto, wmDriver, wmModule
  <1>2. InCalls'
      BY
         DEF WmInv, ResetDone, InCalls, InCall, Calling, Inside, WmGoto, wmDriver,
             wmModule
  <1>3. BusRight'
      BY DEF WmInv, ResetDone, BusRight, Joining, WmGoto, wmDriver, wmModule
  <1>4. BitsRight'
      BY DEF WmInv, BitsRight, wmDriver, wmModule
  <1>5. MgrRight'
      BY DEF ResetDone, MgrRight, Believes, Calling, Inside, WmGoto
  <1> QED
      BY <1>1, <1>2, <1>3, <1>4, <1>5 DEF WmInv

\* It takes its notifications, and asks the driver or resets the module.
LEMMA NotifyWaitInv ==
  ASSUME WmInv, NotifyWait, UNCHANGED <<wmDriver, wmModule, wmBounds, wifi_lock,
         wmIpDown, wmSilent>>
  PROVE  WmInv'
  <1>1. WmTypes'
      BY
         DEF WmInv, NotifyWait, Enter, WmTypes, Calling, Resting, DriverCalls, MgrCalls,
             WmGoto, wmDriver, wmModule, wmManager
  <1>2. InCalls'
      BY
         DEF WmInv, NotifyWait, Enter, WmTypes, InCalls, InCall, Calling, Inside,
             MgrCalls, WmGoto, wmDriver, wmModule
  <1>3. BusRight'
      BY
         DEF WmInv, NotifyWait, Enter, WmTypes, BusRight, Joining, WmGoto, wmDriver,
             wmModule
  <1>4. BitsRight'
      BY DEF WmInv, BitsRight, wmDriver, wmModule
  <1>5. MgrRight'
      BY
         DEF WmInv, NotifyWait, Enter, WmTypes, MgrRight, Believes, Heard, Announced,
             Callers, Calling, Inside, WmGoto, wmDriver, wmModule, wmManager
  <1> QED
      BY <1>1, <1>2, <1>3, <1>4, <1>5 DEF WmInv

\* A step of a caller, the module, the bus task, the IP task, the application or
\* the manager.
LEMMA WifiStep == ASSUME WmInv, WmNext PROVE WmInv'
  <1>1. CASE \E c \in Callers : DriverCall(c)
      BY <1>1, WIFI_GetLockInv, WIFI_GetLock_timeoutInv, WmBeginInv, ResetCallInv,
         SendDownInv, 
         TornInv, TearTimeoutInv, SendUpInv, JoinedInv, JoinTimeoutInv DEF DriverCall
  <1>2. CASE BusTask
      BY <1>2, UpCallbackInv, FailCallbackInv, DownCallbackInv DEF BusTask, BusTaskOnly
  <1>3. CASE Manager
      BY <1>3, TopInv, TryInv, TriedInv, GiveUpInv, SoftApInv, SoftApAskedInv,
         DownAskedInv, 
         ResetDoneInv, NotifyWaitInv DEF Manager
  <1> QED
      BY <1>1, <1>2, <1>3, AnswerInv, LinkLostInv, wifi_conn_mgr_network_eventInv,
         sl_wfx_reset_request_callbackInv, ApplicationInv DEF WmNext

\* The invariant holds in every state.
LEMMA WifiAlways == WmSpec => []WmInv
  <1>1. WmInit => WmInv
    <2> SUFFICES ASSUME WmInit PROVE WmInv
        OBVIOUS
    <2>1. WmTypes
      <3>1. /\ wmAt \in [Callers -> Calling \cup Resting] /\ wmCall \in [Callers -> DriverCalls]
            /\ wmOk \in [Callers -> BOOLEAN]
          BY DEF WmInit, DriverCalls, Resting
      <3>2. wmAsked \in {"none", "up", "down"} \X Roles /\ wmCallback \in Callbacks
          BY DEF WmInit, Idle, Quiet, Callbacks, Roles
      <3> QED
          BY <3>1, <3>2 DEF WmInit, WmTypes, Roles
    <2>2. InCalls /\ BusRight /\ BitsRight /\ MgrRight
        BY
           DEF WmInit, InCalls, InCall, BusRight, BitsRight, MgrRight, Believes, Heard,
               Joining, 
               Callers, Calling, Inside, Quiet, Idle
    <2> QED
        BY <2>1, <2>2 DEF WmInv
  <1>2. WmInv /\ [WmNext]_wmVars => WmInv'
    <2> SUFFICES ASSUME WmInv, UNCHANGED wmVars PROVE WmInv'
        BY WifiStep
    <2>1. UNCHANGED <<wmUp, wmDowned, wmFailed, wifi_mode, wmAsked, wmCallback, wmMode, connected_ap,
                      wifi_lock, wmAt, wmCall, wmOk, wmIpDown, wmNotified, wmSilent>>
        BY DEF wmVars, wmDriver, wmModule, wmManager
    <2>2. WmTypes'
        BY <2>1 DEF WmInv, WmTypes
    <2>3. InCalls' /\ BusRight' /\ BitsRight' /\ MgrRight'
        BY <2>1
           DEF WmInv, InCalls, InCall, BusRight, BitsRight, MgrRight, Believes, Heard,
               Joining, 
                    Announced
    <2> QED
        BY <2>2, <2>3 DEF WmInv
  <1> QED
      BY <1>1, <1>2, PTL DEF WmSpec

\* The driver asks the module for a link, or a soft AP, only when the bit that says
\* that it is up is clear, whatever has happened in the waits since it was read.
THEOREM WifiAskedDown == WmSpec => []WifiAskedWhenDown
  <1>1. WmInv => WifiAskedWhenDown
      BY DEF WmInv, InCalls, InCall, WifiAskedWhenDown
  <1> QED
      BY <1>1, WifiAlways, PTL

\* The manager does not wait with a link that is gone unless it is about to hear of
\* it, or the application's own call has reset the module.
THEOREM WifiLossIsAnnounced == WmSpec => []WifiLossAnnounced
  <1>1. WmInv => WifiLossAnnounced
      BY DEF WmInv, MgrRight, Believes, Heard, Calling, Inside, WifiLossAnnounced
  <1> QED
      BY <1>1, WifiAlways, PTL

-----------------------------------------------------------------------------
(***************************************************************************)
(* The generic pipeline.  Frames are numbered as they come in: every place *)
(* that is nearer to the end holds a frame with a smaller number, so what  *)
(* comes out is the oldest, and a step moves one frame to the next place.  *)
(***************************************************************************)
GpShape ==
  /\ gpCount \in Nat \ {0} /\ gpIn \in Nat /\ gpOut \in Nat
  /\ gpThread \in [GpThreads -> [pc : {"take", "work", "pass"}, frame : GpBufs \cup {0}]]
  /\ gpQueue \in [0..gpCount - 2 -> Seq(GpBufs)]
  /\ \A s \in 0..gpCount - 2 : Len(gpQueue[s]) <= 2
  /\ gpHeap \in [GpBufs -> [no : Nat, by : Seq(Nat)]]
  /\ \A s \in GpThreads : gpThread[s].pc # "take" => gpThread[s].frame \in GpBufs

\* The inductive invariant.
GpInv == GpShape /\ PipelineExact

No(p) == gpHeap[GpFrameAt(p)].no

\* What a place is.
Holds(p) ==
  /\ p = [stage |-> p.stage, slot |-> p.slot] /\ p.stage \in 0..gpCount - 1 /\ p.slot \in 0..2
  /\ p.slot = 0 => gpThread[p.stage].pc # "take"
  /\ p.slot > 0 => p.stage > 0 /\ p.slot <= Len(gpQueue[p.stage - 1])

LEMMA PlaceHolds == \A p : p \in GpPlaces <=> Holds(p)
    BY DEF GpPlaces, Holds, GpThreads, GpLast, GpQueueSize

LEMMA PlaceHoldsNext == \A p : p \in GpPlaces' <=> Holds(p)'
    BY DEF GpPlaces, Holds, GpThreads, GpLast, GpQueueSize

\* A place holds the address of a buffer.
LEMMA PlaceFrame ==
  ASSUME GpShape, NEW p \in GpPlaces
  PROVE  GpFrameAt(p) \in GpBufs /\ No(p) \in Nat /\ GpStagesBehind(p) \in Nat
  <1>1. Holds(p)
      BY PlaceHolds
  <1>2. GpFrameAt(p) \in GpBufs
    <2>1. CASE p.slot = 0
        BY <1>1, <2>1 DEF Holds, GpFrameAt, GpShape, GpThreads, GpLast
    <2>2. CASE p.slot # 0
      <3>1. p.stage \in 0..gpCount - 1 /\ p.stage > 0 /\ gpCount \in Nat
          BY <1>1, <2>2 DEF Holds, GpShape, GpThreads, GpLast
      <3> PICK s : s = p.stage - 1
          OBVIOUS
      <3>2. s \in 0..gpCount - 2
          BY <3>1
      <3>3. gpQueue[s] \in Seq(GpBufs)
          BY <3>2 DEF GpShape
      <3>4. p.slot \in 1..Len(gpQueue[s])
          BY <1>1, <2>2, <3>1, <3>3 DEF Holds
      <3>5. gpQueue[s][p.slot] \in GpBufs
          BY <3>3, <3>4
      <3> QED
          BY <2>2, <3>5 DEF GpFrameAt
    <2> QED
        BY <2>1, <2>2
  <1>3. GpStagesBehind(p) \in Nat
      BY <1>1 DEF GpStagesBehind, Holds
  <1> QED
      BY <1>2, <1>3 DEF GpShape, No

\* Two places are one ahead of the other, so their buffers differ.
LEMMA PlacesDiffer ==
  ASSUME GpInv, NEW p \in GpPlaces, NEW q \in GpPlaces, p # q
  PROVE  (GpAhead(p, q) \/ GpAhead(q, p)) /\ GpFrameAt(p) # GpFrameAt(q)
  <1>1. Holds(p) /\ Holds(q)
      BY PlaceHolds DEF GpInv
  <1>2. GpAhead(p, q) \/ GpAhead(q, p)
    <2>1. /\ p = [stage |-> p.stage, slot |-> p.slot] /\ p.stage \in Nat /\ p.slot \in Nat
          /\ q = [stage |-> q.stage, slot |-> q.slot] /\ q.stage \in Nat /\ q.slot \in Nat
        BY <1>1 DEF Holds
    <2> QED
        BY <2>1 DEF GpAhead
  <1>3. No(p) \in Nat /\ No(q) \in Nat
      BY PlaceFrame DEF GpInv
  <1>4. No(p) # No(q)
      BY <1>2, <1>3 DEF GpInv, PipelineExact, No
  <1> QED
      BY <1>2, <1>4 DEF No

\* Frames move on: f tells where what a place holds was before.
LEMMA FramesMove ==
  ASSUME PipelineExact, UNCHANGED <<gpIn, gpOut>>, NEW f,
         \A p \in GpPlaces' :
            /\ f[p] \in GpPlaces /\ No(p)' = No(f[p])
            /\ gpHeap'[GpFrameAt(p)'].by = [k \in 1..GpStagesBehind(p)' |-> k - 1],
         \A p, q \in GpPlaces' : GpAhead(p, q) => GpAhead(f[p], f[q]),
         \A q \in GpPlaces : \E p \in GpPlaces' : f[p] = q
  PROVE  PipelineExact'
  <1>1. /\ \A n \in gpOut + 1..gpIn : \E p \in GpPlaces : No(p) = n
        /\ \A p \in GpPlaces : No(p) \in gpOut + 1..gpIn
        /\ \A p, q \in GpPlaces : GpAhead(p, q) => No(p) < No(q)
      BY DEF PipelineExact, No
  <1>2. ASSUME NEW n \in gpOut + 1..gpIn PROVE \E p \in GpPlaces' : No(p)' = n
    <2>1. PICK q \in GpPlaces : No(q) = n
        BY <1>1
    <2>2. PICK p \in GpPlaces' : f[p] = q
        OBVIOUS
    <2> QED
        BY <2>1, <2>2
  <1>3. \A p \in GpPlaces' : No(p)' \in gpOut + 1..gpIn
      BY <1>1
  <1>4. ASSUME NEW p \in GpPlaces', NEW q \in GpPlaces', GpAhead(p, q) PROVE No(p)' < No(q)'
    <2>1. GpAhead(f[p], f[q]) /\ f[p] \in GpPlaces /\ f[q] \in GpPlaces
        BY <1>4
    <2>2. No(p)' = No(f[p]) /\ No(q)' = No(f[q])
        OBVIOUS
    <2> QED
        BY <1>1, <2>1, <2>2
  <1> QED
      BY <1>2, <1>3, <1>4 DEF PipelineExact, No

\* Frames enter at the first stage, which has none then, in a buffer that none has.
LEMMA GpInputInv == ASSUME GpInv, GpInput PROVE GpInv'
  <1> PICK b \in GpBufs :
         /\ gpHeap[b] = NoFrame /\ gpThread[0].pc = "take"
         /\ gpHeap' = [gpHeap EXCEPT ![b] = [no |-> gpIn + 1, by |-> <<>>]]
         /\ gpThread' = [gpThread EXCEPT ![0] = [pc |-> "work", frame |-> b]]
         /\ gpIn' = gpIn + 1 /\ UNCHANGED <<gpCount, gpQueue, gpOut>>
      BY DEF GpInput
  <1> PICK z : z = [stage |-> 0, slot |-> 0]
      OBVIOUS
  <1>1. GpShape /\ 0 \in GpThreads
      BY DEF GpInv, GpShape, GpThreads, GpLast
  <1>2. GpShape'
      BY <1>1 DEF GpShape, GpThreads, GpLast
  <1>3. ASSUME NEW p PROVE p \in GpPlaces' <=> p \in GpPlaces \/ p = z
    <2>1. Holds(p)' <=> Holds(p) \/ p = z
        BY <1>1 DEF Holds, GpShape, GpThreads, GpLast
    <2> QED
        BY <2>1, PlaceHolds, PlaceHoldsNext
  <1>4. z \notin GpPlaces
      BY PlaceHolds DEF Holds
  <1>5. ASSUME NEW p \in GpPlaces
        PROVE  /\ No(p)' = No(p) /\ No(p) \in gpOut + 1..gpIn
               /\ gpHeap'[GpFrameAt(p)'].by = [k \in 1..GpStagesBehind(p)' |-> k - 1]
    <2>1. /\ GpFrameAt(p) \in GpBufs /\ No(p) \in gpOut + 1..gpIn
          /\ gpHeap[GpFrameAt(p)].by = [k \in 1..GpStagesBehind(p) |-> k - 1]
        BY <1>1, PlaceFrame DEF GpInv, PipelineExact, No
    <2>2. GpFrameAt(p) # b
        BY <1>1, <2>1 DEF No, NoFrame, GpShape
    <2>3. GpFrameAt(p)' = GpFrameAt(p) /\ GpStagesBehind(p)' = GpStagesBehind(p)
        BY <1>1, PlaceHolds DEF Holds, GpFrameAt, GpStagesBehind, GpShape, GpThreads, GpLast
    <2> QED
        BY <1>1, <2>1, <2>2, <2>3 DEF No, GpShape
  <1>6. /\ No(z)' = gpIn + 1
        /\ gpHeap'[GpFrameAt(z)'].by = [k \in 1..GpStagesBehind(z)' |-> k - 1]
    <2>1. GpFrameAt(z)' = b /\ GpStagesBehind(z)' = 0
        BY <1>1 DEF GpFrameAt, GpStagesBehind, GpShape
    <2>2. gpHeap'[b] = [no |-> gpIn + 1, by |-> <<>>]
        BY <1>1 DEF GpShape
    <2>3. <<>> = [k \in 1..0 |-> k - 1]
        OBVIOUS
    <2> QED
        BY <2>1, <2>2, <2>3 DEF No
  <1>7. ASSUME NEW p \in GpPlaces PROVE ~ GpAhead(z, p)
      BY PlaceHolds DEF Holds, GpAhead
  <1>8. ~ GpAhead(z, z)
      BY DEF GpAhead
  <1>9. \A n \in gpOut' + 1..gpIn' : \E p \in GpPlaces' : No(p)' = n
    <2> SUFFICES ASSUME NEW n \in gpOut + 1..gpIn + 1 PROVE \E p \in GpPlaces' : No(p)' = n
        OBVIOUS
    <2>1. CASE n = gpIn + 1
        BY <1>3, <1>6, <2>1
    <2>2. CASE n # gpIn + 1
      <3>1. n \in gpOut + 1..gpIn
          BY <1>1, <2>2 DEF GpShape
      <3>2. PICK p \in GpPlaces : No(p) = n
          BY <3>1 DEF GpInv, PipelineExact, No
      <3> QED
          BY <1>3, <1>5, <3>2
    <2> QED
        BY <2>1, <2>2
  <1>10. ASSUME NEW p \in GpPlaces'
         PROVE  /\ No(p)' \in gpOut' + 1..gpIn'
                /\ gpHeap'[GpFrameAt(p)'].by = [k \in 1..GpStagesBehind(p)' |-> k - 1]
    <2>1. CASE p \in GpPlaces
        BY <1>1, <1>5, <2>1 DEF GpShape
    <2>2. CASE p = z
      <3>1. gpOut <= gpIn
          BY <1>1 DEF GpInv, GpShape, PipelineExact
      <3> QED
          BY <1>1, <1>6, <2>2, <3>1 DEF GpShape
    <2> QED
        BY <1>3, <2>1, <2>2
  <1>11. ASSUME NEW p \in GpPlaces', NEW q \in GpPlaces', GpAhead(p, q) PROVE No(p)' < No(q)'
    <2>1. CASE q = z
      <3>1. p \in GpPlaces
          BY <1>3, <1>8, <1>11, <2>1
      <3>2. No(p)' \in gpOut + 1..gpIn /\ No(q)' = gpIn + 1
          BY <1>5, <1>6, <2>1, <3>1
      <3> QED
          BY <1>1, <3>2 DEF GpShape
    <2>2. CASE q # z
      <3>1. q \in GpPlaces /\ p \in GpPlaces
          BY <1>3, <1>7, <1>11, <2>2
      <3>2. No(p) < No(q)
          BY <1>11, <3>1 DEF GpInv, PipelineExact, No
      <3> QED
          BY <1>5, <3>1, <3>2
    <2> QED
        BY <2>1, <2>2
  <1>12. gpOut' <= gpIn'
      BY <1>1 DEF GpInv, GpShape, PipelineExact
  <1> QED
      BY <1>2, <1>9, <1>10, <1>11, <1>12 DEF GpInv, PipelineExact, No

\* A thread takes the frame at the head of its queue: every frame of its stage moves
\* by one place.
LEMMA GpReceiveInv == ASSUME GpInv, NEW s \in GpThreads, GpReceive(s) PROVE GpInv'
  <1>1. GpShape /\ s \in 0..gpCount - 1 /\ s > 0 /\ gpCount \in Nat
      BY DEF GpInv, GpShape, GpThreads, GpLast, GpReceive
  <1> PICK j, q : j = s - 1 /\ q = gpQueue[j]
      OBVIOUS
  <1>2. /\ j \in 0..gpCount - 2 /\ q \in Seq(GpBufs) /\ q # <<>> /\ Len(q) \in 1..2
    <2>1. j \in 0..gpCount - 2
        BY <1>1
    <2>2. q \in Seq(GpBufs) /\ Len(q) <= 2
        BY <2>1 DEF GpInv, GpShape
    <2>3. q # <<>>
        BY DEF GpReceive
    <2>4. Len(q) \in Nat \ {0}
        BY ONLY <2>2, <2>3
    <2> PICK l : l = Len(q)
        OBVIOUS
    <2>5. l \in Nat \ {0} /\ l <= 2
        BY <2>2, <2>4, Zenon
    <2>6. l \in 1..2
        BY ONLY <2>5
    <2> QED
        BY <2>1, <2>2, <2>3, <2>6, Zenon
  <1>3. /\ gpThread[s].pc = "take"
        /\ gpThread' = [gpThread EXCEPT ![s] = [pc |-> "work", frame |-> Head(q)]]
        /\ gpQueue' = [gpQueue EXCEPT ![j] = Tail(q)]
        /\ UNCHANGED <<gpCount, gpHeap, gpIn, gpOut>>
      BY DEF GpReceive
  <1>4. /\ Head(q) = q[1] /\ Head(q) \in GpBufs /\ Tail(q) \in Seq(GpBufs)
        /\ Len(Tail(q)) = Len(q) - 1 /\ \A i \in 1..Len(q) - 1 : Tail(q)[i] = q[i + 1]
      BY <1>2
  <1>5. /\ gpThread'[s] = [pc |-> "work", frame |-> q[1]]
        /\ \A t \in 0..gpCount - 1 : t # s => gpThread'[t] = gpThread[t]
        /\ gpQueue'[j] = Tail(q)
        /\ \A t \in 0..gpCount - 2 : t # j => gpQueue'[t] = gpQueue[t]
      BY <1>1, <1>2, <1>3, <1>4 DEF GpShape, GpThreads, GpLast
  <1>6. GpShape'
    <2>1. gpThread' \in [GpThreads -> [pc : {"take", "work", "pass"}, frame : GpBufs \cup {0}]]
        BY <1>1, <1>3, <1>4 DEF GpShape
    <2>2. gpQueue' \in [0..gpCount - 2 -> Seq(GpBufs)]
        BY <1>1, <1>2, <1>3, <1>4 DEF GpShape
    <2>3. ASSUME NEW t \in 0..gpCount - 2 PROVE Len(gpQueue'[t]) <= 2
      <3>1. CASE t = j
        <4>1. Len(Tail(q)) <= 2
          <5> PICK n, m : n = Len(q) /\ m = Len(Tail(q))
              OBVIOUS
          <5>1. n \in 1..2 /\ m = n - 1
              BY <1>2, <1>4, Zenon
          <5>2. m <= 2
              BY ONLY <5>1
          <5> QED
              BY <5>2, Zenon
        <4> QED
            BY <1>5, <3>1, <4>1, Zenon
      <3>2. CASE t # j
          BY <1>1, <1>5, <3>2 DEF GpShape
      <3> QED
          BY <3>1, <3>2
    <2>4. ASSUME NEW t \in GpThreads, gpThread'[t].pc # "take" PROVE gpThread'[t].frame \in GpBufs
      <3>1. CASE t = s
        <4>1. q[1] \in GpBufs
            BY <1>4
        <4> QED
            BY <1>5, <3>1, <4>1
      <3>2. CASE t # s
        <4>1. gpThread'[t] = gpThread[t]
            BY <1>5, <3>2 DEF GpThreads, GpLast
        <4> QED
            BY <1>1, <2>4, <4>1 DEF GpShape
      <3> QED
          BY <3>1, <3>2
    <2> QED
        BY <1>1, <1>3, <2>1, <2>2, <2>3, <2>4 DEF GpShape, GpThreads, GpLast
  <1> PICK f : f = [p \in [stage : 0..gpCount - 1, slot : 0..2] |->
                      IF p.stage = s THEN [stage |-> s, slot |-> p.slot + 1] ELSE p]
      OBVIOUS
  <1>7. ASSUME NEW p \in GpPlaces'
        PROVE  /\ f[p] \in GpPlaces /\ f[p].stage = p.stage
               /\ f[p].slot = IF p.stage = s THEN p.slot + 1 ELSE p.slot
               /\ GpFrameAt(p)' = GpFrameAt(f[p]) /\ GpStagesBehind(p)' = GpStagesBehind(f[p])
    <2>1. Holds(p)'
        BY PlaceHoldsNext
    <2>2. /\ p = [stage |-> p.stage, slot |-> p.slot] /\ p.stage \in 0..gpCount - 1 /\ p.slot \in 0..2
          /\ p.slot = 0 => gpThread'[p.stage].pc # "take"
          /\ p.slot > 0 => p.stage > 0 /\ p.slot <= Len(gpQueue'[p.stage - 1])
        BY <1>3, <2>1 DEF Holds
    <2>3. CASE p.stage = s
      <3>1. p.slot \in 0..Len(q) - 1
        <4>1. p.stage - 1 = j
            BY <2>3
        <4>2. p.slot > 0 => p.slot <= Len(Tail(q))
            BY <1>5, <2>2, <4>1
        <4> QED
            BY <1>2, <1>4, <2>2, <4>2
      <3> PICK n : n = p.slot + 1
          OBVIOUS
      <3>2. n \in 1..Len(q) /\ n \in 1..2 /\ p.slot = n - 1
        <4> PICK k, l : k = p.slot /\ l = Len(q)
            OBVIOUS
        <4>1. k \in 0..l - 1 /\ l \in 1..2 /\ n = k + 1
            BY <1>2, <3>1
        <4>2. n \in 1..l /\ n \in 1..2 /\ k = n - 1
            BY ONLY <4>1
        <4> QED
            BY <4>2
      <3>3. f[p] = [stage |-> s, slot |-> n]
          BY <2>2, <2>3
      <3>4. f[p].stage = s /\ f[p].slot = n
          BY <3>3
      <3>5. Holds(f[p])
        <4>1. /\ f[p] = [stage |-> f[p].stage, slot |-> f[p].slot]
              /\ f[p].stage \in 0..gpCount - 1 /\ f[p].slot \in 0..2 /\ f[p].slot > 0
            BY ONLY <1>1, <3>2, <3>3, <3>4
        <4>2. f[p].stage > 0 /\ f[p].slot <= Len(gpQueue[f[p].stage - 1])
            BY <1>1, <3>2, <3>4
        <4> QED
            BY ONLY <4>1, <4>2 DEF Holds
      <3>6. GpFrameAt(f[p]) = q[n] /\ GpStagesBehind(f[p]) = s
          BY <3>2, <3>4 DEF GpFrameAt, GpStagesBehind
      <3>7. GpFrameAt(p)' = q[n] /\ GpStagesBehind(p)' = s
        <4>1. CASE p.slot = 0
            BY <1>5, <2>3, <3>2, <4>1 DEF GpFrameAt, GpStagesBehind
        <4>2. CASE p.slot # 0
          <5>1. p.slot \in 1..Len(q) - 1 /\ n = p.slot + 1
              BY <1>2, <3>1, <4>2
          <5>2. Tail(q)[p.slot] = q[n]
              BY <1>4, <5>1
          <5> QED
              BY <1>5, <2>3, <4>2, <5>2 DEF GpFrameAt, GpStagesBehind
        <4> QED
            BY <4>1, <4>2
      <3> QED
          BY <2>3, <3>4, <3>5, <3>6, <3>7, PlaceHolds
    <2>4. CASE p.stage # s
      <3>1. f[p] = p
          BY <2>2, <2>4
      <3>2. gpThread'[p.stage] = gpThread[p.stage]
          BY <1>5, <2>2, <2>4
      <3>3. p.slot # 0 => gpQueue'[p.stage - 1] = gpQueue[p.stage - 1]
        <4> PICK t : t = p.stage - 1
            OBVIOUS
        <4>1. p.slot # 0 => t \in 0..gpCount - 2 /\ t # j
            BY <1>1, <2>2, <2>4
        <4> QED
            BY <1>5, <4>1
      <3>4. Holds(p)
          BY <2>2, <3>2, <3>3 DEF Holds
      <3> QED
          BY <2>4, <3>1, <3>2, <3>3, <3>4, PlaceHolds DEF GpFrameAt, GpStagesBehind
    <2> QED
        BY <2>3, <2>4
  <1>8. ASSUME NEW p \in GpPlaces'
        PROVE  /\ No(p)' = No(f[p])
               /\ gpHeap'[GpFrameAt(p)'].by = [k \in 1..GpStagesBehind(p)' |-> k - 1]
    <2>1. gpHeap[GpFrameAt(f[p])].by = [k \in 1..GpStagesBehind(f[p]) |-> k - 1]
        BY <1>7 DEF GpInv, PipelineExact
    <2> QED
        BY <1>3, <1>7, <2>1 DEF No
  <1>9. ASSUME NEW p \in GpPlaces', NEW r \in GpPlaces', GpAhead(p, r) PROVE GpAhead(f[p], f[r])
    <2>1. /\ p.slot \in Nat /\ r.slot \in Nat
          /\ p.stage \in Nat /\ r.stage \in Nat
        BY <1>3, PlaceHoldsNext DEF Holds
    <2> QED
      <3>1. CASE p.stage = r.stage
        <4>1. p.slot < r.slot /\ f[p].slot < f[r].slot /\ f[p].stage = f[r].stage
          <5>1. p.slot < r.slot
              BY <1>9, <2>1, <3>1 DEF GpAhead
          <5>2. f[p].stage = p.stage /\ f[r].stage = r.stage
              BY <1>7
          <5>3. CASE p.stage = s
            <6>1. f[p].slot = p.slot + 1 /\ f[r].slot = r.slot + 1
                BY <1>7, <3>1, <5>3
            <6> QED
                BY <2>1, <3>1, <5>1, <5>2, <6>1
          <5>4. CASE p.stage # s
            <6>1. f[p].slot = p.slot /\ f[r].slot = r.slot
                BY <1>7, <3>1, <5>4
            <6> QED
                BY <3>1, <5>1, <5>2, <6>1
          <5> QED
              BY <5>3, <5>4
        <4> QED
            BY <4>1 DEF GpAhead
      <3>2. CASE p.stage # r.stage
        <4>1. p.stage > r.stage
            BY <1>9, <3>2 DEF GpAhead
        <4>2. f[p].stage > f[r].stage
            BY <1>7, <4>1
        <4> QED
            BY <4>2 DEF GpAhead
      <3> QED
          BY <3>1, <3>2
  <1>10. ASSUME NEW r \in GpPlaces PROVE \E p \in GpPlaces' : f[p] = r
    <2>1. /\ r = [stage |-> r.stage, slot |-> r.slot] /\ r.stage \in 0..gpCount - 1 /\ r.slot \in 0..2
          /\ r.slot = 0 => gpThread[r.stage].pc # "take"
          /\ r.slot > 0 => r.stage > 0 /\ r.slot <= Len(gpQueue[r.stage - 1])
        BY PlaceHolds DEF Holds
    <2>2. CASE r.stage = s
      <3>1. r.slot \in 1..Len(q)
          BY <1>2, <1>3, <2>1, <2>2
      <3> PICK m, p : m = r.slot - 1 /\ p = [stage |-> s, slot |-> m]
          OBVIOUS
      <3>2. m \in 0..Len(q) - 1 /\ m \in 0..2 /\ m + 1 = r.slot /\ p.stage = s /\ p.slot = m
        <4> PICK k, l : k = r.slot /\ l = Len(q)
            OBVIOUS
        <4>1. k \in 1..l /\ l \in 1..2 /\ m = k - 1
            BY <1>2, <3>1
        <4>2. m \in 0..l - 1 /\ m \in 0..2 /\ m + 1 = k
            BY ONLY <4>1
        <4> QED
            BY <4>2
      <3>3. Holds(p)'
          BY <1>1, <1>2, <1>3, <1>4, <1>5, <3>2 DEF Holds
      <3>4. f[p] = r
          BY <1>1, <2>1, <2>2, <3>2
      <3> QED
          BY <3>3, <3>4, PlaceHoldsNext
    <2>3. CASE r.stage # s
      <3>1. f[r] = r
          BY <2>1, <2>3
      <3>2. gpThread'[r.stage] = gpThread[r.stage]
          BY <1>5, <2>1, <2>3
      <3>3. r.slot # 0 => gpQueue'[r.stage - 1] = gpQueue[r.stage - 1]
        <4> PICK t : t = r.stage - 1
            OBVIOUS
        <4>1. r.slot # 0 => t \in 0..gpCount - 2 /\ t # j
            BY <1>1, <2>1, <2>3
        <4> QED
            BY <1>5, <4>1
      <3>4. Holds(r)'
        <4>1. r.slot = 0 => gpThread'[r.stage].pc # "take"
            BY <2>1, <3>2
        <4>2. r.slot > 0 => r.stage > 0 /\ r.slot <= Len(gpQueue'[r.stage - 1])
            BY <2>1, <3>3
        <4> QED
            BY <1>3, <2>1, <4>1, <4>2 DEF Holds
      <3> QED
          BY <3>1, <3>4, PlaceHoldsNext
    <2> QED
        BY <2>2, <2>3
  <1>11. PipelineExact'
    <2>1. PipelineExact /\ UNCHANGED <<gpIn, gpOut>>
        BY <1>3 DEF GpInv
    <2> QED
        BY ONLY <1>7, <1>8, <1>9, <1>10, <2>1, FramesMove
  <1> QED
      BY <1>6, <1>11 DEF GpInv

\* A frame goes from its thread to the end of the next queue: it stays where it is
\* among the others.
LEMMA GpSendInv == ASSUME GpInv, NEW s \in GpThreads, GpSend(s) PROVE GpInv'
  <1>1. GpShape /\ s \in 0..gpCount - 2 /\ gpCount \in Nat /\ s + 1 \in 1..gpCount - 1
      BY DEF GpInv, GpShape, GpThreads, GpLast, GpSend
  <1> PICK q, b : q = gpQueue[s] /\ b = gpThread[s].frame
      OBVIOUS
  <1> PICK l : l = Len(q)
      OBVIOUS
  <1>2. gpThread[s].pc = "pass" /\ q \in Seq(GpBufs) /\ b \in GpBufs /\ l \in {0, 1}
    <2>1. q \in Seq(GpBufs) /\ gpThread[s].pc = "pass" /\ Len(q) < 2
        BY <1>1 DEF GpShape, GpSend, GpQueueSize
    <2>2. l \in Nat /\ l < 2
        BY <2>1
    <2>3. b \in GpBufs
        BY <2>1 DEF GpInv, GpShape
    <2>4. l \in {0, 1}
        BY ONLY <2>2
    <2> QED
        BY <2>1, <2>3, <2>4
  <1>3. /\ gpThread' = [gpThread EXCEPT ![s] = GpIdle]
        /\ gpQueue' = [gpQueue EXCEPT ![s] = Append(q, b)]
        /\ UNCHANGED <<gpCount, gpHeap, gpIn, gpOut>>
      BY DEF GpSend
  <1>4. /\ Append(q, b) \in Seq(GpBufs) /\ Len(Append(q, b)) = l + 1 /\ Append(q, b)[l + 1] = b
        /\ \A i \in 1..l : Append(q, b)[i] = q[i]
      BY <1>2
  <1>5. /\ gpThread'[s] = GpIdle
        /\ \A t \in 0..gpCount - 1 : t # s => gpThread'[t] = gpThread[t]
        /\ gpQueue'[s] = Append(q, b)
        /\ \A t \in 0..gpCount - 2 : t # s => gpQueue'[t] = gpQueue[t]
      BY <1>1, <1>3 DEF GpShape, GpThreads, GpLast
  <1>6. GpShape'
    <2>1. GpIdle \in [pc : {"take", "work", "pass"}, frame : GpBufs \cup {0}]
        BY DEF GpIdle
    <2>2. \A t \in 0..gpCount - 2 : gpQueue'[t] \in Seq(GpBufs) /\ Len(gpQueue'[t]) <= 2
      <3> SUFFICES ASSUME NEW t \in 0..gpCount - 2
                   PROVE  gpQueue'[t] \in Seq(GpBufs) /\ Len(gpQueue'[t]) <= 2
          OBVIOUS
      <3>1. CASE t = s
        <4>1. l + 1 <= 2
            BY ONLY <1>2
        <4> QED
            BY <1>4, <1>5, <3>1, <4>1
      <3>2. CASE t # s
          BY <1>1, <1>5, <3>2 DEF GpShape
      <3> QED
          BY <3>1, <3>2
    <2>3. gpQueue' \in [0..gpCount - 2 -> Seq(GpBufs)]
        BY <1>1, <1>3, <1>4 DEF GpShape
    <2>4. gpThread' \in [GpThreads -> [pc : {"take", "work", "pass"}, frame : GpBufs \cup {0}]]
        BY <1>1, <1>3, <2>1 DEF GpShape
    <2>5. ASSUME NEW t \in GpThreads, gpThread'[t].pc # "take" PROVE gpThread'[t].frame \in GpBufs
      <3>1. t # s
          BY <1>5, <2>5 DEF GpIdle
      <3>2. gpThread'[t] = gpThread[t]
          BY <1>5, <3>1 DEF GpThreads, GpLast
      <3> QED
          BY <1>1, <2>5, <3>2 DEF GpShape
    <2> QED
        BY <1>1, <1>3, <2>2, <2>3, <2>4, <2>5 DEF GpShape, GpThreads, GpLast
  <1> PICK n, z : n = [stage |-> s + 1, slot |-> l + 1] /\ z = [stage |-> s, slot |-> 0]
      OBVIOUS
  <1> PICK f : f = [p \in [stage : 0..gpCount - 1, slot : 0..2] |-> IF p = n THEN z ELSE p]
      OBVIOUS
  <1>7. /\ n \in [stage : 0..gpCount - 1, slot : 0..2] /\ n.stage = s + 1 /\ n.slot = l + 1
        /\ z \in [stage : 0..gpCount - 1, slot : 0..2] /\ z.stage = s /\ z.slot = 0 /\ z # n
        /\ l + 1 > 0 /\ s + 1 > 0 /\ (s + 1) - 1 = s
    <2> PICK m, k : m = l + 1 /\ k = s + 1
        OBVIOUS
    <2>0. m = l + 1 /\ k = s + 1
        OBVIOUS
    <2>1. m \in 1..2 /\ k \in 1..gpCount - 1 /\ s \in 0..gpCount - 1 /\ k # s /\ k - 1 = s
      <3>1. s \in Int /\ gpCount \in Int /\ 0 <= s /\ s <= gpCount - 2
          BY <1>1
      <3> QED
          BY ONLY <1>2, <2>0, <3>1
    <2>2. n = [stage |-> k, slot |-> m] /\ z = [stage |-> s, slot |-> 0]
        BY Zenon
    <2>3. /\ n \in [stage : 0..gpCount - 1, slot : 0..2] /\ n.stage = k /\ n.slot = m
          /\ z \in [stage : 0..gpCount - 1, slot : 0..2] /\ z.stage = s /\ z.slot = 0
        BY ONLY <2>1, <2>2
    <2>4. m > 0 /\ k > 0 /\ z # n
        BY <2>1, <2>3
    <2> QED
        BY <2>1, <2>3, <2>4
  <1>8. z \in GpPlaces /\ GpFrameAt(z) = b /\ GpStagesBehind(z) = s + 1
      BY <1>1, <1>2, <1>7, PlaceHolds DEF Holds, GpFrameAt, GpStagesBehind
  <1>9. n \in GpPlaces' /\ GpFrameAt(n)' = b /\ GpStagesBehind(n)' = s + 1
    <2>1. Holds(n)'
        BY <1>1, <1>2, <1>3, <1>4, <1>5, <1>7 DEF Holds
    <2>2. GpFrameAt(n)' = b /\ GpStagesBehind(n)' = s + 1
        BY <1>4, <1>5, <1>7 DEF GpFrameAt, GpStagesBehind
    <2> QED
        BY <2>1, <2>2, PlaceHoldsNext
  <1>10. ASSUME NEW p, p # n, p # z
         PROVE  /\ p \in GpPlaces' <=> p \in GpPlaces
                /\ p \in GpPlaces => GpFrameAt(p)' = GpFrameAt(p) /\ GpStagesBehind(p)' = GpStagesBehind(p)
    <2>1. SUFFICES ASSUME p = [stage |-> p.stage, slot |-> p.slot], p.stage \in 0..gpCount - 1, p.slot \in 0..2
                   PROVE  /\ Holds(p)' <=> Holds(p)
                          /\ Holds(p) => GpFrameAt(p)' = GpFrameAt(p) /\ GpStagesBehind(p)' = GpStagesBehind(p)
      <3>1. \A x : x \in GpPlaces' \/ x \in GpPlaces \/ Holds(x) \/ Holds(x)' =>
               x = [stage |-> x.stage, slot |-> x.slot] /\ x.stage \in 0..gpCount - 1 /\ x.slot \in 0..2
          BY <1>3, PlaceHolds, PlaceHoldsNext DEF Holds
      <3> QED
          BY <3>1, PlaceHolds, PlaceHoldsNext
    <2>2. CASE p.slot = 0
      <3>1. p.stage # s
          BY <1>10, <2>1, <2>2
      <3>2. gpThread'[p.stage] = gpThread[p.stage]
          BY <1>5, <2>1, <3>1
      <3> QED
          BY <1>3, <2>1, <2>2, <3>2 DEF Holds, GpFrameAt, GpStagesBehind
    <2>3. CASE p.slot # 0
      <3> PICK t, i : t = p.stage - 1 /\ i = p.slot
          OBVIOUS
      <3>1. i \in {1, 2} /\ p.stage \in Nat /\ t + 1 = p.stage
          BY <1>1, <2>1, <2>3
      <3>2. CASE t # s
        <4>1. p.stage > 0 => gpQueue'[t] = gpQueue[t]
          <5>1. p.stage > 0 => t \in 0..gpCount - 2
              BY <1>1, <2>1
          <5> QED
              BY <1>5, <3>2, <5>1
        <4>2. Holds(p)' <=> Holds(p)
            BY <1>3, <2>1, <2>3, <3>1, <4>1 DEF Holds
        <4>3. Holds(p) => p.stage > 0
            BY <2>3, <3>1 DEF Holds
        <4> QED
            BY <2>3, <4>1, <4>2, <4>3 DEF GpFrameAt, GpStagesBehind
      <3>3. CASE t = s
        <4>1. i # l + 1
            BY <1>10, <2>1, <3>1, <3>3
        <4>2. i <= l <=> i <= l + 1
            BY <1>2, <3>1, <4>1
        <4>3. Len(gpQueue'[t]) = l + 1 /\ Len(gpQueue[t]) = l
            BY <1>4, <1>5, <3>3
        <4>4. Holds(p)' <=> Holds(p)
            BY <1>3, <2>1, <2>3, <3>1, <4>2, <4>3 DEF Holds
        <4>5. Holds(p) => i \in 1..l
            BY <1>2, <2>3, <3>1, <4>3 DEF Holds
        <4>6. i \in 1..l => gpQueue'[t][i] = gpQueue[t][i]
            BY <1>4, <1>5, <3>3
        <4> QED
            BY <2>3, <4>4, <4>5, <4>6 DEF GpFrameAt, GpStagesBehind
      <3> QED
          BY <3>2, <3>3
    <2> QED
        BY <2>2, <2>3
  <1>11. z \notin GpPlaces' /\ n \notin GpPlaces
    <2>1. ~ Holds(z)'
        BY <1>5, <1>7 DEF Holds, GpIdle
    <2>2. ~ Holds(n)
        BY <1>2, <1>7 DEF Holds
    <2> QED
        BY <2>1, <2>2, PlaceHolds, PlaceHoldsNext
  <1>12. ASSUME NEW p \in GpPlaces' PROVE f[p] = IF p = n THEN z ELSE p
    <2>1. p \in [stage : 0..gpCount - 1, slot : 0..2]
        BY <1>3, PlaceHoldsNext DEF Holds
    <2> QED
        BY <2>1
  <1>13. ASSUME NEW p \in GpPlaces'
         PROVE  /\ f[p] \in GpPlaces /\ No(p)' = No(f[p])
                /\ gpHeap'[GpFrameAt(p)'].by = [k \in 1..GpStagesBehind(p)' |-> k - 1]
    <2>1. f[p] \in GpPlaces /\ GpFrameAt(p)' = GpFrameAt(f[p]) /\ GpStagesBehind(p)' = GpStagesBehind(f[p])
        BY <1>8, <1>9, <1>10, <1>11, <1>12
    <2>2. gpHeap[GpFrameAt(f[p])].by = [k \in 1..GpStagesBehind(f[p]) |-> k - 1]
        BY <2>1 DEF GpInv, PipelineExact
    <2> QED
        BY <1>3, <2>1, <2>2 DEF No
  <1>14. ASSUME NEW p \in GpPlaces', NEW r \in GpPlaces', GpAhead(p, r) PROVE GpAhead(f[p], f[r])
    <2>1. ASSUME NEW x \in GpPlaces'
          PROVE  /\ x.stage \in Nat /\ x.slot \in Nat
                 /\ x.stage = s => x.slot > 0
                 /\ x.stage = s + 1 => x.slot <= l + 1
                 /\ x.stage = s + 1 /\ x.slot = l + 1 => x = n
      <3>1. Holds(x)'
          BY PlaceHoldsNext
      <3>2. /\ x = [stage |-> x.stage, slot |-> x.slot] /\ x.stage \in Nat /\ x.slot \in Nat
          BY <1>1, <1>3, <3>1 DEF Holds
      <3>3. x.stage = s => x.slot > 0
          BY <1>5, <3>1, <3>2 DEF Holds, GpIdle
      <3>4. x.stage = s + 1 => x.slot <= l + 1
          BY <1>2, <1>4, <1>5, <1>7, <3>1, <3>2 DEF Holds
      <3> QED
          BY <3>2, <3>3, <3>4
    <2>2. CASE p = n
      <3>1. r # n /\ (r.stage < s + 1 \/ (r.stage = s + 1 /\ r.slot > l + 1))
          BY <1>2, <1>7, <1>14, <2>1, <2>2 DEF GpAhead
      <3>2. r.stage < s \/ (r.stage = s /\ r.slot > 0)
          BY <1>1, <1>2, <2>1, <3>1
      <3> QED
          BY <1>7, <1>12, <2>2, <3>1, <3>2 DEF GpAhead
    <2>3. CASE p # n /\ r = n
      <3>1. p.stage > s + 1 \/ (p.stage = s + 1 /\ p.slot < l + 1)
          BY <1>7, <1>14, <2>3 DEF GpAhead
      <3>2. p.stage > s
          BY <1>1, <2>1, <3>1
      <3> QED
          BY <1>7, <1>12, <2>3, <3>2 DEF GpAhead
    <2>4. CASE p # n /\ r # n
        BY <1>12, <1>14, <2>4
    <2> QED
        BY <2>2, <2>3, <2>4
  <1>15. ASSUME NEW r \in GpPlaces PROVE \E p \in GpPlaces' : f[p] = r
      BY <1>9, <1>10, <1>11, <1>12
  <1>16. PipelineExact'
    <2>1. PipelineExact /\ UNCHANGED <<gpIn, gpOut>>
        BY <1>3 DEF GpInv
    <2> QED
        BY ONLY <1>13, <1>14, <1>15, <2>1, FramesMove
  <1> QED
      BY <1>6, <1>16 DEF GpInv

\* A stage works on its frame, and on no other's buffer.
LEMMA GpWorkInv == ASSUME GpInv, NEW s \in GpThreads, GpWork(s) PROVE GpInv'
  <1> PICK b, z : b = gpThread[s].frame /\ z = [stage |-> s, slot |-> 0]
      OBVIOUS
  <1>1. /\ GpShape /\ s \in 0..gpCount - 1 /\ gpThread[s].pc = "work" /\ b \in GpBufs
        /\ gpHeap[b].by \in Seq(Nat) /\ s \in Nat /\ gpHeap[b].no \in Nat
      BY DEF GpInv, GpShape, GpThreads, GpLast, GpWork
  <1>2. /\ gpHeap' = [gpHeap EXCEPT ![b].by = Append(@, s)]
        /\ gpThread' = [gpThread EXCEPT ![s].pc = "pass"]
        /\ UNCHANGED <<gpCount, gpQueue, gpIn, gpOut>>
      BY DEF GpWork
  <1>3. /\ gpHeap'[b] = [no |-> gpHeap[b].no, by |-> Append(gpHeap[b].by, s)]
        /\ \A c \in GpBufs : c # b => gpHeap'[c] = gpHeap[c]
        /\ gpHeap' \in [GpBufs -> [no : Nat, by : Seq(Nat)]]
    <2> PICK h, by : h = gpHeap[b] /\ by = Append(h.by, s)
        OBVIOUS
    <2>1. h = [no |-> h.no, by |-> h.by] /\ h.no \in Nat /\ by \in Seq(Nat) /\ gpHeap = [c \in GpBufs |-> gpHeap[c]]
        BY <1>1 DEF GpShape
    <2>2. gpHeap' = [gpHeap EXCEPT ![b].by = by]
        BY <1>2
    <2>3. gpHeap'[b] = [no |-> h.no, by |-> by] /\ \A c \in GpBufs : c # b => gpHeap'[c] = gpHeap[c]
        BY <1>1, <2>1, <2>2
    <2>4. gpHeap' = [c \in GpBufs |-> gpHeap'[c]]
        BY <2>1, <2>2
    <2>5. ASSUME NEW c \in GpBufs PROVE gpHeap'[c] \in [no : Nat, by : Seq(Nat)]
      <3>1. CASE c = b
        <4>1. [no |-> h.no, by |-> by] \in [no : Nat, by : Seq(Nat)]
            BY ONLY <2>1
        <4> QED
            BY <2>3, <3>1, <4>1
      <3>2. CASE c # b
          BY <1>1, <2>3, <3>2 DEF GpShape
      <3> QED
          BY <3>1, <3>2
    <2> QED
        BY <2>3, <2>4, <2>5
  <1>4. /\ gpThread'[s] = [pc |-> "pass", frame |-> b]
        /\ \A t \in GpThreads : t # s => gpThread'[t] = gpThread[t]
        /\ gpThread' \in [GpThreads -> [pc : {"take", "work", "pass"}, frame : GpBufs \cup {0}]]
      BY <1>1, <1>2 DEF GpShape
  <1>5. GpShape'
    <2>1. ASSUME NEW t \in GpThreads, gpThread'[t].pc # "take" PROVE gpThread'[t].frame \in GpBufs
      <3>1. CASE t = s
          BY <1>1, <1>4, <3>1
      <3>2. CASE t # s
        <4>1. gpThread'[t] = gpThread[t]
            BY <1>4, <3>2
        <4> QED
            BY <1>1, <2>1, <4>1 DEF GpShape
      <3> QED
          BY <3>1, <3>2
    <2> QED
        BY <1>1, <1>2, <1>3, <1>4, <2>1 DEF GpShape, GpThreads, GpLast
  <1>6. ASSUME NEW p
        PROVE  /\ p \in GpPlaces' <=> p \in GpPlaces
               /\ p \in GpPlaces => GpFrameAt(p)' = GpFrameAt(p)
               /\ p \in GpPlaces /\ p # z => GpStagesBehind(p)' = GpStagesBehind(p)
    <2>1. Holds(p)' <=> Holds(p)
        BY <1>1, <1>2, <1>4 DEF Holds, GpThreads, GpLast
    <2>2. Holds(p) => GpFrameAt(p)' = GpFrameAt(p)
        BY <1>1, <1>2, <1>4 DEF Holds, GpFrameAt, GpThreads, GpLast
    <2>3. Holds(p) /\ p # z => GpStagesBehind(p)' = GpStagesBehind(p)
        BY <1>1, <1>2, <1>4 DEF Holds, GpStagesBehind, GpThreads, GpLast
    <2> QED
        BY <2>1, <2>2, <2>3, PlaceHolds, PlaceHoldsNext
  <1>7. z \in GpPlaces /\ GpFrameAt(z) = b /\ GpStagesBehind(z) = s /\ GpStagesBehind(z)' = s + 1
    <2>1. Holds(z)
        BY <1>1 DEF Holds
    <2> QED
        BY <1>1, <1>4, <2>1, PlaceHolds DEF GpFrameAt, GpStagesBehind
  <1>8. ASSUME NEW p \in GpPlaces, p # z
        PROVE  /\ No(p)' = No(p)
               /\ gpHeap'[GpFrameAt(p)'].by = [k \in 1..GpStagesBehind(p)' |-> k - 1]
    <2>1. GpFrameAt(p) # b /\ GpFrameAt(p) \in GpBufs
        BY <1>1, <1>7, <1>8, PlacesDiffer, PlaceFrame
    <2>2. gpHeap[GpFrameAt(p)].by = [k \in 1..GpStagesBehind(p) |-> k - 1]
        BY DEF GpInv, PipelineExact
    <2> QED
        BY <1>3, <1>6, <1>8, <2>1, <2>2 DEF No
  <1>9. /\ No(z)' = No(z)
        /\ gpHeap'[GpFrameAt(z)'].by = [k \in 1..GpStagesBehind(z)' |-> k - 1]
    <2> PICK by : by = gpHeap[b].by
        OBVIOUS
    <2>1. by = [k \in 1..s |-> k - 1] /\ by \in Seq(Nat)
        BY <1>1, <1>7 DEF GpInv, PipelineExact
    <2>2. Len(by) = s
        BY <1>1, <2>1
    <2>3. Append(by, s) = [k \in 1..s + 1 |-> k - 1]
      <3>1. /\ Append(by, s) = [k \in 1..s + 1 |-> Append(by, s)[k]]
            /\ Append(by, s)[s + 1] = s /\ \A k \in 1..s : Append(by, s)[k] = by[k]
          BY <1>1, <2>1, <2>2
      <3>2. \A k \in 1..s + 1 : Append(by, s)[k] = k - 1
        <4> SUFFICES ASSUME NEW k \in 1..s + 1 PROVE Append(by, s)[k] = k - 1
            OBVIOUS
        <4>1. CASE k = s + 1
          <5>1. Append(by, s)[k] = s
              BY <3>1, <4>1, Zenon
          <5>2. s = k - 1
              BY ONLY <1>1, <4>1
          <5> QED
              BY <5>1, <5>2
        <4>2. CASE k # s + 1
          <5>1. k \in 1..s
              BY <1>1, <4>2
          <5> QED
              BY <2>1, <3>1, <5>1
        <4> QED
            BY <4>1, <4>2
      <3> QED
          BY <3>1, <3>2
    <2>4. GpFrameAt(z)' = b /\ GpStagesBehind(z)' = s + 1
        BY <1>6, <1>7
    <2>5. gpHeap'[b].no = gpHeap[b].no /\ gpHeap'[b].by = Append(by, s)
      <3> PICK h, g : h = gpHeap[b].no /\ g = Append(by, s)
          OBVIOUS
      <3>1. gpHeap'[b] = [no |-> h, by |-> g]
          BY <1>3
      <3> QED
          BY ONLY <3>1, h = gpHeap[b].no, g = Append(by, s), by = gpHeap[b].by
    <2>6. No(z)' = No(z)
        BY <1>7, <2>4, <2>5 DEF No
    <2> QED
        BY <2>3, <2>4, <2>5, <2>6
  <1> PICK f : f = [p \in GpPlaces |-> p]
      OBVIOUS
  <1>10. ASSUME NEW p \in GpPlaces'
         PROVE  /\ f[p] \in GpPlaces /\ f[p] = p /\ No(p)' = No(f[p])
                /\ gpHeap'[GpFrameAt(p)'].by = [k \in 1..GpStagesBehind(p)' |-> k - 1]
      BY <1>6, <1>8, <1>9
  <1>11. PipelineExact'
    <2>1. PipelineExact /\ UNCHANGED <<gpIn, gpOut>>
        BY <1>2 DEF GpInv
    <2>2. \A q \in GpPlaces : \E p \in GpPlaces' : f[p] = q
        BY <1>6, <1>10
    <2> QED
        BY ONLY <1>10, <2>1, <2>2, FramesMove
  <1> QED
      BY <1>5, <1>11 DEF GpInv

\* Steps that leave the places but one: what is in the others stays, and is behind
\* what has been handed back.
LEMMA GpRest ==
  ASSUME GpInv, GpShape', NEW z, NEW out, gpIn' = gpIn, gpOut' = out, gpOut <= out, out <= gpIn,
         \A p : p \in GpPlaces' <=> p \in GpPlaces /\ p # z,
         \A p \in GpPlaces' :
            /\ GpFrameAt(p)' = GpFrameAt(p) /\ GpStagesBehind(p)' = GpStagesBehind(p)
            /\ gpHeap'[GpFrameAt(p)] = gpHeap[GpFrameAt(p)] /\ No(p) > out,
         \A n \in out + 1..gpIn : z \in GpPlaces => No(z) # n
  PROVE  GpInv'
  <1>1. out \in Nat /\ gpOut \in Nat /\ gpIn \in Nat
      BY DEF GpInv, GpShape
  <1>2. ASSUME NEW p \in GpPlaces'
        PROVE  /\ p \in GpPlaces /\ No(p)' = No(p) /\ No(p) \in out + 1..gpIn
               /\ gpHeap'[GpFrameAt(p)'].by = [k \in 1..GpStagesBehind(p)' |-> k - 1]
    <2>1. /\ No(p) \in gpOut + 1..gpIn
          /\ gpHeap[GpFrameAt(p)].by = [k \in 1..GpStagesBehind(p) |-> k - 1]
        BY DEF GpInv, PipelineExact, No
    <2>2. No(p) > out
        OBVIOUS
    <2>3. No(p) \in out + 1..gpIn
        BY ONLY <1>1, <2>1, <2>2
    <2>4. No(p)' = No(p)
        BY DEF No
    <2>5. gpHeap'[GpFrameAt(p)'].by = [k \in 1..GpStagesBehind(p)' |-> k - 1]
      <3>1. gpHeap'[GpFrameAt(p)'] = gpHeap[GpFrameAt(p)] /\ GpStagesBehind(p)' = GpStagesBehind(p)
          OBVIOUS
      <3> QED
          BY <2>1, <3>1
    <2> QED
        BY <2>3, <2>4, <2>5
  <1>3. ASSUME NEW n \in out + 1..gpIn PROVE \E p \in GpPlaces' : No(p)' = n
    <2>1. n \in gpOut + 1..gpIn
        BY <1>1
    <2>2. PICK p \in GpPlaces : No(p) = n
        BY <2>1 DEF GpInv, PipelineExact, No
    <2>3. p # z
        BY <2>2
    <2> QED
        BY <1>2, <2>2, <2>3
  <1>4. ASSUME NEW p \in GpPlaces', NEW q \in GpPlaces', GpAhead(p, q) PROVE No(p)' < No(q)'
    <2>1. No(p) < No(q)
        BY <1>2, <1>4 DEF GpInv, PipelineExact, No
    <2> QED
        BY <1>2, <2>1
  <1> QED
      BY <1>2, <1>3, <1>4 DEF GpInv, PipelineExact, No

\* The last stage has the oldest frame.
LEMMA GpOutputInv == ASSUME GpInv, GpOutput PROVE GpInv'
  <1> PICK s, b, z : s = GpLast /\ b = gpThread[s].frame /\ z = [stage |-> s, slot |-> 0]
      OBVIOUS
  <1>1. /\ GpShape /\ s = gpCount - 1 /\ s \in 0..gpCount - 1 /\ s \in GpThreads
        /\ gpThread[s].pc = "pass" /\ b \in GpBufs /\ gpHeap[b].no \in Nat
      BY DEF GpInv, GpShape, GpThreads, GpLast, GpOutput
  <1>2. /\ gpHeap' = [gpHeap EXCEPT ![b] = NoFrame] \/ gpHeap' = gpHeap
        /\ gpThread' = [gpThread EXCEPT ![s] = GpIdle]
        /\ gpOut' = gpHeap[b].no
        /\ UNCHANGED <<gpCount, gpQueue, gpIn>>
      BY DEF GpOutput
  <1>3. /\ \A c \in GpBufs : c # b => gpHeap'[c] = gpHeap[c]
        /\ gpHeap' \in [GpBufs -> [no : Nat, by : Seq(Nat)]]
    <2>1. NoFrame \in [no : Nat, by : Seq(Nat)]
        BY DEF NoFrame
    <2>2. CASE gpHeap' = gpHeap
        BY <1>1, <2>2 DEF GpShape
    <2>3. CASE gpHeap' = [gpHeap EXCEPT ![b] = NoFrame]
        BY <1>1, <2>1, <2>3 DEF GpShape
    <2> QED
        BY <1>2, <2>2, <2>3
  <1>4. /\ gpThread'[s] = GpIdle
        /\ \A t \in GpThreads : t # s => gpThread'[t] = gpThread[t]
        /\ gpThread' \in [GpThreads -> [pc : {"take", "work", "pass"}, frame : GpBufs \cup {0}]]
      BY <1>1, <1>2 DEF GpShape, GpIdle
  <1>5. GpShape'
      BY <1>1, <1>2, <1>3, <1>4 DEF GpShape, GpThreads, GpLast, GpIdle
  <1>6. ASSUME NEW p
        PROVE  /\ p \in GpPlaces' <=> p \in GpPlaces /\ p # z
               /\ p \in GpPlaces' => GpFrameAt(p)' = GpFrameAt(p) /\ GpStagesBehind(p)' = GpStagesBehind(p)
    <2>1. Holds(p)' <=> Holds(p) /\ p # z
        BY <1>1, <1>2, <1>4 DEF Holds, GpThreads, GpLast, GpIdle
    <2>2. Holds(p)' => GpFrameAt(p)' = GpFrameAt(p)
        BY <1>1, <1>2, <1>4 DEF Holds, GpFrameAt, GpThreads, GpLast, GpIdle
    <2>3. Holds(p)' => GpStagesBehind(p)' = GpStagesBehind(p)
        BY <1>1, <1>2, <1>4 DEF Holds, GpStagesBehind, GpThreads, GpLast, GpIdle
    <2> QED
        BY <2>1, <2>2, <2>3, PlaceHolds, PlaceHoldsNext
  <1>7. z \in GpPlaces /\ No(z) = gpHeap[b].no
    <2>1. Holds(z)
        BY <1>1 DEF Holds
    <2> QED
        BY <2>1, PlaceHolds DEF No, GpFrameAt
  <1>8. ASSUME NEW p \in GpPlaces, p # z PROVE GpFrameAt(p) # b /\ GpFrameAt(p) \in GpBufs /\ No(p) > No(z)
    <2>1. Holds(p) /\ GpShape
        BY <1>1, PlaceHolds
    <2>2. ~ GpAhead(p, z)
        BY <1>1, <2>1 DEF GpAhead, Holds
    <2>3. GpAhead(z, p) /\ GpFrameAt(p) # GpFrameAt(z)
        BY <1>7, <1>8, <2>2, PlacesDiffer
    <2>4. GpFrameAt(z) = b
        BY DEF GpFrameAt
    <2>5. No(z) < No(p)
        BY <1>7, <2>3 DEF GpInv, PipelineExact, No
    <2>6. No(p) \in Nat /\ No(z) \in Nat /\ GpFrameAt(p) \in GpBufs
        BY <1>7, <2>1, PlaceFrame
    <2> QED
        BY <2>3, <2>4, <2>5, <2>6
  <1>9. No(z) \in gpOut + 1..gpIn
      BY <1>7 DEF GpInv, PipelineExact, No
  <1> PICK out : out = No(z)
      OBVIOUS
  <1>10. gpIn' = gpIn /\ gpOut' = out /\ gpOut <= out /\ out <= gpIn
    <2>1. gpOut \in Nat /\ gpIn \in Nat
        BY <1>1 DEF GpShape
    <2> QED
        BY <1>2, <1>7, <1>9, <2>1
  <1>11. ASSUME NEW p \in GpPlaces'
         PROVE  /\ GpFrameAt(p)' = GpFrameAt(p) /\ GpStagesBehind(p)' = GpStagesBehind(p)
                /\ gpHeap'[GpFrameAt(p)] = gpHeap[GpFrameAt(p)] /\ No(p) > out
      BY <1>3, <1>6, <1>8
  <1>12. \A n \in out + 1..gpIn : No(z) # n
    <2>1. out \in Int /\ gpIn \in Int
        BY <1>1, <1>9 DEF GpShape
    <2> QED
        BY <2>1
  <1>13. \A p : p \in GpPlaces' <=> p \in GpPlaces /\ p # z
      BY <1>6
  <1> QED
      BY ONLY GpInv, <1>5, <1>10, <1>11, <1>12, <1>13, GpRest

\* The application frees what it has kept, which is not in the pipeline.
LEMMA GpAppFreeInv == ASSUME GpInv, GpAppFree PROVE GpInv'
  <1> PICK b \in GpBufs : /\ gpHeap[b] # NoFrame /\ gpHeap[b].no <= gpOut
                          /\ gpHeap' = [gpHeap EXCEPT ![b] = NoFrame]
      BY DEF GpAppFree
  <1>1. UNCHANGED <<gpCount, gpThread, gpQueue, gpIn, gpOut>> /\ GpShape
      BY DEF GpAppFree, GpInv
  <1>2. /\ \A c \in GpBufs : c # b => gpHeap'[c] = gpHeap[c]
        /\ gpHeap' \in [GpBufs -> [no : Nat, by : Seq(Nat)]]
    <2>1. NoFrame \in [no : Nat, by : Seq(Nat)]
        BY DEF NoFrame
    <2> QED
        BY <1>1, <2>1 DEF GpShape
  <1>3. GpShape'
      BY <1>1, <1>2 DEF GpShape, GpThreads, GpLast
  <1>4. ASSUME NEW p
        PROVE  /\ p \in GpPlaces' <=> p \in GpPlaces
               /\ p \in GpPlaces => GpFrameAt(p)' = GpFrameAt(p) /\ GpStagesBehind(p)' = GpStagesBehind(p)
      BY <1>1 DEF GpPlaces, GpThreads, GpLast, GpFrameAt, GpStagesBehind
  <1>5. ASSUME NEW p \in GpPlaces
        PROVE  GpFrameAt(p) # b /\ GpFrameAt(p) \in GpBufs /\ No(p) > gpOut
    <2>1. /\ No(p) \in gpOut + 1..gpIn /\ GpFrameAt(p) \in GpBufs
          /\ gpOut \in Nat /\ gpIn \in Nat
        BY <1>1, PlaceFrame DEF GpInv, PipelineExact, No, GpShape
    <2>2. No(p) > gpOut
        BY ONLY <2>1
    <2>3. gpHeap[b].no \in Nat
        BY <1>1 DEF GpShape
    <2> QED
        BY <2>1, <2>2, <2>3 DEF No
  <1> PICK out, z : out = gpOut /\ z \notin GpPlaces
    <2> PICK y : y = [stage |-> 0, slot |-> 3]
        OBVIOUS
    <2>1. ~ Holds(y)
        BY DEF Holds
    <2> QED
        BY <2>1, PlaceHolds
  <1>6. gpIn' = gpIn /\ gpOut' = out /\ gpOut <= out /\ out <= gpIn
      BY <1>1 DEF GpInv, GpShape, PipelineExact
  <1>7. \A p : p \in GpPlaces' <=> p \in GpPlaces /\ p # z
      BY <1>4
  <1>8. ASSUME NEW p \in GpPlaces'
        PROVE  /\ GpFrameAt(p)' = GpFrameAt(p) /\ GpStagesBehind(p)' = GpStagesBehind(p)
               /\ gpHeap'[GpFrameAt(p)] = gpHeap[GpFrameAt(p)] /\ No(p) > out
      BY <1>2, <1>4, <1>5
  <1>9. \A n \in out + 1..gpIn : z \in GpPlaces => No(z) # n
      OBVIOUS
  <1> QED
      BY ONLY GpInv, <1>3, <1>6, <1>7, <1>8, <1>9, GpRest

\* Whatever the number of stages, what has been given and not handed back is in the
\* pipeline, in its order, each in a buffer of its own with the work of the stages
\* that it has passed.
THEOREM PipelineIsExact == GpSpec => []PipelineExact
  <1>1. ASSUME GpInit PROVE GpInv
    <2>1. gpCount \in Nat \ {0} /\ gpIn = 0 /\ gpOut = 0 /\ \A s \in GpThreads : gpThread[s] = GpIdle
        BY <1>1, GpAssumption DEF GpInit
    <2>2. GpShape
        BY <1>1, <2>1 DEF GpInit, GpShape, GpIdle, NoFrame
    <2>3. GpPlaces = {}
      <3> SUFFICES ASSUME NEW p, Holds(p) PROVE FALSE
          BY PlaceHolds
      <3>1. p.slot # 0
          BY <2>1 DEF Holds, GpIdle, GpThreads, GpLast
      <3> PICK t : t = p.stage - 1
          OBVIOUS
      <3>2. t \in 0..gpCount - 2 /\ p.slot <= Len(gpQueue[t]) /\ p.slot > 0 /\ p.slot \in 0..2
          BY <2>1, <3>1 DEF Holds
      <3>3. gpQueue[t] = <<>>
          BY <1>1, <3>2 DEF GpInit
      <3>4. Len(gpQueue[t]) = 0
          BY <3>3
      <3> QED
          BY <3>2, <3>4
    <2>4. gpOut + 1..gpIn = {} /\ gpOut <= gpIn
        BY <2>1
    <2> QED
        BY <2>2, <2>3, <2>4 DEF GpInv, PipelineExact
  <1>2. GpInv /\ [GpNext]_gpVars => GpInv'
    <2>1. ASSUME GpInv, UNCHANGED gpVars PROVE GpInv'
      <3>1. GpShape'
          BY <2>1 DEF GpInv, gpVars, GpShape, GpThreads, GpLast
      <3>2. PipelineExact'
        <4> PICK f : f = [p \in GpPlaces |-> p]
            OBVIOUS
        <4>1. \A p : p \in GpPlaces' <=> p \in GpPlaces
            BY <2>1 DEF gpVars, GpPlaces, GpThreads, GpLast
        <4>2. \A p : /\ GpFrameAt(p)' = GpFrameAt(p) /\ GpStagesBehind(p)' = GpStagesBehind(p)
                     /\ No(p)' = No(p)
            BY <2>1 DEF gpVars, GpFrameAt, GpStagesBehind, No
        <4>3. ASSUME NEW p \in GpPlaces'
              PROVE  /\ f[p] = p /\ f[p] \in GpPlaces /\ No(p)' = No(f[p])
                     /\ gpHeap'[GpFrameAt(p)'].by = [k \in 1..GpStagesBehind(p)' |-> k - 1]
            BY <2>1, <4>1, <4>2 DEF GpInv, gpVars, PipelineExact
        <4>4. \A q \in GpPlaces : \E p \in GpPlaces' : f[p] = q
            BY <4>1, <4>3
        <4>5. PipelineExact /\ UNCHANGED <<gpIn, gpOut>>
            BY <2>1 DEF GpInv, gpVars
        <4> QED
            BY ONLY <4>3, <4>4, <4>5, FramesMove
      <3> QED
          BY <3>1, <3>2 DEF GpInv
    <2> QED
        BY <2>1, GpInputInv, GpReceiveInv, GpWorkInv, GpSendInv, GpOutputInv, GpAppFreeInv
           DEF GpNext, GpStageCode
  <1>3. GpInv => PipelineExact
      BY DEF GpInv
  <1> QED
      BY <1>1, <1>2, <1>3, PTL DEF GpSpec

(***************************************************************************)
(* The cache of access points.  Each loop is followed by the number of its *)
(* rounds (LoopRuns gives the values of its definition, CountUp carries a  *)
(* fact from one round to the next).  sift_down keeps a heap but at the    *)
(* entry it has come to (Sifting), heapify makes one from the leaves up,   *)
(* heapsort puts the weakest that is left behind the others: what comes    *)
(* out are the same entries, those in use first and in order.  The reports *)
(* of a scan keep the entries in use together and one per access point.    *)
(***************************************************************************)
Aps == [bssid : ApBssids \cup {0}, age : Nat, rssi : Int, failed : Nat, profile : BOOLEAN]
Lists == [ApIndex -> Aps]

\* Entry x does not belong before y.
AtMost(x, y) == ~ (Active(x) /\ (Active(y) => x.rssi > y.rssi))

OneEach(s) ==
  \A i, j \in ApIndex : i # j /\ Active(s[i]) /\ Active(s[j]) => s[i].bssid # s[j].bssid

\* The heap in a part of a list: a child belongs before its parent.
Child(p, c) == c = 2 * p + 1 \/ c = 2 * p + 2
HeapFrom(s, first, last) ==
  \A p, c \in first..last : Child(p, c) => AtMost(s[p], s[c])

\* What sift_down keeps: the heap but at its root, where it has come to, and what
\* is above it is weaker than what is below it.
Sifting(s, first, last, P, loop, n) ==
  LET t == loop.data
      r == loop.root
  IN /\ loop \in [data : Lists, root : first..last]
     /\ \A p, c \in first..last : Child(p, c) /\ p # r => AtMost(t[p], t[c])
     /\ \A p, c \in first..last : Child(p, r) /\ Child(r, c) => AtMost(t[p], t[c])
     /\ r >= first + n \/ \A c \in first..last : Child(r, c) => AtMost(t[r], t[c])
     /\ \A i \in ApIndex : i \notin first..last => t[i] = s[i]
     /\ \A i \in first..last : t[i] \in P
     /\ OneEach(s) => OneEach(t)

LEMMA NatLeast == ASSUME NEW T \in SUBSET Nat, T # {} PROVE \E m \in T : \A n \in T : m <= n
  <1>1. PICK x \in T : \A y \in T : ~ (<<y, x>> \in OpToRel(<, Nat))
      BY NatLessThanWellFounded, WFMin
  <1>2. \A y \in T : ~ (y < x)
      BY <1>1 DEF OpToRel
  <1> QED
      BY <1>2

\* Counting up to k.
LEMMA CountUp ==
  ASSUME NEW k \in Nat, NEW G, 0 \in G, \A n \in 1..k : n - 1 \in G => n \in G
  PROVE  k \in G
  <1> DEFINE T == {n \in 0..k : n \notin G}
  <1> SUFFICES ASSUME T # {} PROVE FALSE
      OBVIOUS
  <1>1. T \in SUBSET Nat
      OBVIOUS
  <1>2. PICK m \in T : \A n \in T : m <= n
      BY <1>1, NatLeast
  <1>3. m \in 1..k /\ m - 1 \in 0..k /\ ~ (m <= m - 1)
    <2>1. m # 0
        BY <1>2
    <2> QED
        BY <2>1
  <1>4. m - 1 \in G
      BY <1>2, <1>3
  <1> QED
      BY <1>3, <1>4

\* The rounds of a loop, given by their number and the state before them, and the
\* states f of the loop.
Rounds(k, V) == [(1..k) \X V -> V]
Runs(f, k, V, x, step) ==
  f \in [0..k -> V] /\ f[0] = x /\ \A n \in 1..k : f[n] = step[<<n, f[n - 1]>>]

\* A loop of k rounds has values, which are those of its definition.
LEMMA LoopRuns ==
  ASSUME NEW k \in Nat, NEW V, NEW x \in V, NEW step \in Rounds(k, V)
  PROVE  \E f : Runs(f, k, V, x, step)
  <1> DEFINE Run(f, m) == f \in [0..m -> V] /\ f[0] = x /\ \A n \in 1..m : f[n] = step[<<n, f[n - 1]>>]
  <1> DEFINE G == {m \in 0..k : \E f : Run(f, m)}
  <1>1. 0 \in G
    <2>1. Run([n \in 0..0 |-> x], 0)
        OBVIOUS
    <2> HIDE DEF Run
    <2> QED
        BY <2>1
  <1>2. ASSUME NEW m \in 1..k, m - 1 \in G PROVE m \in G
    <2>1. PICK f : Run(f, m - 1)
        BY <1>2
    <2>2. f \in [0..m - 1 -> V] /\ m - 1 \in 0..m - 1 /\ m \in Nat
        BY <2>1
    <2> PICK v : v = step[<<m, f[m - 1]>>]
        OBVIOUS
    <2> PICK g : g = [n \in 0..m |-> IF n = m THEN v ELSE f[n]]
        OBVIOUS
    <2>3. v \in V
        BY <2>2 DEF Rounds
    <2>4. g \in [0..m -> V]
      <3>1. ASSUME NEW n \in 0..m, n # m PROVE f[n] \in V
          BY <2>2, <3>1
      <3> QED
          BY <2>3, <3>1
    <2>5. g[0] = x
        BY <2>1, <2>2
    <2>6. ASSUME NEW n \in 1..m PROVE g[n] = step[<<n, g[n - 1]>>]
      <3>1. n - 1 \in 0..m - 1 /\ n - 1 # m /\ n - 1 \in 0..m /\ n \in 0..m
          BY <2>2
      <3>2. g[n - 1] = f[n - 1]
          BY <3>1
      <3>3. CASE n = m
        <4>1. g[n] = v
            BY <3>1, <3>3
        <4> QED
            BY <3>2, <3>3, <4>1
      <3>4. CASE n # m
        <4>1. n \in 1..m - 1
            BY <2>2, <3>4
        <4>2. f[n] = step[<<n, f[n - 1]>>]
            BY <2>1, <4>1
        <4>3. g[n] = f[n]
            BY <3>1, <3>4
        <4> QED
            BY <3>2, <4>2, <4>3
      <3> QED
          BY <3>3, <3>4
    <2>7. Run(g, m)
        BY <2>4, <2>5, <2>6
    <2> HIDE DEF Run
    <2> QED
        BY <2>7
  <1>3. k \in G
    <2> HIDE DEF G
    <2> QED
        BY <1>1, <1>2, CountUp
  <1> QED
      BY <1>3 DEF Runs

LEMMA Slots == ApSlots \in Nat \ {0} /\ ApIndex = 0..ApSlots - 1 /\ ApIndex \subseteq Nat
    BY ApAssumption DEF ApIndex

LEMMA AtMostOrder ==
  ASSUME NEW x \in Aps, NEW y \in Aps, NEW z \in Aps
  PROVE  /\ AtMost(x, x) /\ (AtMost(x, y) \/ AtMost(y, x))
         /\ AtMost(x, y) /\ AtMost(y, z) => AtMost(x, z)
    BY DEF AtMost, Aps, Active

LEMMA Before == \A s, a, b : ap_cmp_before(s, a, b) <=> ~ AtMost(s[a], s[b])
    BY DEF ap_cmp_before, AtMost

Exchanged(s, a, b, t) ==
  /\ t \in Lists /\ t[a] = s[b] /\ t[b] = s[a]
  /\ \A i \in ApIndex : i # a /\ i # b => t[i] = s[i]
  /\ OneEach(s) => OneEach(t)

LEMMA Swapped ==
  ASSUME NEW s \in Lists, NEW a \in ApIndex, NEW b \in ApIndex
  PROVE  Exchanged(s, a, b, ap_swap(s, a, b))
  <1> PICK t : t = ap_swap(s, a, b)
      OBVIOUS
  <1>1. /\ t \in Lists /\ t[a] = s[b] /\ t[b] = s[a]
        /\ \A i \in ApIndex : i # a /\ i # b => t[i] = s[i]
      BY DEF ap_swap, Lists
  <1>2. ASSUME OneEach(s) PROVE OneEach(t)
    <2> PICK f : f = [i \in ApIndex |-> IF i = a THEN b ELSE IF i = b THEN a ELSE i]
        OBVIOUS
    <2>1. \A i \in ApIndex : f[i] \in ApIndex /\ t[i] = s[f[i]]
        BY <1>1
    <2>2. \A i, j \in ApIndex : i # j => f[i] # f[j]
        OBVIOUS
    <2> QED
        BY ONLY <1>2, <2>1, <2>2 DEF OneEach
  <1> QED
      BY <1>1, <1>2 DEF Exchanged

\* A round leads from one state of the loop to the next.
LEMMA SiftRound ==
  ASSUME NEW s \in Lists, NEW first \in ApIndex, NEW last \in ApIndex, NEW P,
         NEW loop, NEW n \in Nat \ {0}, Sifting(s, first, last, P, loop, n - 1)
  PROVE  Sifting(s, first, last, P, sift_round(loop, last), n)
  <1> PICK t, r : t = loop.data /\ r = loop.root
      OBVIOUS
  <1>1. /\ t \in Lists /\ r \in first..last /\ loop = [data |-> t, root |-> r]
        /\ \A p, c \in first..last : Child(p, c) /\ p # r => AtMost(t[p], t[c])
        /\ \A p, c \in first..last : Child(p, r) /\ Child(r, c) => AtMost(t[p], t[c])
        /\ r >= first + n - 1 \/ \A c \in first..last : Child(r, c) => AtMost(t[r], t[c])
        /\ \A i \in ApIndex : i \notin first..last => t[i] = s[i]
        /\ \A i \in first..last : t[i] \in P
        /\ OneEach(s) => OneEach(t)
      BY DEF Sifting
  <1>2. /\ first \in Nat /\ last \in Nat /\ r \in Nat /\ first..last \subseteq ApIndex
        /\ \A i \in first..last : t[i] \in Aps
    <2>1. first \in Nat /\ last \in Nat /\ first..last \subseteq ApIndex
        BY Slots
    <2> QED
        BY <1>1, <2>1 DEF Lists
  <1>3. ASSUME \A c \in first..last : Child(r, c) => AtMost(t[r], t[c])
        PROVE  Sifting(s, first, last, P, loop, n)
      BY <1>1, <1>3 DEF Sifting
  <1> PICK left : left = 2 * r + 1
      OBVIOUS
  <1> PICK child : child = IF left + 1 <= last /\ ap_cmp_before(t, left, left + 1) THEN left + 1 ELSE left
      OBVIOUS
  <1>4. sift_round(loop, last) = IF left <= last /\ ap_cmp_before(t, r, child)
                                 THEN [data |-> ap_swap(t, r, child), root |-> child] ELSE loop
      BY <1>1 DEF sift_round, left_child_index
  <1>5. CASE left > last
    <2>1. \A c \in first..last : ~ Child(r, c)
        BY <1>2, <1>5 DEF Child
    <2>2. sift_round(loop, last) = loop
        BY <1>2, <1>4, <1>5
    <2> QED
        BY <1>3, <2>1, <2>2
  <1>6. CASE left <= last
    <2>1. child \in first..last /\ Child(r, child) /\ child > r /\ (child = left \/ child = left + 1)
        BY <1>1, <1>2, <1>6 DEF Child
    <2>2. ASSUME NEW d \in first..last, Child(r, d) PROVE AtMost(t[child], t[d])
      <3>1. d = left \/ d = left + 1
          BY <1>2, <2>2 DEF Child
      <3>2. CASE d = child
          BY <1>2, <2>1, <3>2, AtMostOrder
      <3>3. CASE d # child /\ d = left
        <4>1. child = left + 1 /\ ~ AtMost(t[left], t[left + 1])
            BY <3>3, Before
        <4> QED
            BY <1>2, <2>1, <3>3, <4>1, AtMostOrder
      <3>4. CASE d # child /\ d = left + 1
        <4>1. child = left /\ AtMost(t[left], t[left + 1])
          <5>1. left + 1 <= last
              BY <1>2, <3>4
          <5> QED
              BY <2>1, <3>4, <5>1, Before
        <4> QED
            BY <3>4, <4>1
      <3> QED
          BY <3>1, <3>2, <3>3, <3>4
    <2>3. CASE AtMost(t[r], t[child])
      <3>1. ASSUME NEW c \in first..last, Child(r, c) PROVE AtMost(t[r], t[c])
          BY <1>1, <1>2, <2>1, <2>2, <2>3, <3>1, AtMostOrder
      <3>2. sift_round(loop, last) = loop
          BY <1>4, <2>3, Before
      <3> QED
          BY <1>3, <3>1, <3>2
    <2>4. CASE ~ AtMost(t[r], t[child])
      <3> PICK u : u = ap_swap(t, r, child)
          OBVIOUS
      <3>1. sift_round(loop, last) = [data |-> u, root |-> child]
          BY <1>4, <1>6, <2>4, Before
      <3>2. r \in ApIndex /\ child \in ApIndex
          BY <1>1, <1>2, <2>1
      <3>3. /\ u \in Lists /\ u[r] = t[child] /\ u[child] = t[r]
            /\ \A i \in ApIndex : i # r /\ i # child => u[i] = t[i]
            /\ OneEach(t) => OneEach(u)
        <4>1. Exchanged(t, r, child, u)
            BY <1>1, <3>2, Swapped, Zenon
        <4> QED
            BY <4>1 DEF Exchanged
      <3>4. AtMost(t[child], t[r])
          BY <1>1, <1>2, <2>1, <2>4, AtMostOrder
      <3>5. \A p \in first..last : Child(p, child) => p = r
          BY <1>2, <2>1 DEF Child
      <3>6. ASSUME NEW p \in first..last, NEW c \in first..last, Child(p, c) PROVE p # c
          BY <1>2, <3>6 DEF Child
      <3>7. ASSUME NEW p \in first..last, NEW c \in first..last, Child(p, c), p # child
            PROVE  AtMost(u[p], u[c])
        <4>1. p \in ApIndex /\ c \in ApIndex
            BY <1>2
        <4>2. CASE p = r /\ c = child
            BY <3>3, <3>4, <4>2
        <4>3. CASE p = r /\ c # child
          <5>1. u[c] = t[c] /\ AtMost(t[child], t[c])
              BY <2>2, <3>3, <3>6, <3>7, <4>1, <4>3
          <5> QED
              BY <3>3, <4>3, <5>1
        <4>4. CASE p # r /\ c = r
          <5>1. u[p] = t[p] /\ AtMost(t[p], t[child])
              BY <1>1, <2>1, <3>3, <3>7, <4>1, <4>4
          <5> QED
              BY <3>3, <4>4, <5>1
        <4>5. CASE p # r /\ c # r
          <5>1. c # child
              BY <3>5, <3>7, <4>5
          <5>2. u[p] = t[p] /\ u[c] = t[c]
              BY <3>3, <3>7, <4>1, <4>5, <5>1
          <5> QED
              BY <1>1, <3>7, <4>5, <5>2
        <4> QED
            BY <4>2, <4>3, <4>4, <4>5
      <3>8. ASSUME NEW p \in first..last, NEW c \in first..last, Child(p, child), Child(child, c)
            PROVE  AtMost(u[p], u[c])
        <4>1. p = r /\ c # child /\ c # r /\ c \in ApIndex
          <5>1. p = r /\ c > child
              BY <1>2, <2>1, <3>5, <3>8 DEF Child
          <5> QED
              BY <1>2, <2>1, <5>1
        <4>2. u[c] = t[c] /\ AtMost(t[child], t[c])
            BY <1>1, <2>1, <3>3, <3>8, <4>1
        <4> QED
            BY <3>3, <4>1, <4>2
      <3>9. child >= first + n \/ \A c \in first..last : Child(child, c) => AtMost(u[child], u[c])
        <4>1. CASE r >= first + n - 1
            BY <1>2, <2>1, <4>1
        <4>2. CASE \A c \in first..last : Child(r, c) => AtMost(t[r], t[c])
            BY <2>1, <2>4, <4>2
        <4> QED
            BY <1>1, <4>1, <4>2
      <3>10. \A i \in ApIndex : i \notin first..last => u[i] = s[i]
          BY <1>1, <2>1, <3>3
      <3>11. ASSUME NEW i \in first..last PROVE u[i] \in P
        <4>1. t[i] \in P /\ t[r] \in P /\ t[child] \in P /\ i \in ApIndex
            BY <1>1, <1>2, <2>1
        <4> QED
            BY <3>3, <4>1
      <3>12. [data |-> u, root |-> child] \in [data : Lists, root : first..last]
          BY <2>1, <3>3
      <3> PICK next : next = [data |-> u, root |-> child]
          OBVIOUS
      <3>13. next.data = u /\ next.root = child
          OBVIOUS
      <3>14. OneEach(s) => OneEach(u)
          BY <1>1, <3>3
      <3>15. next \in [data : Lists, root : first..last]
          BY <3>12
      <3>16. Sifting(s, first, last, P, next, n)
          BY ONLY <3>7, <3>8, <3>9, <3>10, <3>11, <3>13, <3>14, <3>15 DEF Sifting
      <3> QED
          BY <3>1, <3>16
    <2> QED
        BY <2>3, <2>4
  <1> QED
      BY <1>2, <1>5, <1>6

LEMMA SiftRuns ==
  ASSUME NEW s \in Lists, NEW first \in ApIndex, NEW last \in ApIndex
  PROVE  \E f : /\ f[0] = [data |-> s, root |-> first]
                /\ \A n \in 1..ApSlots : f[n] = sift_round(f[n - 1], last)
                /\ sift_down(s, first, last) = f[ApSlots].data /\ f[ApSlots].data \in Lists
  <1> DEFINE at[n \in 0 .. ApSlots] ==
        IF n = 0 THEN [data |-> s, root |-> first] ELSE sift_round(at[n - 1], last)
  <1> PICK Loops : Loops = [data : Lists, root : ApIndex]
      OBVIOUS
  <1>1. ASSUME NEW loop \in Loops PROVE sift_round(loop, last) \in Loops
    <2> PICK t, r : t = loop.data /\ r = loop.root
        OBVIOUS
    <2>1. t \in Lists /\ r \in ApIndex
        OBVIOUS
    <2> PICK left : left = 2 * r + 1
        OBVIOUS
    <2> PICK child : child = IF left + 1 <= last /\ ap_cmp_before(t, left, left + 1) THEN left + 1 ELSE left
        OBVIOUS
    <2>2. sift_round(loop, last) = IF left <= last /\ ap_cmp_before(t, r, child)
                                   THEN [data |-> ap_swap(t, r, child), root |-> child] ELSE loop
        BY DEF sift_round, left_child_index
    <2>3. CASE left <= last /\ ap_cmp_before(t, r, child)
      <3>1. child \in ApIndex
          BY <2>1, <2>3, Slots
      <3>2. ap_swap(t, r, child) \in Lists
        <4>1. Exchanged(t, r, child, ap_swap(t, r, child))
            BY <2>1, <3>1, Swapped, Zenon
        <4> QED
            BY <4>1 DEF Exchanged
      <3> QED
          BY <2>2, <2>3, <3>1, <3>2
    <2>4. CASE ~ (left <= last /\ ap_cmp_before(t, r, child))
        BY <2>2, <2>4
    <2> QED
        BY <2>3, <2>4
  <1> PICK x : x = [data |-> s, root |-> first]
      OBVIOUS
  <1> PICK step : step = [e \in (1..ApSlots) \X Loops |-> sift_round(e[2], last)]
      OBVIOUS
  <1>2. x \in Loops /\ step \in Rounds(ApSlots, Loops) /\ ApSlots \in Nat
      BY <1>1, Slots DEF Rounds
  <1>3. PICK f : Runs(f, ApSlots, Loops, x, step)
      BY <1>2, LoopRuns, Zenon
  <1>11. f \in [0..ApSlots -> Loops] /\ f[0] = x /\ \A n \in 1..ApSlots : f[n] = step[<<n, f[n - 1]>>]
      BY <1>3 DEF Runs
  <1>4. ASSUME NEW n \in 1..ApSlots PROVE f[n] = sift_round(f[n - 1], last)
    <2>1. n - 1 \in 0..ApSlots
        BY <1>2
    <2>2. <<n, f[n - 1]>> \in (1..ApSlots) \X Loops
        BY <1>11, <2>1
    <2> QED
        BY <1>11, <2>2
  <1>5. f = [n \in 0..ApSlots |-> IF n = 0 THEN [data |-> s, root |-> first] ELSE sift_round(f[n - 1], last)]
    <2>1. ASSUME NEW n \in 0..ApSlots
          PROVE  f[n] = IF n = 0 THEN [data |-> s, root |-> first] ELSE sift_round(f[n - 1], last)
      <3>1. CASE n = 0
          BY <1>11, <3>1
      <3>2. CASE n # 0
        <4>1. n \in 1..ApSlots
            BY <1>2, <3>2
        <4> QED
            BY <1>4, <3>2, <4>1
      <3> QED
          BY <3>1, <3>2
    <2> QED
        BY <1>11, <2>1
  <1>6. at = [n \in 0..ApSlots |-> IF n = 0 THEN [data |-> s, root |-> first] ELSE sift_round(at[n - 1], last)]
      BY ONLY <1>5
  <1>7. sift_down(s, first, last) = at[ApSlots].data
      BY DEF sift_down
  <1> HIDE DEF at
  <1>8. at[0] = [data |-> s, root |-> first]
      BY <1>2, <1>6
  <1>9. ASSUME NEW n \in 1..ApSlots PROVE at[n] = sift_round(at[n - 1], last)
    <2>1. n \in 0..ApSlots /\ n # 0
        BY <1>2
    <2> QED
        BY <1>6, <2>1
  <1>10. at[ApSlots] \in Loops
    <2> PICK G : G = {n \in 0..ApSlots : at[n] \in Loops}
        OBVIOUS
    <2>1. 0 \in G
        BY <1>2, <1>8
    <2>2. ASSUME NEW n \in 1..ApSlots, n - 1 \in G PROVE n \in G
      <3>1. n \in 0..ApSlots
          BY <1>2
      <3> QED
          BY <1>1, <1>9, <2>2, <3>1
    <2>3. ApSlots \in G
        BY <1>2, <2>1, <2>2, CountUp, Zenon
    <2> QED
        BY <2>3
  <1> QED
      BY <1>7, <1>8, <1>9, <1>10

LEMMA SiftStays ==
  ASSUME NEW s \in Lists, NEW first \in ApIndex, NEW last \in ApIndex
  PROVE  sift_down(s, first, last) \in Lists
  <1>1. PICK f : /\ f[0] = [data |-> s, root |-> first]
                 /\ \A n \in 1..ApSlots : f[n] = sift_round(f[n - 1], last)
                 /\ sift_down(s, first, last) = f[ApSlots].data /\ f[ApSlots].data \in Lists
      BY SiftRuns
  <1> QED
      BY <1>1

\* What becomes of a list that is sorted: the entries are in it, and those outside of
\* the part from first to last stay.
Rearranged(s, t, first, last) ==
  /\ t \in Lists /\ (OneEach(s) => OneEach(t))
  /\ \A i \in ApIndex : i \notin first..last => t[i] = s[i]

AllIn(s, first, last, P) == \A i \in first..last : s[i] \in P

\* sift_down makes a heap of a root and the heaps below it.
LEMMA SiftDown ==
  ASSUME NEW s \in Lists, NEW first \in ApIndex, NEW last \in ApIndex, first <= last, NEW P,
         HeapFrom(s, first + 1, last), AllIn(s, first, last, P)
  PROVE  /\ Rearranged(s, sift_down(s, first, last), first, last)
         /\ HeapFrom(sift_down(s, first, last), first, last)
         /\ AllIn(sift_down(s, first, last), first, last, P)
  <1> USE DEF AllIn
  <1>1. /\ first \in Nat /\ last \in Nat /\ ApSlots \in Nat /\ last < ApSlots
        /\ first..last \subseteq ApIndex
      BY Slots
  <1> PICK t : t = sift_down(s, first, last)
      OBVIOUS
  <1>2. PICK f : /\ f[0] = [data |-> s, root |-> first]
                 /\ \A n \in 1..ApSlots : f[n] = sift_round(f[n - 1], last)
                 /\ t = f[ApSlots].data
      BY SiftRuns
  <1> PICK G : G = {n \in 0..ApSlots : Sifting(s, first, last, P, f[n], n)}
      OBVIOUS
  <1>3. 0 \in G
    <2>1. \A p, c \in first..last : Child(p, c) /\ p # first => AtMost(s[p], s[c])
      <3> SUFFICES ASSUME NEW p \in first..last, NEW c \in first..last, Child(p, c), p # first
                   PROVE  AtMost(s[p], s[c])
          OBVIOUS
      <3>1. p \in first + 1..last /\ c \in first + 1..last
          BY <1>1 DEF Child
      <3> QED
          BY <3>1 DEF HeapFrom
    <2>2. \A p \in first..last : ~ Child(p, first)
        BY <1>1 DEF Child
    <2>3. Sifting(s, first, last, P, [data |-> s, root |-> first], 0)
        BY <1>1, <2>1, <2>2 DEF Sifting
    <2>4. 0 \in 0..ApSlots
        BY <1>1
    <2> QED
        BY <1>2, <2>3, <2>4
  <1>4. ASSUME NEW n \in 1..ApSlots, n - 1 \in G PROVE n \in G
    <2>1. Sifting(s, first, last, P, f[n - 1], n - 1) /\ n \in Nat \ {0} /\ n \in 0..ApSlots
        BY <1>1, <1>4
    <2>2. Sifting(s, first, last, P, sift_round(f[n - 1], last), n)
        BY <2>1, SiftRound
    <2> QED
        BY <1>2, <2>1, <2>2
  <1>5. Sifting(s, first, last, P, f[ApSlots], ApSlots)
    <2>1. ApSlots \in G
        BY <1>1, <1>3, <1>4, CountUp, Zenon
    <2> QED
        BY <2>1
  <1> PICK r : r = f[ApSlots].root
      OBVIOUS
  <1>6. /\ t \in Lists /\ r \in first..last
        /\ \A p, c \in first..last : Child(p, c) /\ p # r => AtMost(t[p], t[c])
        /\ r >= first + ApSlots \/ \A c \in first..last : Child(r, c) => AtMost(t[r], t[c])
        /\ \A i \in ApIndex : i \notin first..last => t[i] = s[i]
        /\ \A i \in first..last : t[i] \in P
        /\ OneEach(s) => OneEach(t)
      BY <1>2, <1>5 DEF Sifting
  <1>7. ~ (r >= first + ApSlots)
      BY <1>1, <1>6
  <1>8. HeapFrom(t, first, last)
      BY <1>6, <1>7 DEF HeapFrom
  <1> QED
      BY <1>6, <1>8 DEF Rearranged

LEMMA Again ==
  ASSUME NEW s, NEW t, NEW u, NEW a, NEW b, Rearranged(s, t, a, b), Rearranged(t, u, a, b)
  PROVE  Rearranged(s, u, a, b)
    BY DEF Rearranged

\* A larger part.
LEMMA Within ==
  ASSUME NEW s, NEW t, NEW a \in Nat, NEW b \in Nat, NEW c \in Nat, NEW d \in Nat, c <= a, b <= d,
         Rearranged(s, t, a, b)
  PROVE  Rearranged(s, t, c, d)
    BY Slots DEF Rearranged

LEMMA HeapifyRuns ==
  ASSUME NEW s \in Lists, NEW first \in Nat \cup {-1}, NEW last \in ApIndex, first <= last
  PROVE  \E f : /\ f[0] = s
                /\ \A n \in 1..first + 1 : f[n] = sift_down(f[n - 1], first + 1 - n, last)
                /\ heapify(s, first, last) = f[first + 1]
  <1> DEFINE at[n \in 0 .. first + 1] ==
        IF n = 0 THEN s ELSE sift_down(at[n - 1], first + 1 - n, last)
  <1> PICK k : k = first + 1
      OBVIOUS
  <1>1. k \in Nat /\ last \in Nat
      BY Slots
  <1>2. ASSUME NEW n \in 1..k, NEW t \in Lists PROVE sift_down(t, first + 1 - n, last) \in Lists
    <2>1. first + 1 - n \in ApIndex
        BY <1>1, Slots
    <2> QED
        BY <2>1, SiftStays, Zenon
  <1> PICK step : step = [e \in (1..k) \X Lists |-> sift_down(e[2], first + 1 - e[1], last)]
      OBVIOUS
  <1>3. step \in Rounds(k, Lists)
      BY <1>2 DEF Rounds
  <1>4. PICK f : Runs(f, k, Lists, s, step)
      BY <1>1, <1>3, LoopRuns, Zenon
  <1>5. f \in [0..k -> Lists] /\ f[0] = s /\ \A n \in 1..k : f[n] = step[<<n, f[n - 1]>>]
      BY <1>4 DEF Runs
  <1>6. ASSUME NEW n \in 1..k PROVE f[n] = sift_down(f[n - 1], first + 1 - n, last)
    <2>1. n - 1 \in 0..k
        BY <1>1
    <2>2. <<n, f[n - 1]>> \in (1..k) \X Lists
        BY <1>5, <2>1
    <2> QED
        BY <1>5, <2>2
  <1>7. f = [n \in 0..first + 1 |-> IF n = 0 THEN s ELSE sift_down(f[n - 1], first + 1 - n, last)]
    <2>1. ASSUME NEW n \in 0..k
          PROVE  f[n] = IF n = 0 THEN s ELSE sift_down(f[n - 1], first + 1 - n, last)
      <3>1. CASE n = 0
          BY <1>5, <3>1
      <3>2. CASE n # 0
        <4>1. n \in 1..k
            BY <1>1, <3>2
        <4> QED
            BY <1>6, <3>2, <4>1
      <3> QED
          BY <3>1, <3>2
    <2> QED
        BY <1>5, <2>1
  <1>8. at = [n \in 0..first + 1 |-> IF n = 0 THEN s ELSE sift_down(at[n - 1], first + 1 - n, last)]
      BY ONLY <1>7
  <1>9. heapify(s, first, last) = at[first + 1]
      BY DEF heapify
  <1> HIDE DEF at
  <1>10. at[0] = s
      BY <1>1, <1>8
  <1>11. ASSUME NEW n \in 1..first + 1 PROVE at[n] = sift_down(at[n - 1], first + 1 - n, last)
    <2>1. n \in 0..first + 1 /\ n # 0
        BY <1>1
    <2> QED
        BY <1>8, <2>1
  <1> QED
      BY <1>9, <1>10, <1>11

LEMMA HeapifyNone == ASSUME NEW s, NEW first, first = -1, NEW last PROVE heapify(s, first, last) = s
  <1> DEFINE at[n \in 0 .. first + 1] ==
        IF n = 0 THEN s ELSE sift_down(at[n - 1], first + 1 - n, last)
  <1> PICK f : f = [n \in 0..first + 1 |-> s]
      OBVIOUS
  <1>1. f = [n \in 0..first + 1 |-> IF n = 0 THEN s ELSE sift_down(f[n - 1], first + 1 - n, last)]
    <2>1. \A n \in 0..first + 1 : n = 0
        OBVIOUS
    <2> QED
        BY <2>1
  <1>2. at = [n \in 0..first + 1 |-> IF n = 0 THEN s ELSE sift_down(at[n - 1], first + 1 - n, last)]
      BY ONLY <1>1
  <1>3. heapify(s, first, last) = at[first + 1]
      BY DEF heapify
  <1> HIDE DEF at
  <1>4. first + 1 = 0 /\ 0 \in 0..first + 1
      OBVIOUS
  <1> QED
      BY <1>2, <1>3, <1>4

\* All but the leaves are roots of heaps in the end.
LEMMA Heapified ==
  ASSUME NEW s \in Lists, NEW length \in 1..ApSlots
  PROVE  /\ Rearranged(s, heapify(s, length \div 2 - 1, length - 1), 0, length - 1)
         /\ HeapFrom(heapify(s, length \div 2 - 1, length - 1), 0, length - 1)
  <1> PICK last, half : last = length - 1 /\ half = length \div 2
      OBVIOUS
  <1> PICK first : first = half - 1
      OBVIOUS
  <1>1. /\ last \in ApIndex /\ last \in Nat /\ half \in Nat /\ first \in Nat \cup {-1}
        /\ first <= last /\ last <= 2 * half
      BY Slots
  <1>2. PICK f : /\ f[0] = s
                 /\ \A n \in 1..first + 1 : f[n] = sift_down(f[n - 1], first + 1 - n, last)
                 /\ heapify(s, first, last) = f[first + 1]
      BY <1>1, HeapifyRuns
  <1> PICK G : G = {n \in 0..half : Rearranged(s, f[n], 0, last) /\ HeapFrom(f[n], half - n, last)}
      OBVIOUS
  <1>3. 0 \in G
    <2>1. Rearranged(s, s, 0, last)
        BY DEF Rearranged
    <2>2. HeapFrom(s, half - 0, last)
        BY <1>1 DEF HeapFrom, Child
    <2>3. 0 \in 0..half
        BY <1>1
    <2> QED
        BY <1>2, <2>1, <2>2, <2>3
  <1>4. ASSUME NEW n \in 1..half, n - 1 \in G PROVE n \in G
    <2> PICK r, t, u : r = half - n /\ t = f[n - 1] /\ u = f[n]
        OBVIOUS
    <2>1. r \in ApIndex /\ r <= last /\ n \in 0..half /\ r \in Nat /\ r = first + 1 - n /\ r + 1 = half - (n - 1)
        BY <1>1, Slots
    <2>2. Rearranged(s, t, 0, last) /\ HeapFrom(t, r + 1, last)
        BY <1>4, <2>1
    <2>3. u = sift_down(t, r, last)
        BY <1>1, <1>2, <2>1
    <2>4. t \in Lists /\ AllIn(t, r, last, Aps)
      <3>1. t \in Lists
          BY <2>2 DEF Rearranged
      <3>2. r..last \subseteq ApIndex
          BY <1>1, <2>1, Slots
      <3> QED
          BY <3>1, <3>2 DEF Lists, AllIn
    <2>5. Rearranged(t, u, r, last) /\ HeapFrom(u, r, last)
      <3>1. Rearranged(t, sift_down(t, r, last), r, last) /\ HeapFrom(sift_down(t, r, last), r, last)
          BY <1>1, <2>1, <2>2, <2>4, SiftDown, Zenon
      <3> QED
          BY <2>3, <3>1
    <2>6. Rearranged(t, u, 0, last)
        BY <1>1, <2>1, <2>5, Within
    <2>7. Rearranged(s, u, 0, last)
        BY <2>2, <2>6, Again
    <2> QED
        BY <2>1, <2>5, <2>7
  <1>5. half \in G
      BY <1>1, <1>3, <1>4, CountUp, Zenon
  <1>6. Rearranged(s, f[half], 0, last) /\ HeapFrom(f[half], half - half, last)
      BY <1>5
  <1>7. half - half = 0 /\ first + 1 = half
      BY <1>1
  <1> QED
      BY <1>2, <1>6, <1>7

\* The root of a heap belongs behind all of it.
LEMMA TopOfHeap ==
  ASSUME NEW s \in Lists, NEW last \in ApIndex, HeapFrom(s, 0, last)
  PROVE  \A i \in 0..last : AtMost(s[0], s[i])
  <1>1. last \in Nat /\ 0..last \subseteq ApIndex /\ \A i \in 0..last : s[i] \in Aps
      BY Slots DEF Lists
  <1> PICK T : T = {i \in 0..last : ~ AtMost(s[0], s[i])}
      OBVIOUS
  <1> SUFFICES ASSUME T # {} PROVE FALSE
      OBVIOUS
  <1>2. PICK c \in T : \A i \in T : c <= i
      BY NatLeast
  <1>3. c # 0 /\ c \in 0..last
    <2>1. 0 \in 0..last
        BY <1>1
    <2>2. AtMost(s[0], s[0])
        BY <1>1, <2>1, AtMostOrder
    <2> QED
        BY <1>2, <2>2
  <1>4. PICK p \in 0..last : Child(p, c) /\ p < c
    <2> PICK p : p = (c - 1) \div 2
        OBVIOUS
    <2>1. p \in Nat /\ (c = 2 * p + 1 \/ c = 2 * p + 2) /\ p < c
        BY <1>3
    <2> QED
        BY <1>1, <1>3, <2>1 DEF Child
  <1>5. AtMost(s[p], s[c])
      BY <1>3, <1>4 DEF HeapFrom
  <1>6. p \notin T
      BY <1>2, <1>3, <1>4
  <1>7. AtMost(s[0], s[p])
      BY <1>6
  <1>8. AtMost(s[0], s[c])
    <2>1. s[0] \in Aps /\ s[p] \in Aps /\ s[c] \in Aps
        BY <1>1, <1>3
    <2> QED
        BY <1>5, <1>7, <2>1, AtMostOrder
  <1> QED
      BY <1>2, <1>8

\* The rounds of the loop in heapsort.
Sorts(s, length, n) ==
  IF n < length THEN sift_down(ap_swap(s, length - n, 0), 0, length - n - 1) ELSE s

LEMMA SortRuns ==
  ASSUME NEW s \in Lists, NEW length \in 0..ApSlots
  PROVE  \E f : /\ f[0] = s
                /\ \A n \in 1..length : f[n] = Sorts(f[n - 1], length, n)
                /\ sort_heap(s, length) = f[length]
  <1> DEFINE at[n \in 0 .. length] ==
        IF n = 0 THEN s
        ELSE IF n < length
             THEN sift_down(ap_swap(at[n - 1], length - n, 0), 0, length - n - 1)
             ELSE at[n - 1]
  <1>1. length \in Nat
      BY Slots
  <1>2. ASSUME NEW n \in 1..length, NEW t \in Lists PROVE Sorts(t, length, n) \in Lists
    <2>1. CASE n < length
      <3>1. length - n \in ApIndex /\ 0 \in ApIndex /\ length - n - 1 \in ApIndex
          BY <1>1, <2>1, Slots
      <3>2. Exchanged(t, length - n, 0, ap_swap(t, length - n, 0))
          BY <3>1, Swapped, Zenon
      <3>3. ap_swap(t, length - n, 0) \in Lists
          BY <3>2 DEF Exchanged
      <3>4. sift_down(ap_swap(t, length - n, 0), 0, length - n - 1) \in Lists
          BY <3>1, <3>3, SiftStays, Zenon
      <3> QED
          BY <2>1, <3>4 DEF Sorts
    <2>2. CASE ~ (n < length)
        BY <2>2 DEF Sorts
    <2> QED
        BY <2>1, <2>2
  <1> PICK step : step = [e \in (1..length) \X Lists |-> Sorts(e[2], length, e[1])]
      OBVIOUS
  <1>3. step \in Rounds(length, Lists)
      BY <1>2 DEF Rounds
  <1>4. PICK f : Runs(f, length, Lists, s, step)
      BY <1>1, <1>3, LoopRuns, Zenon
  <1>5. f \in [0..length -> Lists] /\ f[0] = s /\ \A n \in 1..length : f[n] = step[<<n, f[n - 1]>>]
      BY <1>4 DEF Runs
  <1>6. ASSUME NEW n \in 1..length PROVE f[n] = Sorts(f[n - 1], length, n)
    <2>1. n - 1 \in 0..length
        BY <1>1
    <2>2. <<n, f[n - 1]>> \in (1..length) \X Lists
        BY <1>5, <2>1
    <2> QED
        BY <1>5, <2>2
  <1>7. f = [n \in 0..length |-> IF n = 0 THEN s ELSE Sorts(f[n - 1], length, n)]
    <2>1. ASSUME NEW n \in 0..length
          PROVE  f[n] = IF n = 0 THEN s ELSE Sorts(f[n - 1], length, n)
      <3>1. CASE n = 0
          BY <1>5, <3>1
      <3>2. CASE n # 0
        <4>1. n \in 1..length
            BY <1>1, <3>2
        <4> QED
            BY <1>6, <3>2, <4>1
      <3> QED
          BY <3>1, <3>2
    <2> QED
        BY <1>5, <2>1
  <1>8. at = [n \in 0..length |-> IF n = 0 THEN s ELSE Sorts(at[n - 1], length, n)]
      BY ONLY <1>7 DEF Sorts
  <1>9. sort_heap(s, length) = at[length]
      BY DEF sort_heap
  <1> HIDE DEF at
  <1>10. at[0] = s
      BY <1>1, <1>8
  <1>11. ASSUME NEW n \in 1..length PROVE at[n] = Sorts(at[n - 1], length, n)
    <2>1. n \in 0..length /\ n # 0
        BY <1>1
    <2> QED
        BY <1>8, <2>1
  <1> QED
      BY <1>9, <1>10, <1>11

\* The part behind m is in order, and belongs behind all that is before it.
OrderedFrom(s, m, length) ==
  \A i, j \in 0..length - 1 : i < j /\ m <= j => AtMost(s[j], s[i])

\* One round: the top of the heap goes behind the others of the heap.
LEMMA SortRound ==
  ASSUME NEW s \in Lists, NEW length \in 1..ApSlots, NEW m \in 1..length - 1,
         HeapFrom(s, 0, m), OrderedFrom(s, m + 1, length)
  PROVE  /\ Rearranged(s, sift_down(ap_swap(s, m, 0), 0, m - 1), 0, length - 1)
         /\ HeapFrom(sift_down(ap_swap(s, m, 0), 0, m - 1), 0, m - 1)
         /\ OrderedFrom(sift_down(ap_swap(s, m, 0), 0, m - 1), m, length)
  <1> PICK u, k : u = ap_swap(s, m, 0) /\ k = m - 1
      OBVIOUS
  <1> PICK v : v = sift_down(u, 0, k)
      OBVIOUS
  <1>1. /\ length \in Nat /\ m \in Nat /\ k \in Nat /\ m \in ApIndex /\ 0 \in ApIndex /\ k \in ApIndex
        /\ 0..length - 1 \subseteq ApIndex /\ 0..m \subseteq ApIndex /\ 0..k \subseteq 0..m /\ m # 0
      BY Slots
  <1>2. /\ u \in Lists /\ u[m] = s[0] /\ u[0] = s[m]
        /\ \A i \in ApIndex : i # m /\ i # 0 => u[i] = s[i]
        /\ OneEach(s) => OneEach(u)
    <2>1. Exchanged(s, m, 0, u)
        BY <1>1, Swapped, Zenon
    <2> QED
        BY <2>1 DEF Exchanged
  <1> PICK P : P = {x \in Aps : /\ AtMost(s[0], x)
                                /\ \A j \in m + 1..length - 1 : AtMost(s[j], x)}
      OBVIOUS
  <1>3. \A i \in 0..m : s[i] \in P
    <2> SUFFICES ASSUME NEW i \in 0..m PROVE s[i] \in P
        OBVIOUS
    <2>1. s[i] \in Aps
        BY <1>1 DEF Lists
    <2>2. AtMost(s[0], s[i])
        BY <1>1, TopOfHeap
    <2>3. ASSUME NEW j \in m + 1..length - 1 PROVE AtMost(s[j], s[i])
      <3>1. i \in 0..length - 1 /\ j \in 0..length - 1 /\ i < j /\ m + 1 <= j
          BY <1>1
      <3> QED
          BY <3>1 DEF OrderedFrom
    <2> QED
        BY <2>1, <2>2, <2>3
  <1>4. AllIn(u, 0, k, P)
    <2> SUFFICES ASSUME NEW i \in 0..k PROVE u[i] \in P
        BY DEF AllIn
    <2>1. i \in ApIndex /\ i # m /\ i \in 0..m /\ m \in 0..m
        BY <1>1
    <2>2. CASE i = 0
        BY <1>2, <1>3, <2>1, <2>2
    <2>3. CASE i # 0
        BY <1>2, <1>3, <2>1, <2>3
    <2> QED
        BY <2>2, <2>3
  <1>5. HeapFrom(u, 0 + 1, k)
    <2> SUFFICES ASSUME NEW p \in 0 + 1..k, NEW c \in 0 + 1..k, Child(p, c) PROVE AtMost(u[p], u[c])
        BY DEF HeapFrom
    <2>1. p \in 0..m /\ c \in 0..m /\ p # 0 /\ c # 0 /\ p # m /\ c # m
        BY <1>1
    <2>2. u[p] = s[p] /\ u[c] = s[c]
        BY <1>1, <1>2, <2>1
    <2> QED
        BY <2>1, <2>2 DEF HeapFrom
  <1>6. Rearranged(u, v, 0, k) /\ HeapFrom(v, 0, k) /\ \A i \in 0..k : v[i] \in P
    <2>1. 0 <= k
        BY <1>1
    <2>2. /\ Rearranged(u, sift_down(u, 0, k), 0, k) /\ HeapFrom(sift_down(u, 0, k), 0, k)
          /\ AllIn(sift_down(u, 0, k), 0, k, P)
        BY <1>1, <1>2, <1>4, <1>5, <2>1, SiftDown, Zenon
    <2> QED
        BY <2>2 DEF AllIn
  <1>7. \A i \in ApIndex : i \notin 0..k => v[i] = u[i]
      BY <1>6 DEF Rearranged
  <1>8. Rearranged(s, v, 0, length - 1)
    <2>1. v \in Lists /\ (OneEach(s) => OneEach(v))
        BY <1>2, <1>6 DEF Rearranged
    <2>2. ASSUME NEW i \in ApIndex, i \notin 0..length - 1 PROVE v[i] = s[i]
      <3>1. i \notin 0..k /\ i # m /\ i # 0
          BY <1>1, <2>2
      <3> QED
          BY <1>2, <1>7, <3>1
    <2> QED
        BY <2>1, <2>2 DEF Rearranged
  <1>9. OrderedFrom(v, m, length)
    <2> SUFFICES ASSUME NEW i \in 0..length - 1, NEW j \in 0..length - 1, i < j, m <= j
                 PROVE  AtMost(v[j], v[i])
        BY DEF OrderedFrom
    <2>1. i \in ApIndex /\ j \in ApIndex /\ j \notin 0..k /\ j # 0 /\ i \in Nat /\ j \in Nat
        BY <1>1
    <2>2. CASE j = m
      <3>1. i \in 0..k
          BY <1>1, <2>1, <2>2
      <3>2. AtMost(s[0], v[i])
          BY <1>6, <3>1
      <3> QED
          BY <1>2, <1>7, <2>1, <2>2, <3>2
    <2>3. CASE j # m
      <3>1. j \in m + 1..length - 1 /\ v[j] = s[j]
          BY <1>1, <1>2, <1>7, <2>1, <2>3
      <3>2. CASE i \in 0..k
          BY <1>6, <3>1, <3>2
      <3>3. CASE i = m
        <4>1. v[i] = s[0] /\ 0 \in 0..length - 1 /\ 0 < j /\ m + 1 <= j
            BY <1>1, <1>2, <1>7, <2>1, <3>1, <3>3
        <4> QED
            BY <3>1, <4>1 DEF OrderedFrom
      <3>4. CASE i \notin 0..k /\ i # m
        <4>1. v[i] = s[i] /\ m + 1 <= j
            BY <1>1, <1>2, <1>7, <2>1, <3>1, <3>4
        <4> QED
            BY <3>1, <4>1 DEF OrderedFrom
      <3> QED
          BY <3>2, <3>3, <3>4
    <2> QED
        BY <2>2, <2>3
  <1> QED
      BY <1>6, <1>8, <1>9

\* heapsort puts the part in order.
LEMMA Heapsorted ==
  ASSUME NEW s \in Lists, NEW length \in 0..ApSlots
  PROVE  /\ Rearranged(s, heapsort(s, length), 0, length - 1)
         /\ OrderedFrom(heapsort(s, length), 0, length)
  <1> PICK h, t : h = heapify(s, length \div 2 - 1, length - 1) /\ t = heapsort(s, length)
      OBVIOUS
  <1>1. t = sort_heap(h, length)
      BY DEF heapsort
  <1>2. Rearranged(s, h, 0, length - 1) /\ HeapFrom(h, 0, length - 1)
    <2>1. CASE length = 0
      <3>1. length \div 2 - 1 = -1
          BY <2>1
      <3>2. h = s
          BY <3>1, HeapifyNone
      <3>3. Rearranged(s, s, 0, length - 1)
          BY DEF Rearranged
      <3>4. HeapFrom(s, 0, length - 1)
          BY <2>1 DEF HeapFrom
      <3> QED
          BY <3>2, <3>3, <3>4
    <2>2. CASE length # 0
      <3>1. length \in 1..ApSlots
          BY <2>2, Slots
      <3> QED
          BY <3>1, Heapified
    <2> QED
        BY <2>1, <2>2
  <1>3. h \in Lists /\ length \in Nat /\ ApSlots \in Nat /\ length <= ApSlots
      BY <1>2, Slots DEF Rearranged
  <1>4. PICK f : /\ f[0] = h
                 /\ \A n \in 1..length : f[n] = Sorts(f[n - 1], length, n)
                 /\ t = f[length]
      BY <1>1, <1>3, SortRuns
  <1> PICK G : G = {n \in 0..length : /\ Rearranged(s, f[n], 0, length - 1)
                                      /\ HeapFrom(f[n], 0, length - n - 1)
                                      /\ OrderedFrom(f[n], length - n, length)}
      OBVIOUS
  <1>5. 0 \in G
    <2>1. length - 0 - 1 = length - 1 /\ length - 0 = length /\ 0 \in 0..length
        BY <1>3
    <2>2. OrderedFrom(h, length, length)
        BY <1>3 DEF OrderedFrom
    <2> QED
        BY <1>2, <1>4, <2>1, <2>2
  <1>6. ASSUME NEW n \in 1..length, n - 1 \in G PROVE n \in G
    <2> PICK m, u, v : m = length - n /\ u = f[n - 1] /\ v = f[n]
        OBVIOUS
    <2>1. /\ n \in 0..length /\ m \in Nat /\ length - (n - 1) - 1 = m /\ length - (n - 1) = m + 1
          /\ length - n - 1 = m - 1
        BY <1>3
    <2>2. Rearranged(s, u, 0, length - 1) /\ HeapFrom(u, 0, m) /\ OrderedFrom(u, m + 1, length)
        BY <1>6, <2>1
    <2>3. v = Sorts(u, length, n) /\ u \in Lists
        BY <1>4, <2>2 DEF Rearranged
    <2>4. Rearranged(s, v, 0, length - 1) /\ HeapFrom(v, 0, m - 1) /\ OrderedFrom(v, m, length)
      <3>1. CASE n < length
        <4>1. length \in 1..ApSlots /\ m \in 1..length - 1
            BY <1>3, <2>1, <3>1
        <4>2. v = sift_down(ap_swap(u, m, 0), 0, m - 1)
            BY <2>1, <2>3, <3>1 DEF Sorts
        <4>3. Rearranged(u, v, 0, length - 1) /\ HeapFrom(v, 0, m - 1) /\ OrderedFrom(v, m, length)
            BY <2>2, <2>3, <4>1, <4>2, SortRound
        <4> QED
            BY <2>2, <4>3, Again
      <3>2. CASE ~ (n < length)
        <4>1. m = 0 /\ v = u
            BY <1>3, <2>1, <2>3, <3>2 DEF Sorts
        <4>2. HeapFrom(v, 0, m - 1)
            BY <4>1 DEF HeapFrom
        <4>3. OrderedFrom(v, m, length)
          <5> SUFFICES ASSUME NEW i \in 0..length - 1, NEW j \in 0..length - 1, i < j
                       PROVE  AtMost(v[j], v[i])
              BY DEF OrderedFrom
          <5>1. 1 <= j
              OBVIOUS
          <5> QED
              BY <2>2, <4>1, <5>1 DEF OrderedFrom
        <4> QED
            BY <2>2, <4>1, <4>2, <4>3
      <3> QED
          BY <3>1, <3>2
    <2> QED
        BY <2>1, <2>4
  <1>7. length \in G
      BY <1>3, <1>5, <1>6, CountUp, Zenon
  <1>8. Rearranged(s, t, 0, length - 1) /\ OrderedFrom(t, length - length, length) /\ length - length = 0
      BY <1>3, <1>4, <1>7
  <1> QED
      BY <1>8

\* The entries in use come first.
Prefix(s) == \A i, j \in ApIndex : i < j /\ Active(s[j]) => Active(s[i])

\* FirstInactive is where they end.
LEMMA FirstInactiveIs ==
  ASSUME NEW s
  PROVE  /\ FirstInactive(s) \in 0..ApSlots
         /\ FirstInactive(s) < ApSlots => ~ Active(s[FirstInactive(s)])
         /\ \A j \in 0..FirstInactive(s) - 1 : Active(s[j])
  <1> PICK T : T = {i \in 0..ApSlots : i < ApSlots => ~ Active(s[i])}
      OBVIOUS
  <1>1. ApSlots \in T /\ T \in SUBSET Nat
      BY Slots
  <1>2. PICK m \in T : \A i \in T : m <= i
      BY <1>1, NatLeast, Zenon
  <1>3. m \in 0..ApSlots /\ (m < ApSlots => ~ Active(s[m]))
      BY <1>2
  <1>4. ASSUME NEW j \in 0..m - 1 PROVE Active(s[j])
    <2>1. j \notin T /\ j \in 0..ApSlots
        BY <1>2, <1>3, Slots
    <2> QED
        BY <2>1
  <1> QED
      BY <1>3, <1>4 DEF FirstInactive

LEMMA PrefixEnds ==
  ASSUME NEW s, Prefix(s)
  PROVE  FirstInactive(s) \in 0..ApSlots /\ \A i \in ApIndex : Active(s[i]) <=> i < FirstInactive(s)
  <1> PICK n : n = FirstInactive(s)
      OBVIOUS
  <1>1. n \in 0..ApSlots /\ (n < ApSlots => ~ Active(s[n])) /\ \A j \in 0..n - 1 : Active(s[j])
      BY FirstInactiveIs
  <1>2. ASSUME NEW i \in ApIndex PROVE Active(s[i]) <=> i < n
    <2>1. CASE i < n
        BY <1>1, <2>1, Slots
    <2>2. CASE i = n
        BY <1>1, <2>2, Slots
    <2>3. CASE i > n
      <3>1. n \in ApIndex /\ n < ApSlots
          BY <1>1, <2>3, Slots
      <3> QED
          BY <1>1, <2>3, <3>1, Slots DEF Prefix
    <2> QED
        BY <1>1, <2>1, <2>2, <2>3, Slots
  <1> QED
      BY <1>1, <1>2

\* Reports are of several access points.
Several(reports) ==
  \A i, j \in 1..Len(reports) : i # j => reports[i].bssid # reports[j].bssid
Reports(n) == [1..n -> [bssid : ApBssids, rssi : ApStrengths]]

\* After n reports: the first c entries are of the same access points as before, the
\* others that are in use are of access points that have been reported.
Recording(f, c, reports, n, t) ==
  /\ t \in Lists /\ Prefix(t) /\ OneEach(t)
  /\ \A i \in ApIndex : i < c => Active(t[i]) /\ t[i].bssid = f[i].bssid
  /\ \A i \in ApIndex : i >= c /\ Active(t[i]) => \E k \in 1..n : t[i].bssid = reports[k].bssid

LEMMA RecordOne ==
  ASSUME NEW f, ap_cache_count \in 0..ApSlots, NEW m \in Nat, NEW reports \in Reports(m),
         Len(reports) = m, Several(reports), NEW n \in 1..m, NEW t,
         Recording(f, ap_cache_count, reports, n - 1, t)
  PROVE  Recording(f, ap_cache_count, reports, n, Record(t, reports[n]))
  <1> PICK c, r : c = ap_cache_count /\ r = reports[n]
      OBVIOUS
  <1>1. /\ t \in Lists /\ Prefix(t) /\ OneEach(t) /\ c \in Nat /\ c <= ApSlots
        /\ \A i \in ApIndex : i < c => Active(t[i]) /\ t[i].bssid = f[i].bssid
        /\ \A i \in ApIndex : i >= c /\ Active(t[i]) => \E k \in 1..n - 1 : t[i].bssid = reports[k].bssid
      BY Slots DEF Recording
  <1>2. r.bssid \in ApBssids /\ r.rssi \in Int /\ n \in 1..n
    <2>1. r \in [bssid : ApBssids, rssi : ApStrengths]
        BY DEF Reports
    <2>2. ApStrengths \subseteq Int
        BY ApAssumption
    <2>3. r.bssid \in ApBssids /\ r.rssi \in Int
        BY ONLY <2>1, <2>2
    <2>4. n \in 1..n
        BY ONLY n \in 1..m, m \in Nat
    <2> QED
        BY <2>3, <2>4
  <1> PICK found : found = find_ap_in_cache(t, r.bssid)
      OBVIOUS
  <1>3. \A i : i \in found <=> i \in ApIndex /\ i < c /\ Active(t[i]) /\ t[i].bssid = r.bssid
      BY DEF find_ap_in_cache
  <1>4. ASSUME NEW k \in 1..n - 1 PROVE k \in 1..n /\ reports[k].bssid # r.bssid
      BY DEF Several
  <1>5. CASE found # {}
    <2> PICK i : i = CHOOSE j \in found : TRUE
        OBVIOUS
    <2>1. i \in found
        BY <1>5
    <2> PICK u : u = update_ap_in_cache(t, r, i)
        OBVIOUS
    <2>2. Record(t, r) = u
        BY <1>5 DEF Record
    <2>3. i \in ApIndex /\ i < c /\ Active(t[i])
        BY <1>3, <2>1
    <2>4. /\ u \in Lists /\ u[i].bssid = t[i].bssid /\ Active(u[i])
          /\ \A j \in ApIndex : j # i => u[j] = t[j]
      <3> PICK e : e = t[i]
          OBVIOUS
      <3>1. e \in Aps
          BY <1>1, <2>3 DEF Lists
      <3> PICK g : g = [e EXCEPT !.age = 1, !.rssi = r.rssi]
          OBVIOUS
      <3>2. g \in Aps /\ g.bssid = e.bssid /\ g.age = 1
          BY <1>2, <3>1 DEF Aps
      <3>3. u = [t EXCEPT ![i] = g]
          BY DEF update_ap_in_cache
      <3>4. u \in Lists /\ u[i] = g /\ \A j \in ApIndex : j # i => u[j] = t[j]
          BY <1>1, <2>3, <3>2, <3>3 DEF Lists
      <3>5. u[i].bssid = t[i].bssid
          BY <3>2, <3>4, Zenon
      <3>6. Active(u[i])
        <4>1. u[i].age = 1
            BY <3>2, <3>4, Zenon
        <4> QED
            BY ONLY <4>1 DEF Active
      <3> QED
          BY <3>4, <3>5, <3>6, Zenon
    <2>5. \A j \in ApIndex : (Active(u[j]) <=> Active(t[j])) /\ u[j].bssid = t[j].bssid
        BY <2>3, <2>4
    <2>6. Prefix(u) /\ OneEach(u)
        BY <1>1, <2>5 DEF Prefix, OneEach
    <2>7. \A j \in ApIndex : j < c => Active(u[j]) /\ u[j].bssid = f[j].bssid
        BY <1>1, <2>5
    <2>8. \A j \in ApIndex : j >= c /\ Active(u[j]) => \E k \in 1..n : u[j].bssid = reports[k].bssid
        BY <1>1, <1>4, <2>5
    <2> QED
        BY <2>2, <2>4, <2>6, <2>7, <2>8 DEF Recording
  <1>6. CASE found = {}
    <2> PICK i : i = FirstInactive(t)
        OBVIOUS
    <2>1. i \in 0..ApSlots /\ \A j \in ApIndex : Active(t[j]) <=> j < i
        BY <1>1, PrefixEnds
    <2>2. CASE i = ApSlots
      <3>1. Record(t, r) = t
          BY <1>6, <2>2 DEF Record, add_ap_to_cache
      <3> QED
          BY <1>1, <1>4, <3>1 DEF Recording
    <2>3. CASE i # ApSlots
      <3> PICK e : e = [bssid |-> r.bssid, age |-> 1, rssi |-> r.rssi, failed |-> 0,
                        profile |-> r.bssid \in apProfiles]
          OBVIOUS
      <3> PICK u : u = [t EXCEPT ![i] = e]
          OBVIOUS
      <3>1. Record(t, r) = u
          BY <1>6, <2>3 DEF Record, add_ap_to_cache
      <3>2. e \in Aps /\ e.bssid = r.bssid /\ Active(e)
          BY <1>2 DEF Aps, Active
      <3>3. i \in ApIndex /\ ~ Active(t[i]) /\ i \in Nat
          BY <2>1, <2>3, Slots
      <3>4. u \in Lists /\ u[i] = e /\ \A j \in ApIndex : j # i => u[j] = t[j]
          BY <1>1, <3>2, <3>3 DEF Lists
      <3>5. Prefix(u)
        <4> SUFFICES ASSUME NEW a \in ApIndex, NEW b \in ApIndex, a < b, Active(u[b]) PROVE Active(u[a])
            BY DEF Prefix
        <4>1. a \in Nat /\ b \in Nat
            BY Slots
        <4>2. b <= i
            BY <2>1, <3>3, <3>4, <4>1
        <4>3. a < i /\ a # i
            BY <3>3, <4>1, <4>2
        <4> QED
            BY <2>1, <3>4, <4>3
      <3>6. \A j \in ApIndex : Active(t[j]) => t[j].bssid # r.bssid
        <4> SUFFICES ASSUME NEW j \in ApIndex, Active(t[j]) PROVE t[j].bssid # r.bssid
            OBVIOUS
        <4>1. CASE j < c
            BY <1>3, <1>6, <4>1
        <4>2. CASE j >= c
            BY <1>1, <1>4, <4>2
        <4> QED
            BY <1>1, <4>1, <4>2, Slots
      <3>7. OneEach(u)
        <4> SUFFICES ASSUME NEW a \in ApIndex, NEW b \in ApIndex, a # b, Active(u[a]), Active(u[b])
                     PROVE  u[a].bssid # u[b].bssid
            BY DEF OneEach
        <4>1. CASE a = i
            BY <3>2, <3>4, <3>6, <4>1
        <4>2. CASE b = i
            BY <3>2, <3>4, <3>6, <4>2
        <4>3. CASE a # i /\ b # i
            BY <1>1, <3>4, <4>3 DEF OneEach
        <4> QED
            BY <4>1, <4>2, <4>3
      <3>8. ASSUME NEW j \in ApIndex, j < c PROVE Active(u[j]) /\ u[j].bssid = f[j].bssid
          BY <1>1, <3>3, <3>4, <3>8
      <3>9. ASSUME NEW j \in ApIndex, j >= c, Active(u[j]) PROVE \E k \in 1..n : u[j].bssid = reports[k].bssid
        <4>1. CASE j = i
            BY <1>2, <3>2, <3>4, <4>1
        <4>2. CASE j # i
            BY <1>1, <1>4, <3>4, <3>9, <4>2
        <4> QED
            BY <4>1, <4>2
      <3> QED
          BY <3>1, <3>4, <3>5, <3>7, <3>8, <3>9 DEF Recording
    <2> QED
        BY <2>2, <2>3
  <1> QED
      BY <1>5, <1>6

LEMMA RecordStays ==
  ASSUME NEW t \in Lists, NEW r, r.bssid \in ApBssids, r.rssi \in Int
  PROVE  Record(t, r) \in Lists
  <1> PICK found : found = find_ap_in_cache(t, r.bssid)
      OBVIOUS
  <1>1. CASE found # {}
    <2> PICK i : i = CHOOSE j \in found : TRUE
        OBVIOUS
    <2>1. i \in ApIndex
        BY <1>1 DEF find_ap_in_cache
    <2> PICK e : e = t[i]
        OBVIOUS
    <2>2. e \in Aps
        BY <2>1 DEF Lists
    <2> PICK g : g = [e EXCEPT !.age = 1, !.rssi = r.rssi]
        OBVIOUS
    <2>3. g \in Aps
        BY <2>2 DEF Aps
    <2>4. Record(t, r) = [t EXCEPT ![i] = g]
        BY <1>1 DEF Record, update_ap_in_cache
    <2> QED
        BY <2>1, <2>3, <2>4 DEF Lists
  <1>2. CASE found = {}
    <2> PICK i : i = FirstInactive(t)
        OBVIOUS
    <2>1. i \in 0..ApSlots
        BY FirstInactiveIs
    <2>2. CASE i = ApSlots
        BY <1>2, <2>2 DEF Record, add_ap_to_cache
    <2>3. CASE i # ApSlots
      <3> PICK e : e = [bssid |-> r.bssid, age |-> 1, rssi |-> r.rssi, failed |-> 0,
                        profile |-> r.bssid \in apProfiles]
          OBVIOUS
      <3>1. e \in Aps
          BY DEF Aps
      <3>2. Record(t, r) = [t EXCEPT ![i] = e]
          BY <1>2, <2>3 DEF Record, add_ap_to_cache
      <3> QED
          BY <2>1, <2>3, <3>1, <3>2, Slots DEF Lists
    <2> QED
        BY <2>2, <2>3
  <1> QED
      BY <1>1, <1>2

LEMMA ReportedRuns ==
  ASSUME NEW s \in Lists, NEW reports, NEW k \in Nat, reports \in Reports(k), k = Len(reports)
  PROVE  \E f : /\ f[0] = s
                /\ \A n \in 1..k : f[n] = Record(f[n - 1], reports[n])
                /\ Reported(s, reports) = f[k]
  <1> DEFINE at[n \in 0 .. Len(reports)] ==
        IF n = 0 THEN s ELSE Record(at[n - 1], reports[n])
  <1>1. ASSUME NEW n \in 1..k, NEW t \in Lists PROVE Record(t, reports[n]) \in Lists
    <2> PICK r : r = reports[n]
        OBVIOUS
    <2>1. r \in [bssid : ApBssids, rssi : ApStrengths]
        BY DEF Reports
    <2>2. r.bssid \in ApBssids /\ r.rssi \in Int
        BY ONLY <2>1, ApAssumption
    <2> QED
        BY <2>2, RecordStays
  <1> PICK step : step = [e \in (1..k) \X Lists |-> Record(e[2], reports[e[1]])]
      OBVIOUS
  <1>2. step \in Rounds(k, Lists)
      BY <1>1 DEF Rounds
  <1>3. PICK f : Runs(f, k, Lists, s, step)
      BY <1>2, LoopRuns, Zenon
  <1>4. f \in [0..k -> Lists] /\ f[0] = s /\ \A n \in 1..k : f[n] = step[<<n, f[n - 1]>>]
      BY <1>3 DEF Runs
  <1>5. ASSUME NEW n \in 1..k PROVE f[n] = Record(f[n - 1], reports[n])
    <2>1. n - 1 \in 0..k
        OBVIOUS
    <2>2. <<n, f[n - 1]>> \in (1..k) \X Lists
        BY <1>4, <2>1
    <2> QED
        BY <1>4, <2>2
  <1>6. f = [n \in 0..Len(reports) |-> IF n = 0 THEN s ELSE Record(f[n - 1], reports[n])]
    <2>1. ASSUME NEW n \in 0..k
          PROVE  f[n] = IF n = 0 THEN s ELSE Record(f[n - 1], reports[n])
      <3>1. CASE n = 0
          BY <1>4, <3>1
      <3>2. CASE n # 0
        <4>1. n \in 1..k
            BY <3>2
        <4> QED
            BY <1>5, <3>2, <4>1
      <3> QED
          BY <3>1, <3>2
    <2> QED
        BY <1>4, <2>1
  <1>7. at = [n \in 0..Len(reports) |-> IF n = 0 THEN s ELSE Record(at[n - 1], reports[n])]
      BY ONLY <1>6
  <1>8. Reported(s, reports) = at[Len(reports)]
      BY DEF Reported
  <1> HIDE DEF at
  <1>9. at[0] = s
      BY <1>7
  <1>10. ASSUME NEW n \in 1..k PROVE at[n] = Record(at[n - 1], reports[n])
    <2>1. n \in 0..Len(reports) /\ n # 0
        OBVIOUS
    <2> QED
        BY <1>7, <2>1
  <1> QED
      BY <1>8, <1>9, <1>10

\* The inductive invariant.
ApInv == sorted_aps \in Lists /\ ap_cache_count \in 0..ApSlots /\ ApCacheOrdered

LEMMA AgedKeeps ==
  ASSUME ApInv
  PROVE  /\ Aged(sorted_aps) \in Lists
         /\ \A i \in ApIndex : /\ Active(Aged(sorted_aps)[i]) <=> i < ap_cache_count
                               /\ Aged(sorted_aps)[i].bssid = sorted_aps[i].bssid
  <1> PICK s, t : s = sorted_aps /\ t = Aged(sorted_aps)
      OBVIOUS
  <1>1. s \in Lists /\ \A i \in ApIndex : Active(s[i]) <=> i < ap_cache_count
      BY DEF ApInv, ApCacheOrdered
  <1>2. t = [i \in ApIndex |-> IF i < ap_cache_count /\ s[i].age <= ApMaxAge
                              THEN [s[i] EXCEPT !.age = @ + 1] ELSE s[i]]
      BY DEF Aged
  <1>3. ASSUME NEW i \in ApIndex
        PROVE  t[i] \in Aps /\ t[i].bssid = s[i].bssid /\ (Active(t[i]) <=> i < ap_cache_count)
    <2> PICK e, g : e = s[i] /\ g = [e EXCEPT !.age = @ + 1]
        OBVIOUS
    <2>1. e \in Aps
        BY <1>1 DEF Lists
    <2>2. g \in Aps /\ g.bssid = e.bssid /\ g.age = e.age + 1 /\ e.age \in Nat
        BY <2>1 DEF Aps
    <2>3. CASE t[i] = e
        BY <1>1, <2>1, <2>3
    <2>4. CASE i < ap_cache_count /\ t[i] = g
      <3>1. Active(g)
          BY <2>2 DEF Active
      <3> QED
          BY <2>2, <2>4, <3>1
    <2>5. t[i] = e \/ (i < ap_cache_count /\ t[i] = g)
        BY <1>2
    <2> QED
        BY <2>3, <2>4, <2>5
  <1>4. t \in Lists
      BY <1>2, <1>3 DEF Lists
  <1> QED
      BY <1>3, <1>4

LEMMA ScanInv ==
  ASSUME ApInv, NEW reports \in Scans, scan_networks(reports)
  PROVE  ApInv'
  <1> PICK s, c, m : s = Aged(sorted_aps) /\ c = ap_cache_count /\ m = Len(reports)
      OBVIOUS
  <1>1. /\ s \in Lists /\ c \in 0..ApSlots /\ c \in Nat
        /\ \A i \in ApIndex : (Active(s[i]) <=> i < c) /\ s[i].bssid = sorted_aps[i].bssid
      BY AgedKeeps, Slots DEF ApInv
  <1>2. m \in Nat /\ reports \in Reports(m) /\ Several(reports)
    <2>1. PICK n \in 0..ApScanMax : reports \in [1..n -> [bssid : ApBssids, rssi : ApStrengths]]
        BY DEF Scans
    <2>2. ApScanMax \in Nat
        BY ApAssumption
    <2>3. DOMAIN reports = 1..n /\ n \in Nat
        BY <2>1, <2>2
    <2>4. m = n
        BY <2>1, <2>3
    <2>5. \A i, j \in 1..m : i # j => reports[i].bssid # reports[j].bssid
        BY <2>3, <2>4 DEF Scans
    <2> QED
        BY <2>1, <2>3, <2>4, <2>5 DEF Reports, Several
  <1> PICK t : t = Reported(s, reports)
      OBVIOUS
  <1>3. PICK f : /\ f[0] = s
                 /\ \A n \in 1..m : f[n] = Record(f[n - 1], reports[n])
                 /\ t = f[m]
      BY <1>1, <1>2, ReportedRuns
  <1>4. t \in Lists /\ Prefix(t) /\ OneEach(t)
    <2> PICK G : G = {n \in 0..m : Recording(s, ap_cache_count, reports, n, f[n])}
        OBVIOUS
    <2>1. 0 \in G
      <3>1. Prefix(s)
          BY <1>1, Slots DEF Prefix
      <3>2. OneEach(s)
        <4>1. \A i, j \in 0..c - 1 : i # j => sorted_aps[i].bssid # sorted_aps[j].bssid
            BY DEF ApInv, ApCacheOrdered
        <4>2. \A i \in ApIndex : i < c => i \in 0..c - 1
            BY <1>1, Slots
        <4> QED
            BY <1>1, <4>1, <4>2 DEF OneEach
      <3>3. Recording(s, ap_cache_count, reports, 0, s)
          BY <1>1, <3>1, <3>2, Slots DEF Recording
      <3> QED
          BY <1>2, <1>3, <3>3
    <2>2. ASSUME NEW n \in 1..m, n - 1 \in G PROVE n \in G
      <3>1. Recording(s, ap_cache_count, reports, n - 1, f[n - 1]) /\ n \in 0..m
          BY <1>2, <2>2
      <3>2. Recording(s, ap_cache_count, reports, n, Record(f[n - 1], reports[n]))
          BY <1>1, <1>2, <3>1, RecordOne, Zenon
      <3> QED
          BY <1>3, <3>1, <3>2
    <2>3. m \in G
        BY <1>2, <2>1, <2>2, CountUp, Zenon
    <2> QED
        BY <1>3, <2>3 DEF Recording
  <1> PICK n, d, v : n = FirstInactive(t) /\ d = DropOld(t, n) /\ v = heapsort(d, n)
      OBVIOUS
  <1>5. n \in 0..ApSlots /\ \A i \in ApIndex : Active(t[i]) <=> i < n
      BY <1>4, PrefixEnds
  <1>6. /\ d \in Lists /\ OneEach(d)
        /\ \A i \in ApIndex : ~ (i < n) => ~ Active(d[i])
    <2>1. Inactive \in Aps /\ ~ Active(Inactive)
        BY DEF Inactive, Aps, Active
    <2>2. d = [i \in ApIndex |-> IF i < n /\ t[i].age > ApMaxAge THEN Inactive ELSE t[i]]
        BY DEF DropOld
    <2>3. \A i \in ApIndex : d[i] = t[i] \/ d[i] = Inactive
        BY <2>2
    <2>4. d \in Lists
        BY <1>4, <2>1, <2>2 DEF Lists
    <2>5. OneEach(d)
        BY <1>4, <2>1, <2>3 DEF OneEach
    <2>6. \A i \in ApIndex : ~ (i < n) => ~ Active(d[i])
        BY <1>5, <2>1, <2>3
    <2> QED
        BY <2>4, <2>5, <2>6
  <1>7. Rearranged(d, v, 0, n - 1) /\ OrderedFrom(v, 0, n)
      BY <1>5, <1>6, Heapsorted
  <1>8. /\ v \in Lists /\ OneEach(v) /\ n \in Nat
        /\ \A i \in ApIndex : ~ (i < n) => ~ Active(v[i])
    <2>1. \A i \in ApIndex : ~ (i < n) => i \notin 0..n - 1
        BY <1>5, Slots
    <2> QED
        BY <1>5, <1>6, <1>7, <2>1, Slots DEF Rearranged
  <1>9. ASSUME NEW i \in ApIndex, NEW j \in ApIndex, i < j, Active(v[j])
        PROVE  Active(v[i]) /\ v[i].rssi >= v[j].rssi
    <2>1. i \in 0..n - 1 /\ j \in 0..n - 1 /\ 0 <= j
        BY <1>8, <1>9, Slots
    <2>2. AtMost(v[j], v[i])
        BY <1>7, <1>9, <2>1 DEF OrderedFrom
    <2>3. v[i] \in Aps /\ v[j] \in Aps
        BY <1>8 DEF Lists
    <2>4. v[i].rssi \in Int /\ v[j].rssi \in Int
        BY <2>3 DEF Aps
    <2> QED
        BY <1>9, <2>2, <2>4 DEF AtMost
  <1>10. sorted_aps' = v /\ ap_cache_count' = FirstInactive(v)
      BY DEF scan_networks
  <1> PICK e : e = FirstInactive(v)
      OBVIOUS
  <1>11. e \in 0..ApSlots /\ \A i \in ApIndex : Active(v[i]) <=> i < e
    <2>1. Prefix(v)
        BY <1>9 DEF Prefix
    <2> QED
        BY <2>1, PrefixEnds
  <1>12. \A i \in 0..e - 1 : i \in ApIndex /\ Active(v[i])
      BY <1>11, Slots
  <1>13. \A i, j \in 0..e - 1 : i # j => v[i].bssid # v[j].bssid
      BY <1>8, <1>12 DEF OneEach
  <1>14. \A i, j \in 0..e - 1 : i < j => v[i].rssi >= v[j].rssi
      BY <1>9, <1>12
  <1> QED
      BY <1>8, <1>10, <1>11, <1>13, <1>14 DEF ApInv, ApCacheOrdered

LEMMA FailedInv == ASSUME ApInv, scan_networks_failed PROVE ApInv'
  <1> PICK s, t, c : s = sorted_aps /\ t = Aged(sorted_aps) /\ c = ap_cache_count
      OBVIOUS
  <1>1. /\ c \in 0..ApSlots /\ c \in Nat
        /\ \A i, j \in 0..c - 1 : i # j => s[i].bssid # s[j].bssid
      BY Slots DEF ApInv, ApCacheOrdered
  <1>2. t \in Lists /\ \A i \in ApIndex : (Active(t[i]) <=> i < c) /\ t[i].bssid = s[i].bssid
      BY AgedKeeps
  <1>3. sorted_aps' = t /\ ap_cache_count' = c /\ apFresh' = FALSE
      BY DEF scan_networks_failed
  <1>4. \A i \in 0..c - 1 : i \in ApIndex
      BY <1>1, Slots
  <1>5. \A i, j \in 0..c - 1 : i # j => t[i].bssid # t[j].bssid
      BY <1>1, <1>2, <1>4
  <1> QED
      BY <1>1, <1>2, <1>3, <1>5 DEF ApInv, ApCacheOrdered

\* An entry in use is rewritten, and stays in use for the same access point.
LEMMA EntryInv ==
  ASSUME ApInv, NEW i \in ApIndex, NEW e \in Aps,
         e.bssid = sorted_aps[i].bssid, Active(e), i < ap_cache_count,
         sorted_aps' = [sorted_aps EXCEPT ![i] = e], ap_cache_count' = ap_cache_count,
         apFresh' = FALSE
  PROVE  ApInv'
  <1> PICK s, t, c : s = sorted_aps /\ t = sorted_aps' /\ c = ap_cache_count
      OBVIOUS
  <1>1. /\ s \in Lists /\ c \in 0..ApSlots /\ c \in Nat
        /\ \A j \in ApIndex : Active(s[j]) <=> j < c
        /\ \A j, k \in 0..c - 1 : j # k => s[j].bssid # s[k].bssid
      BY Slots DEF ApInv, ApCacheOrdered
  <1>2. t \in Lists /\ t[i] = e /\ \A j \in ApIndex : j # i => t[j] = s[j]
      BY <1>1 DEF Lists
  <1>3. \A j \in ApIndex : (Active(t[j]) <=> j < c) /\ t[j].bssid = s[j].bssid
      BY <1>1, <1>2
  <1>4. \A j \in 0..c - 1 : j \in ApIndex
      BY <1>1, Slots
  <1>5. \A j, k \in 0..c - 1 : j # k => t[j].bssid # t[k].bssid
      BY <1>1, <1>3, <1>4
  <1> QED
      BY <1>1, <1>2, <1>3, <1>5 DEF ApInv, ApCacheOrdered

LEMMA ConnectInv ==
  ASSUME ApInv, NEW i \in ApIndex, NEW ok \in BOOLEAN, connect_to_network(i, ok)
  PROVE  ApInv'
  <1> PICK a : a = sorted_aps[i]
      OBVIOUS
  <1>1. a \in Aps /\ Active(a) /\ i < ap_cache_count /\ sorted_aps \in Lists
      BY DEF ApInv, ApCacheOrdered, Lists, connect_to_network
  <1> PICK e : e = IF ok THEN [a EXCEPT !.failed = 0]
                   ELSE IF a.age = 1 THEN [a EXCEPT !.failed = @ + 1]
                   ELSE [a EXCEPT !.age = ApMaxAge]
      OBVIOUS
  <1>2. e \in Aps /\ e.bssid = a.bssid /\ Active(e)
    <2>1. a.failed + 1 \in Nat /\ ApMaxAge \in Nat /\ ApMaxAge > 0
        BY <1>1, ApAssumption DEF Aps
    <2>2. CASE ok
        BY <1>1, <2>2 DEF Aps, Active
    <2>3. CASE ~ ok /\ a.age = 1
        BY <1>1, <2>1, <2>3 DEF Aps, Active
    <2>4. CASE ~ ok /\ a.age # 1
        BY <1>1, <2>1, <2>4 DEF Aps, Active
    <2> QED
        BY <2>2, <2>3, <2>4
  <1>3. sorted_aps' = [sorted_aps EXCEPT ![i] = e]
    <2>1. CASE ok
        BY <2>1 DEF connect_to_network
    <2>2. CASE ~ ok /\ a.age = 1
        BY <2>2 DEF connect_to_network
    <2>3. CASE ~ ok /\ a.age # 1
        BY <2>3 DEF connect_to_network
    <2> QED
        BY <2>1, <2>2, <2>3
  <1>4. ap_cache_count' = ap_cache_count /\ apFresh' = FALSE
      BY DEF connect_to_network
  <1> QED
      BY <1>1, <1>2, <1>3, <1>4, EntryInv

LEMMA RssiInv ==
  ASSUME ApInv, NEW i \in ApIndex, NEW rssi \in ApStrengths, update_ap_rssi(i, rssi)
  PROVE  ApInv'
  <1> PICK a : a = sorted_aps[i]
      OBVIOUS
  <1>1. a \in Aps /\ Active(a) /\ i < ap_cache_count /\ rssi \in Int
      BY ApAssumption DEF ApInv, ApCacheOrdered, Lists, update_ap_rssi
  <1> PICK e : e = [a EXCEPT !.rssi = rssi]
      OBVIOUS
  <1>2. e \in Aps /\ e.bssid = a.bssid /\ Active(e)
      BY <1>1 DEF Aps, Active
  <1>3. sorted_aps' = [sorted_aps EXCEPT ![i] = e] /\ ap_cache_count' = ap_cache_count /\ apFresh' = FALSE
      BY DEF update_ap_rssi
  <1> QED
      BY <1>1, <1>2, <1>3, EntryInv

LEMMA EmptyInv ==
  /\ sorted_aps = [i \in ApIndex |-> Inactive] /\ ap_cache_count = 0 => ApInv
  /\ sorted_aps' = [i \in ApIndex |-> Inactive] /\ ap_cache_count' = 0 => ApInv'
  <1> PICK empty : empty = [i \in ApIndex |-> Inactive]
      OBVIOUS
  <1>1. Inactive \in Aps /\ ~ Active(Inactive)
      BY DEF Inactive, Aps, Active
  <1>2. empty \in Lists /\ \A i \in ApIndex : ~ Active(empty[i]) /\ ~ (i < 0)
      BY <1>1, Slots DEF Lists
  <1>3. 0 \in 0..ApSlots /\ 0..0 - 1 = {}
      BY Slots
  <1> QED
      BY <1>2, <1>3 DEF ApInv, ApCacheOrdered

LEMMA ApInvStep == ASSUME ApInv, [ApNext]_apVars PROVE ApInv'
  <1>1. CASE UNCHANGED apVars
      BY <1>1 DEF apVars, ApInv, ApCacheOrdered
  <1>2. CASE \E reports \in Scans : scan_networks(reports)
      BY <1>2, ScanInv
  <1>3. CASE scan_networks_failed
      BY <1>3, FailedInv
  <1>4. CASE \E i \in ApIndex, ok \in BOOLEAN : connect_to_network(i, ok)
      BY <1>4, ConnectInv
  <1>5. CASE \E i \in ApIndex, rssi \in ApStrengths : update_ap_rssi(i, rssi)
      BY <1>5, RssiInv
  <1>6. CASE \E profiles \in {ApSaved, {}} : reset_scan_search_list_and_ap_cache(profiles)
      BY <1>6, EmptyInv DEF reset_scan_search_list_and_ap_cache
  <1> QED
      BY <1>1, <1>2, <1>3, <1>4, <1>5, <1>6 DEF ApNext

\* The entries in use are the first ones, none of them twice, and a scan leaves them in
\* descending order of strength: what the heapsort of heapsort.h, scan_networks and
\* connect_to_network in wifi_connection_mgr.c keep between them, for every number of
\* slots, access points and reports.
THEOREM ApCacheIsOrdered == ApSpec => []ApCacheOrdered
  <1>1. ApInit => ApInv
      BY EmptyInv DEF ApInit
  <1>2. ApInv /\ [ApNext]_apVars => ApInv'
      BY ApInvStep
  <1>3. ApInv => ApCacheOrdered
      BY DEF ApInv
  <1> QED
      BY <1>1, <1>2, <1>3, PTL DEF ApSpec

(***************************************************************************)
(* Remote procedure calls.  A message is followed by the number of the     *)
(* parameters it has been written with: what was written for a parameter   *)
(* stays where it is, and the place where the other side reads it is the   *)
(* sum of the same lengths.                                                *)
(***************************************************************************)
Desc == [length : Nat, ptr : BOOLEAN, input : BOOLEAN, output : BOOLEAN]
Bytes == ({"client", "host"} \X Nat \X Nat) \cup {"other"}
Bits(m) == [1..m -> BOOLEAN]

\* m parameters, and variables of the host that are large enough for them.
Agreed(m, d, sizes) ==
  /\ d \in [1..m -> Desc] /\ sizes \in [1..m -> Nat]
  /\ \A i \in 1..m : d[i].output \/ ~ d[i].ptr => d[i].length <= sizes[i]

\* The places of the parameters, and the message after each of them.
PlacesAre(m, d, chosen, at) ==
  /\ at \in [0..m -> Nat] /\ at[0] = 0
  /\ \A n \in 1..m : at[n] = IF chosen[n] THEN at[n - 1] + d[n].length ELSE at[n - 1]

MessageGrows(m, d, chosen, values, p) ==
  /\ p \in [0..m -> Seq(Bytes)] /\ p[0] = <<>>
  /\ \A n \in 1..m :
       p[n] = IF chosen[n] THEN p[n - 1] \o Copied(values[n], d[n].length) ELSE p[n - 1]

LEMMA PlacesRun ==
  ASSUME NEW m \in Nat, NEW d \in [1..m -> Desc], NEW chosen \in Bits(m)
  PROVE  PlacesAre(m, d, chosen, Places(d, chosen))
  <1> DEFINE at[n \in 0..Len(d)] ==
            IF n = 0 THEN 0
            ELSE IF chosen[n] THEN at[n - 1] + d[n].length ELSE at[n - 1]
  <1>1. Len(d) = m
      OBVIOUS
  <1> PICK step : step = [e \in (1..m) \X Nat |-> IF chosen[e[1]] THEN e[2] + d[e[1]].length ELSE e[2]]
      OBVIOUS
  <1>2. step \in Rounds(m, Nat)
      BY DEF Rounds, Desc, Bits
  <1>3. PICK f : Runs(f, m, Nat, 0, step)
      BY <1>2, LoopRuns, Zenon
  <1>4. f \in [0..m -> Nat] /\ f[0] = 0 /\ \A n \in 1..m : f[n] = step[<<n, f[n - 1]>>]
      BY <1>3 DEF Runs
  <1>5. ASSUME NEW n \in 1..m PROVE f[n] = IF chosen[n] THEN f[n - 1] + d[n].length ELSE f[n - 1]
    <2>1. n - 1 \in 0..m
        OBVIOUS
    <2>2. <<n, f[n - 1]>> \in (1..m) \X Nat
        BY <1>4, <2>1
    <2> QED
        BY <1>4, <2>2
  <1>6. f = [n \in 0..Len(d) |-> IF n = 0 THEN 0
                                ELSE IF chosen[n] THEN f[n - 1] + d[n].length ELSE f[n - 1]]
    <2>1. ASSUME NEW n \in 0..m
          PROVE  f[n] = IF n = 0 THEN 0
                        ELSE IF chosen[n] THEN f[n - 1] + d[n].length ELSE f[n - 1]
      <3>1. CASE n = 0
          BY <1>4, <3>1
      <3>2. CASE n # 0
        <4>1. n \in 1..m
            BY <3>2
        <4> QED
            BY <1>5, <3>2, <4>1
      <3> QED
          BY <3>1, <3>2
    <2> QED
        BY <1>1, <1>4, <2>1
  <1>7. at = [n \in 0..Len(d) |-> IF n = 0 THEN 0
                                ELSE IF chosen[n] THEN at[n - 1] + d[n].length ELSE at[n - 1]]
      BY ONLY <1>6
  <1>8. Places(d, chosen) = at
      BY DEF Places
  <1> HIDE DEF at
  <1> PICK g : g = at
      OBVIOUS
  <1>9. g = f
    <2> PICK G : G = {n \in 0..m : g[n] = f[n]}
        OBVIOUS
    <2>1. 0 \in G
        BY <1>1, <1>4, <1>7
    <2>2. ASSUME NEW n \in 1..m, n - 1 \in G PROVE n \in G
      <3>1. n \in 0..Len(d) /\ n # 0 /\ g[n - 1] = f[n - 1]
          BY <1>1, <2>2
      <3>2. g[n] = IF chosen[n] THEN g[n - 1] + d[n].length ELSE g[n - 1]
          BY <1>7, <3>1
      <3> QED
          BY <1>5, <3>1, <3>2
    <2>3. ASSUME NEW n \in 0..m PROVE g[n] = f[n]
      <3>1. n \in Nat /\ \A k \in 1..n : k \in 1..m
          OBVIOUS
      <3>2. n \in G
          BY <2>1, <2>2, <3>1, CountUp
      <3> QED
          BY <3>2
    <2>4. DOMAIN g = 0..m /\ g = [n \in DOMAIN g |-> g[n]]
        BY ONLY <1>1, <1>7, g = at
    <2> QED
        BY <1>4, <2>3, <2>4
  <1> QED
      BY <1>4, <1>5, <1>8, <1>9 DEF PlacesAre

\* The values that the chosen parameters are copied from.
Sources(m, chosen, values) == \A i \in 1..m : chosen[i] => values[i] \in Seq(Bytes)

LEMMA CopiedBytes ==
  ASSUME NEW bytes \in Seq(Bytes), NEW length \in Nat
  PROVE  Copied(bytes, length) \in Seq(Bytes) /\ Len(Copied(bytes, length)) = length
  <1> PICK c : c = Copied(bytes, length)
      OBVIOUS
  <1>1. c = [k \in 1..length |-> IF k <= Len(bytes) THEN bytes[k] ELSE "other"]
      BY DEF Copied
  <1>2. ASSUME NEW k \in 1..length PROVE c[k] \in Bytes
    <2>1. CASE k <= Len(bytes)
      <3>1. k \in 1..Len(bytes)
          BY <2>1
      <3> QED
          BY <1>1, <2>1, <3>1
    <2>2. CASE ~ (k <= Len(bytes))
        BY <1>1, <2>2 DEF Bytes
    <2> QED
        BY <2>1, <2>2
  <1>3. c \in [1..length -> Bytes]
      BY <1>1, <1>2
  <1> QED
      BY <1>3

LEMMA GatherRuns ==
  ASSUME NEW m \in Nat, NEW d \in [1..m -> Desc], NEW chosen \in Bits(m), NEW values,
         Sources(m, chosen, values)
  PROVE  \E p : MessageGrows(m, d, chosen, values, p) /\ Gather(d, chosen, values) = p[m]
  <1> DEFINE params[n \in 0..Len(d)] ==
            IF n = 0 THEN <<>>
            ELSE IF chosen[n] THEN params[n - 1] \o Copied(values[n], d[n].length)
            ELSE params[n - 1]
  <1>1. Len(d) = m
      OBVIOUS
  <1> PICK V : V = Seq(Bytes)
      OBVIOUS
  <1> PICK piece : piece = [n \in 1..m |-> Copied(values[n], d[n].length)]
      OBVIOUS
  <1> PICK step : step = [e \in (1..m) \X V |-> IF chosen[e[1]] THEN e[2] \o piece[e[1]] ELSE e[2]]
      OBVIOUS
  <1>2. step \in Rounds(m, V)
    <2>1. ASSUME NEW n \in 1..m, chosen[n] PROVE piece[n] \in V
      <3>1. values[n] \in Seq(Bytes) /\ d[n].length \in Nat
          BY <2>1 DEF Sources, Desc
      <3> QED
          BY <3>1, CopiedBytes
    <2>2. ASSUME NEW n \in 1..m, NEW s \in V
          PROVE  (IF chosen[n] THEN s \o piece[n] ELSE s) \in V
      <3>1. CASE chosen[n]
        <4>1. piece[n] \in Seq(Bytes) /\ s \in Seq(Bytes)
            BY <2>1, <3>1
        <4> PICK q : q = piece[n]
            OBVIOUS
        <4>2. s \o q \in Seq(Bytes)
            BY ONLY <4>1, q = piece[n]
        <4> QED
            BY <3>1, <4>2
      <3>2. CASE ~ chosen[n]
          BY <3>2
      <3> QED
          BY <3>1, <3>2
    <2> QED
        BY <2>2 DEF Rounds
  <1>3. <<>> \in V
      OBVIOUS
  <1>4. PICK f : Runs(f, m, V, <<>>, step)
      BY <1>2, <1>3, LoopRuns, Zenon
  <1>5. f \in [0..m -> V] /\ f[0] = <<>> /\ \A n \in 1..m : f[n] = step[<<n, f[n - 1]>>]
      BY <1>4 DEF Runs
  <1>6. ASSUME NEW n \in 1..m
        PROVE  f[n] = IF chosen[n] THEN f[n - 1] \o Copied(values[n], d[n].length) ELSE f[n - 1]
    <2>1. n - 1 \in 0..m
        OBVIOUS
    <2>2. <<n, f[n - 1]>> \in (1..m) \X V /\ piece[n] = Copied(values[n], d[n].length)
        BY <1>5, <2>1
    <2>3. f[n] = IF chosen[n] THEN f[n - 1] \o piece[n] ELSE f[n - 1]
        BY <1>5, <2>2
    <2> QED
        BY <2>2, <2>3
  <1>7. params = [n \in 0..Len(d) |-> IF n = 0 THEN <<>>
            ELSE IF chosen[n] THEN params[n - 1] \o Copied(values[n], d[n].length)
            ELSE params[n - 1]]
    <2>1. f = [n \in 0..Len(d) |-> IF n = 0 THEN <<>>
            ELSE IF chosen[n] THEN f[n - 1] \o Copied(values[n], d[n].length)
            ELSE f[n - 1]]
      <3>1. ASSUME NEW n \in 0..m
            PROVE  f[n] = IF n = 0 THEN <<>>
                          ELSE IF chosen[n] THEN f[n - 1] \o Copied(values[n], d[n].length)
                          ELSE f[n - 1]
        <4>1. CASE n = 0
            BY <1>5, <4>1
        <4>2. CASE n # 0
          <5>1. n \in 1..m
              BY <4>2
          <5> QED
              BY <1>6, <4>2, <5>1
        <4> QED
            BY <4>1, <4>2
      <3> QED
          BY <1>1, <1>5, <3>1
    <2> QED
        BY ONLY <2>1
  <1>8. Gather(d, chosen, values) = params[m]
      BY <1>1 DEF Gather
  <1> HIDE DEF params
  <1> PICK g : g = params
      OBVIOUS
  <1>9. ASSUME NEW n \in 0..m PROVE g[n] = f[n]
    <2> PICK G : G = {k \in 0..m : g[k] = f[k]}
        OBVIOUS
    <2>1. 0 \in G
        BY <1>1, <1>5, <1>7
    <2>2. ASSUME NEW k \in 1..n, k - 1 \in G PROVE k \in G
      <3>1. k \in 1..m /\ k \in 0..Len(d) /\ k # 0 /\ g[k - 1] = f[k - 1]
          BY <1>1, <2>2
      <3>2. g[k] = IF chosen[k] THEN g[k - 1] \o Copied(values[k], d[k].length) ELSE g[k - 1]
          BY <1>7, <3>1
      <3> QED
          BY <1>6, <3>1, <3>2
    <2>3. n \in Nat
        OBVIOUS
    <2>4. n \in G
        BY <2>1, <2>2, <2>3, CountUp, Zenon
    <2> QED
        BY <2>4
  <1>10. MessageGrows(m, d, chosen, values, f)
      BY <1>5, <1>6 DEF MessageGrows
  <1>11. m \in 0..m
      OBVIOUS
  <1>12. Gather(d, chosen, values) = f[m]
      BY <1>8, <1>9, <1>11
  <1> QED
      BY <1>10, <1>12

\* Message p of n parameters has grown to its place, and holds what was copied to it.
WrittenUpTo(n, d, chosen, values, at, p) ==
  /\ Len(p) = at[n]
  /\ \A i \in 1..n : chosen[i] =>
       /\ at[i - 1] + d[i].length <= at[n]
       /\ \A k \in 1..d[i].length : p[at[i - 1] + k] = Copied(values[i], d[i].length)[k]

LEMMA WrittenOneMore ==
  ASSUME NEW m \in Nat, NEW d \in [1..m -> Desc], NEW chosen \in Bits(m), NEW values,
         Sources(m, chosen, values), NEW at, PlacesAre(m, d, chosen, at),
         NEW p, MessageGrows(m, d, chosen, values, p), NEW n \in 1..m,
         WrittenUpTo(n - 1, d, chosen, values, at, p[n - 1])
  PROVE  WrittenUpTo(n, d, chosen, values, at, p[n])
  <1> PICK l, c, q, r, a, b : /\ l = d[n].length /\ c = Copied(values[n], d[n].length)
                              /\ q = p[n - 1] /\ r = p[n] /\ a = at[n - 1] /\ b = at[n]
      OBVIOUS
  <1>1. /\ n - 1 \in 0..m /\ n \in 0..m /\ n \in Nat
        /\ \A i \in 1..n - 1 : i \in 1..m /\ i - 1 \in 0..m
      OBVIOUS
  <1>2. a \in Nat /\ b \in Nat /\ l \in Nat /\ q \in Seq(Bytes) /\ r \in Seq(Bytes)
      BY <1>1 DEF PlacesAre, MessageGrows, Desc
  <1>3. /\ b = IF chosen[n] THEN a + l ELSE a
        /\ r = IF chosen[n] THEN q \o c ELSE q
      BY DEF PlacesAre, MessageGrows
  <1>4. /\ Len(q) = a
        /\ \A i \in 1..n - 1 : chosen[i] =>
             /\ at[i - 1] + d[i].length <= a
             /\ \A k \in 1..d[i].length : q[at[i - 1] + k] = Copied(values[i], d[i].length)[k]
      BY DEF WrittenUpTo
  <1>5. CASE ~ chosen[n]
    <2>1. \A i \in 1..n : chosen[i] => i \in 1..n - 1
        BY <1>5
    <2> QED
        BY <1>3, <1>4, <1>5, <2>1 DEF WrittenUpTo
  <1>6. CASE chosen[n]
    <2>1. c \in Seq(Bytes) /\ Len(c) = l
      <3>1. values[n] \in Seq(Bytes)
          BY <1>6 DEF Sources
      <3> QED
          BY <1>2, <3>1, CopiedBytes
    <2>2. /\ Len(r) = a + l
          /\ \A k \in 1..a : r[k] = q[k]
          /\ \A k \in 1..l : r[a + k] = c[k]
      <3>1. r = q \o c
          BY <1>3, <1>6
      <3>2. Len(q) = a
          BY <1>4
      <3>3. /\ Len(r) = Len(q) + Len(c)
            /\ \A k \in 1..Len(q) + Len(c) : r[k] = IF k <= Len(q) THEN q[k] ELSE c[k - Len(q)]
          BY ONLY <1>2, <2>1, <3>1, ConcatProperties
      <3>4. ASSUME NEW k \in 1..l PROVE r[a + k] = c[k]
        <4> PICK j : j = a + k
            OBVIOUS
        <4>1. j \in 1..a + l /\ ~ (j <= a) /\ j - a = k
            BY ONLY <1>2, k \in 1..l, j = a + k
        <4>2. r[j] = c[j - a]
            BY ONLY <2>1, <3>2, <3>3, <4>1
        <4> QED
            BY ONLY <4>1, <4>2, j = a + k
      <3>5. \A k \in 1..a : r[k] = q[k]
          BY ONLY <1>2, <2>1, <3>2, <3>3
      <3> QED
          BY ONLY <2>1, <3>2, <3>3, <3>4, <3>5
    <2>3. ASSUME NEW i \in 1..n, chosen[i]
          PROVE  /\ at[i - 1] + d[i].length <= b
                 /\ \A k \in 1..d[i].length : r[at[i - 1] + k] = Copied(values[i], d[i].length)[k]
      <3>1. CASE i = n
        <4>1. /\ at[i - 1] = a /\ d[i].length = l /\ Copied(values[i], d[i].length) = c
              /\ a + l <= b
            BY <1>2, <1>3, <1>6, <3>1
        <4> QED
            BY ONLY <2>2, <4>1
      <3>2. CASE i # n
        <4> PICK e, f : e = at[i - 1] /\ f = d[i].length
            OBVIOUS
        <4>1. i \in 1..n - 1
            BY <3>2
        <4>2. e \in Nat /\ f \in Nat
            BY <1>1, <4>1 DEF PlacesAre, Desc
        <4>3. e + f <= a /\ \A k \in 1..f : q[e + k] = Copied(values[i], f)[k]
            BY <1>4, <2>3, <4>1
        <4>4. ASSUME NEW k \in 1..f PROVE r[e + k] = q[e + k]
          <5>1. e + k \in 1..a
              BY ONLY <1>2, <4>2, <4>3, k \in 1..f
          <5> QED
              BY <2>2, <5>1
        <4>5. e + f <= b
            BY ONLY <1>2, <1>3, <1>6, <4>2, <4>3
        <4> QED
            BY ONLY <4>3, <4>4, <4>5, e = at[i - 1], f = d[i].length
      <3> QED
          BY <3>1, <3>2
    <2>4. Len(r) = b
        BY <1>3, <1>6, <2>2
    <2> QED
        BY ONLY <2>3, <2>4, r = p[n], b = at[n] DEF WrittenUpTo
  <1> QED
      BY <1>5, <1>6

\* What was copied for a parameter is what is read for it.
MessageRight(m, d, chosen, values, msg) ==
  /\ Len(msg) = TotalLength(d, chosen)
  /\ \A i \in 1..m : chosen[i] =>
       SubSeq(msg, PlaceOf(d, chosen, i) + 1, PlaceOf(d, chosen, i) + d[i].length)
         = Copied(values[i], d[i].length)

LEMMA Gathered ==
  ASSUME NEW m \in Nat, NEW d \in [1..m -> Desc], NEW chosen \in Bits(m), NEW values,
         Sources(m, chosen, values)
  PROVE  MessageRight(m, d, chosen, values, Gather(d, chosen, values))
  <1> PICK at : at = Places(d, chosen)
      OBVIOUS
  <1>1. PlacesAre(m, d, chosen, at)
      BY PlacesRun, Zenon
  <1> PICK msg : msg = Gather(d, chosen, values)
      OBVIOUS
  <1>2. PICK p : MessageGrows(m, d, chosen, values, p) /\ msg = p[m]
      BY GatherRuns
  <1>3. WrittenUpTo(m, d, chosen, values, at, p[m])
    <2> PICK G : G = {n \in 0..m : WrittenUpTo(n, d, chosen, values, at, p[n])}
        OBVIOUS
    <2>1. 0 \in G
        BY <1>1, <1>2 DEF WrittenUpTo, PlacesAre, MessageGrows
    <2>2. ASSUME NEW n \in 1..m, n - 1 \in G PROVE n \in G
      <3>1. WrittenUpTo(n - 1, d, chosen, values, at, p[n - 1]) /\ n \in 0..m
          BY <2>2
      <3>2. WrittenUpTo(n, d, chosen, values, at, p[n])
          BY <1>1, <1>2, <3>1, WrittenOneMore, Zenon
      <3> QED
          BY <3>1, <3>2
    <2>3. m \in G
        BY <2>1, <2>2, CountUp, Zenon
    <2> QED
        BY <2>3
  <1>4. Len(d) = m /\ msg \in Seq(Bytes)
      BY <1>2 DEF MessageGrows
  <1>5. Len(msg) = TotalLength(d, chosen)
      BY <1>2, <1>3, <1>4 DEF WrittenUpTo, TotalLength
  <1>6. ASSUME NEW i \in 1..m, chosen[i]
        PROVE  SubSeq(msg, PlaceOf(d, chosen, i) + 1, PlaceOf(d, chosen, i) + d[i].length)
                 = Copied(values[i], d[i].length)
    <2> PICK a, l, c : a = at[i - 1] /\ l = d[i].length /\ c = Copied(values[i], d[i].length)
        OBVIOUS
    <2>1. PlaceOf(d, chosen, i) = a
        BY DEF PlaceOf
    <2>2. i - 1 \in 0..m /\ m \in 0..m
        OBVIOUS
    <2>3. a \in Nat /\ l \in Nat /\ at[m] \in Nat
        BY <1>1, <2>2 DEF PlacesAre, Desc
    <2>4. a + l <= Len(msg) /\ \A k \in 1..l : msg[a + k] = c[k]
        BY <1>2, <1>3, <1>6 DEF WrittenUpTo
    <2>5. c \in Seq(Bytes) /\ Len(c) = l
      <3>1. values[i] \in Seq(Bytes)
          BY <1>6 DEF Sources
      <3> QED
          BY <2>3, <3>1, CopiedBytes
    <2> PICK s : s = SubSeq(msg, a + 1, a + l)
        OBVIOUS
    <2>6. s \in Seq(Bytes) /\ Len(s) = l /\ \A k \in 1..l : s[k] = msg[a + k]
      <3>1. /\ a + 1 \in 1..Len(msg) + 1 /\ a + l \in a + 1 - 1..Len(msg) /\ a + l - (a + 1) + 1 = l
          BY ONLY <1>4, <2>3, <2>4
      <3>2. s \in Seq(Bytes) /\ Len(s) = l /\ \A k \in 1..l : s[k] = msg[a + 1 + k - 1]
          BY ONLY <1>4, <2>3, <3>1, SubSeqProperties, s = SubSeq(msg, a + 1, a + l)
      <3>3. \A k \in 1..l : a + 1 + k - 1 = a + k
          BY ONLY <2>3
      <3> QED
          BY ONLY <3>2, <3>3
    <2>7. s = c
      <3>1. s = [k \in 1..l |-> s[k]] /\ c = [k \in 1..l |-> c[k]]
          BY ONLY <2>5, <2>6
      <3>2. \A k \in 1..l : s[k] = c[k]
          BY ONLY <2>4, <2>6
      <3> QED
          BY ONLY <3>1, <3>2
    <2> QED
        BY <2>1, <2>7
  <1> QED
      BY <1>5, <1>6 DEF MessageRight

\* The request with the client's inputs, and the response with the host's outputs.
RequestRight(m) ==
  /\ rpcReq.desc = rpcDesc
  /\ rpcReq.length = 2 * IntSize + DescSize * Len(rpcReq.desc) + Len(rpcReq.params)
  /\ \A i \in 1..m : rpcDesc[i].input =>
       Received(rpcReq, rpcDesc, Inputs(rpcDesc), i) = ArgBytes(rpcDesc[i].length, i, "client")

ArgumentsRight(m) ==
  /\ DOMAIN hostArgs = 1..m
  /\ \A i \in 1..m :
       /\ hostArgs[i].kind = "NULL" => rpcDesc[i].length = 0
       /\ hostArgs[i].bytes \in Seq(Bytes)

ResultsRight(m) ==
  /\ DOMAIN hostArgs = 1..m
  /\ \A i \in 1..m : rpcDesc[i].output =>
       /\ hostArgs[i].bytes \in Seq(Bytes)
       /\ Copied(hostArgs[i].bytes, rpcDesc[i].length) = ArgBytes(rpcDesc[i].length, i, "host")

ResponseRight(m) ==
  /\ rpcResp.length = IntSize + Len(rpcResp.params)
  /\ \A i \in 1..m : rpcDesc[i].output =>
       Received(rpcResp, rpcDesc, Outputs(rpcDesc), i) = ArgBytes(rpcDesc[i].length, i, "host")

\* The inductive invariant, for a call with m parameters.
CallRight(m) ==
  /\ Agreed(m, rpcDesc, hostSize)
  /\ rpcPhase # "done" => rpcArgs = Arguments(rpcDesc, "client")
  /\ rpcPhase \in {"requested", "called", "returned", "responded", "done"} => RequestRight(m)
  /\ rpcPhase = "called" => ArgumentsRight(m) /\ HostSeesInputs
  /\ rpcPhase = "returned" => ResultsRight(m)
  /\ rpcPhase = "responded" => ResponseRight(m)
  /\ ClientGetsOutputs

MarshalInv == \E m \in Nat : CallRight(m)

LEMMA LenOf == ASSUME NEW m \in Nat, NEW f, DOMAIN f = 1..m PROVE Len(f) = m
    OBVIOUS

LEMMA ArgBytesAre ==
  ASSUME NEW length \in Nat, NEW i \in Nat, NEW side \in {"client", "host"}
  PROVE  /\ ArgBytes(length, i, side) \in Seq(Bytes)
         /\ \A n \in Nat : n <= length => Copied(ArgBytes(length, i, side), n) = ArgBytes(n, i, side)
  <1> PICK b : b = ArgBytes(length, i, side)
      OBVIOUS
  <1>1. b = [k \in 1..length |-> <<side, i, k>>]
      BY DEF ArgBytes
  <1>2. b \in [1..length -> Bytes]
      BY <1>1 DEF Bytes
  <1>3. b \in Seq(Bytes) /\ Len(b) = length
      BY <1>2
  <1>4. ASSUME NEW n \in Nat, n <= length PROVE Copied(b, n) = ArgBytes(n, i, side)
    <2>1. ASSUME NEW k \in 1..n
          PROVE  (IF k <= Len(b) THEN b[k] ELSE "other") = <<side, i, k>>
        BY <1>1, <1>3, <1>4
    <2>2. [k \in 1..n |-> IF k <= Len(b) THEN b[k] ELSE "other"] = [k \in 1..n |-> <<side, i, k>>]
        BY <2>1
    <2> QED
        BY <2>2 DEF Copied, ArgBytes
  <1> QED
      BY <1>3, <1>4

LEMMA Directions ==
  ASSUME NEW m \in Nat, NEW d \in [1..m -> Desc]
  PROVE  /\ Len(d) = m
         /\ Inputs(d) \in Bits(m) /\ \A i \in 1..m : Inputs(d)[i] = d[i].input
         /\ Outputs(d) \in Bits(m) /\ \A i \in 1..m : Outputs(d)[i] = d[i].output
  <1>1. Len(d) = m
      OBVIOUS
  <1> QED
      BY <1>1 DEF Inputs, Outputs, Bits, Desc

LEMMA ArgumentsAre ==
  ASSUME NEW m \in Nat, NEW d \in [1..m -> Desc]
  PROVE  /\ DOMAIN Arguments(d, "client") = 1..m
         /\ \A i \in 1..m : /\ Arguments(d, "client")[i] = ArgBytes(d[i].length, i, "client")
                             /\ Arguments(d, "client")[i] \in Seq(Bytes)
                             /\ Copied(Arguments(d, "client")[i], d[i].length) = ArgBytes(d[i].length, i, "client")
  <1> PICK a : a = Arguments(d, "client")
      OBVIOUS
  <1>1. DOMAIN a = 1..m /\ \A i \in 1..m : a[i] = ArgBytes(d[i].length, i, "client")
      BY Directions DEF Arguments
  <1>2. ASSUME NEW i \in 1..m
        PROVE  /\ a[i] \in Seq(Bytes) /\ Copied(a[i], d[i].length) = ArgBytes(d[i].length, i, "client")
    <2> PICK l : l = d[i].length
        OBVIOUS
    <2>1. l \in Nat /\ i \in Nat /\ l <= l
        BY DEF Desc
    <2>2. ArgBytes(l, i, "client") \in Seq(Bytes) /\ Copied(ArgBytes(l, i, "client"), l) = ArgBytes(l, i, "client")
        BY <2>1, ArgBytesAre
    <2> QED
        BY <1>1, <2>2
  <1> QED
      BY <1>1, <1>2

LEMMA RequestStep == ASSUME NEW m \in Nat, CallRight(m), MarshalRequest PROVE CallRight(m)'
  <1> PICK d, a : d = rpcDesc /\ a = rpcArgs
      OBVIOUS
  <1>1. d \in [1..m -> Desc] /\ a = Arguments(d, "client") /\ rpcPhase = "call" /\ rpcPhase' = "requested"
      BY DEF CallRight, Agreed, MarshalRequest
  <1> PICK chosen, msg : chosen = Inputs(d) /\ msg = Gather(d, chosen, a)
      OBVIOUS
  <1>2. chosen \in Bits(m) /\ \A i \in 1..m : chosen[i] = d[i].input
      BY <1>1, Directions
  <1>3. Sources(m, chosen, a)
      BY <1>1, ArgumentsAre DEF Sources
  <1>4. MessageRight(m, d, chosen, a, msg)
      BY <1>1, <1>2, <1>3, Gathered, Zenon
  <1>5. rpcReq' = [length |-> 2 * IntSize + DescSize * Len(d) + TotalLength(d, chosen), desc |-> d, params |-> msg]
      BY DEF MarshalRequest, rpc_request_marshall
  <1>6. UNCHANGED <<hostSize, rpcDesc, rpcArgs, hostArgs, rpcResp>>
      BY DEF MarshalRequest
  <1>7. rpcReq'.desc = d /\ rpcReq'.params = msg
        /\ rpcReq'.length = 2 * IntSize + DescSize * Len(d) + Len(msg)
      BY <1>4, <1>5 DEF MessageRight
  <1>8. ASSUME NEW i \in 1..m, d[i].input
        PROVE  Received(rpcReq', d, chosen, i) = ArgBytes(d[i].length, i, "client")
    <2>1. SubSeq(msg, PlaceOf(d, chosen, i) + 1, PlaceOf(d, chosen, i) + d[i].length)
            = Copied(a[i], d[i].length)
        BY <1>2, <1>4, <1>8 DEF MessageRight
    <2>2. Copied(a[i], d[i].length) = ArgBytes(d[i].length, i, "client")
        BY <1>1, ArgumentsAre
    <2>3. rpcReq'.params = msg
        BY <1>7
    <2> QED
        BY <2>1, <2>2, <2>3 DEF Received
  <1>9. RequestRight(m)'
      BY <1>6, <1>7, <1>8 DEF RequestRight
  <1>10. Agreed(m, rpcDesc', hostSize') /\ rpcArgs' = Arguments(rpcDesc', "client")
      BY <1>1, <1>6 DEF CallRight
  <1> QED
      BY <1>1, <1>9, <1>10 DEF CallRight, ClientGetsOutputs

LEMMA UnmarshallStep == ASSUME NEW m \in Nat, CallRight(m), Unmarshall PROVE CallRight(m)'
  <1> PICK d : d = rpcDesc
      OBVIOUS
  <1>1. /\ d \in [1..m -> Desc] /\ rpcArgs = Arguments(d, "client") /\ RequestRight(m)
        /\ rpcPhase' = "called" /\ rpcReq.desc = d /\ Len(d) = m
      BY Directions DEF CallRight, Agreed, Unmarshall, RequestRight
  <1>2. UNCHANGED <<hostSize, rpcDesc, rpcArgs, rpcReq, rpcResp>>
      BY DEF Unmarshall
  <1> PICK h : h = hostArgs'
      OBVIOUS
  <1>3. h = [i \in 1..m |-> rpc_request_unmarshall(rpcReq, i)]
      BY <1>1 DEF Unmarshall
  <1>4. ASSUME NEW i \in 1..m
        PROVE  /\ h[i].bytes \in Seq(Bytes)
               /\ h[i].kind = "NULL" <=> d[i].ptr /\ d[i].length = 0
               /\ d[i].input /\ d[i].length > 0 => h[i] = HostArg("data", rpcArgs[i])
    <2> PICK e : e = d[i]
        OBVIOUS
    <2>1. e \in Desc /\ e.length \in Nat /\ e.ptr \in BOOLEAN /\ e.input \in BOOLEAN
        BY <1>1 DEF Desc
    <2> PICK r : r = Received(rpcReq, d, Inputs(d), i)
        OBVIOUS
    <2>2. h[i] = CASE e.ptr /\ e.length = 0 -> HostArg("NULL", <<>>)
                   [] e.ptr /\ ~ e.input /\ e.length > 0 -> HostArg("invalid", <<>>)
                   [] e.input /\ ~ (e.ptr /\ e.length = 0) -> HostArg("data", r)
                   [] OTHER -> HostArg("untouched", <<>>)
        BY <1>1, <1>3 DEF rpc_request_unmarshall
    <2>3. <<>> \in Seq(Bytes)
        OBVIOUS
    <2>4. e.input => r = rpcArgs[i] /\ r \in Seq(Bytes)
        BY <1>1, ArgumentsAre DEF RequestRight
    <2>5. CASE e.ptr /\ e.length = 0
      <3>1. h[i] = HostArg("NULL", <<>>)
          BY <2>2, <2>5
      <3> QED
          BY <2>3, <2>5, <3>1 DEF HostArg
    <2>6. CASE e.ptr /\ ~ e.input /\ e.length # 0
      <3>1. h[i] = HostArg("invalid", <<>>)
          BY <2>1, <2>2, <2>6
      <3> QED
          BY <2>3, <2>6, <3>1 DEF HostArg
    <2>7. CASE e.input /\ ~ (e.ptr /\ e.length = 0)
      <3>1. h[i] = HostArg("data", r)
          BY <2>2, <2>7
      <3> QED
          BY <2>4, <2>7, <3>1 DEF HostArg
    <2>8. CASE ~ e.ptr /\ ~ e.input
      <3>1. h[i] = HostArg("untouched", <<>>)
          BY <2>2, <2>8
      <3> QED
          BY <2>3, <2>8, <3>1 DEF HostArg
    <2> QED
        BY <2>5, <2>6, <2>7, <2>8
  <1>5. rpcDesc' = d
      BY <1>2
  <1>6. ArgumentsRight(m)'
      BY <1>3, <1>4, <1>5 DEF ArgumentsRight
  <1>7. HostSeesInputs'
      BY <1>1, <1>2, <1>4, <1>5 DEF HostSeesInputs
  <1>8. RequestRight(m)'
      BY <1>1, <1>2 DEF RequestRight
  <1>9. Agreed(m, rpcDesc', hostSize') /\ rpcArgs' = Arguments(rpcDesc', "client")
      BY <1>1, <1>2 DEF CallRight
  <1> QED
      BY <1>1, <1>6, <1>7, <1>8, <1>9 DEF CallRight, ClientGetsOutputs

LEMMA FunctionStep == ASSUME NEW m \in Nat, CallRight(m), HostFunction PROVE CallRight(m)'
  <1> PICK d : d = rpcDesc
      OBVIOUS
  <1>1. /\ d \in [1..m -> Desc] /\ rpcArgs = Arguments(d, "client") /\ RequestRight(m)
        /\ rpcPhase' = "returned" /\ rpcReq.desc = d /\ Len(d) = m /\ ArgumentsRight(m)
        /\ hostSize \in [1..m -> Nat] /\ \A i \in 1..m : d[i].output => d[i].length <= hostSize[i]
      BY Directions DEF CallRight, Agreed, HostFunction, RequestRight
  <1>2. UNCHANGED <<hostSize, rpcDesc, rpcArgs, rpcReq, rpcResp>>
      BY DEF HostFunction
  <1> PICK g, h : g = hostArgs /\ h = hostArgs'
      OBVIOUS
  <1>3. h = [i \in 1..m |-> IF d[i].output /\ g[i].kind # "NULL"
                           THEN HostArg("data", ArgBytes(hostSize[i], i, "host")) ELSE g[i]]
      BY <1>1 DEF HostFunction
  <1>4. ASSUME NEW i \in 1..m, d[i].output
        PROVE  /\ h[i].bytes \in Seq(Bytes)
               /\ Copied(h[i].bytes, d[i].length) = ArgBytes(d[i].length, i, "host")
    <2> PICK l, z : l = d[i].length /\ z = hostSize[i]
        OBVIOUS
    <2>1. l \in Nat /\ z \in Nat /\ l <= z /\ i \in Nat
        BY <1>1, <1>4 DEF Desc
    <2>2. CASE g[i].kind # "NULL"
      <3>1. h[i].bytes = ArgBytes(z, i, "host")
          BY <1>3, <1>4, <2>2 DEF HostArg
      <3>2. ArgBytes(z, i, "host") \in Seq(Bytes) /\ Copied(ArgBytes(z, i, "host"), l) = ArgBytes(l, i, "host")
        <4>1. "host" \in {"client", "host"}
            OBVIOUS
        <4> QED
            BY ONLY <2>1, <4>1, ArgBytesAre
      <3> QED
          BY <3>1, <3>2
    <2>3. CASE g[i].kind = "NULL"
      <3>1. h[i] = g[i] /\ l = 0 /\ g[i].bytes \in Seq(Bytes)
          BY <1>1, <1>3, <2>3 DEF ArgumentsRight
      <3>2. 1..0 = {}
          OBVIOUS
      <3>3. Copied(g[i].bytes, 0) = ArgBytes(0, i, "host")
          BY <3>2 DEF Copied, ArgBytes
      <3> QED
          BY <3>1, <3>3
    <2> QED
        BY <2>2, <2>3
  <1>5. rpcDesc' = d
      BY <1>2
  <1>6. ResultsRight(m)'
      BY <1>3, <1>4, <1>5 DEF ResultsRight
  <1>7. RequestRight(m)'
      BY <1>1, <1>2 DEF RequestRight
  <1>8. Agreed(m, rpcDesc', hostSize') /\ rpcArgs' = Arguments(rpcDesc', "client")
      BY <1>1, <1>2 DEF CallRight
  <1> QED
      BY <1>1, <1>6, <1>7, <1>8 DEF CallRight, ClientGetsOutputs

LEMMA RespondStep == ASSUME NEW m \in Nat, CallRight(m), Respond PROVE CallRight(m)'
  <1> PICK d, h : d = rpcDesc /\ h = hostArgs
      OBVIOUS
  <1>1. /\ d \in [1..m -> Desc] /\ rpcArgs = Arguments(d, "client") /\ RequestRight(m)
        /\ rpcPhase' = "responded" /\ rpcReq.desc = d /\ ResultsRight(m)
      BY DEF CallRight, Agreed, Respond, RequestRight
  <1>2. UNCHANGED <<hostSize, rpcDesc, rpcArgs, rpcReq, hostArgs>>
      BY DEF Respond
  <1>3. Len(h) = m
      BY <1>1, LenOf DEF ResultsRight
  <1> PICK values : values = [i \in 1..m |-> h[i].bytes]
      OBVIOUS
  <1> PICK chosen, msg : chosen = Outputs(d) /\ msg = Gather(d, chosen, values)
      OBVIOUS
  <1>4. chosen \in Bits(m) /\ \A i \in 1..m : chosen[i] = d[i].output
      BY <1>1, Directions
  <1>5. Sources(m, chosen, values)
      BY <1>1, <1>4 DEF Sources, ResultsRight
  <1>6. MessageRight(m, d, chosen, values, msg)
      BY <1>1, <1>4, <1>5, Gathered, Zenon
  <1>7. rpcResp' = [length |-> IntSize + TotalLength(d, chosen), desc |-> <<>>, params |-> msg]
      BY <1>1, <1>3 DEF Respond, rpc_response_marshall
  <1>8. rpcResp'.params = msg /\ rpcResp'.length = IntSize + Len(msg)
      BY <1>6, <1>7 DEF MessageRight
  <1>9. ASSUME NEW i \in 1..m, d[i].output
        PROVE  Received(rpcResp', d, chosen, i) = ArgBytes(d[i].length, i, "host")
    <2>1. SubSeq(msg, PlaceOf(d, chosen, i) + 1, PlaceOf(d, chosen, i) + d[i].length)
            = Copied(values[i], d[i].length)
        BY <1>4, <1>6, <1>9 DEF MessageRight
    <2>2. Copied(values[i], d[i].length) = ArgBytes(d[i].length, i, "host")
        BY <1>1, <1>9 DEF ResultsRight
    <2>3. rpcResp'.params = msg
        BY <1>8
    <2> QED
        BY <2>1, <2>2, <2>3 DEF Received
  <1>10. rpcDesc' = d
      BY <1>2
  <1>11. ResponseRight(m)'
      BY <1>8, <1>9, <1>10 DEF ResponseRight
  <1>12. RequestRight(m)'
      BY <1>1, <1>2 DEF RequestRight
  <1>13. Agreed(m, rpcDesc', hostSize') /\ rpcArgs' = Arguments(rpcDesc', "client")
      BY <1>1, <1>2 DEF CallRight
  <1> QED
      BY <1>1, <1>11, <1>12, <1>13 DEF CallRight, ClientGetsOutputs

LEMMA ReturnStep == ASSUME NEW m \in Nat, CallRight(m), MarshalReturn PROVE CallRight(m)'
  <1> PICK d, a : d = rpcDesc /\ a = rpcArgs
      OBVIOUS
  <1>1. /\ d \in [1..m -> Desc] /\ a = Arguments(d, "client") /\ RequestRight(m)
        /\ rpcPhase' = "done" /\ ResponseRight(m) /\ Len(d) = m
      BY Directions DEF CallRight, Agreed, MarshalReturn
  <1>2. UNCHANGED <<hostSize, rpcDesc, rpcReq, hostArgs, rpcResp>>
      BY DEF MarshalReturn
  <1>3. rpcArgs' = [i \in 1..m |-> IF d[i].output THEN Received(rpcResp, d, Outputs(d), i) ELSE a[i]]
      BY <1>1 DEF MarshalReturn, rpc_response_unmarshall
  <1>4. rpcDesc' = d
      BY <1>2
  <1>5. \A i \in 1..m : a[i] = ArgBytes(d[i].length, i, "client")
      BY <1>1, ArgumentsAre
  <1>6. \A i \in 1..m : d[i].output => Received(rpcResp, d, Outputs(d), i) = ArgBytes(d[i].length, i, "host")
      BY <1>1 DEF ResponseRight
  <1>7. \A i \in 1..m : rpcArgs'[i] = ArgBytes(d[i].length, i, IF d[i].output THEN "host" ELSE "client")
      BY <1>3, <1>5, <1>6
  <1>8. ClientGetsOutputs'
      BY <1>1, <1>4, <1>7 DEF ClientGetsOutputs
  <1>9. RequestRight(m)'
      BY <1>1, <1>2 DEF RequestRight
  <1>10. Agreed(m, rpcDesc', hostSize')
      BY <1>2 DEF CallRight
  <1> QED
      BY <1>1, <1>8, <1>9, <1>10 DEF CallRight

LEMMA MarshalStep == ASSUME MarshalInv, [MarshalNext]_marshalVars PROVE MarshalInv'
  <1> PICK m \in Nat : CallRight(m)
      BY DEF MarshalInv
  <1>1. CASE UNCHANGED marshalVars
    <2>1. CallRight(m)'
        BY <1>1 DEF marshalVars, CallRight, RequestRight, ArgumentsRight, ResultsRight, ResponseRight,
                    HostSeesInputs, ClientGetsOutputs
    <2> QED
        BY <2>1 DEF MarshalInv
  <1>2. CASE MarshalRequest
      BY <1>2, RequestStep DEF MarshalInv
  <1>3. CASE Unmarshall
      BY <1>3, UnmarshallStep DEF MarshalInv
  <1>4. CASE HostFunction
      BY <1>4, FunctionStep DEF MarshalInv
  <1>5. CASE Respond
      BY <1>5, RespondStep DEF MarshalInv
  <1>6. CASE MarshalReturn
      BY <1>6, ReturnStep DEF MarshalInv
  <1> QED
      BY <1>1, <1>2, <1>3, <1>4, <1>5, <1>6 DEF MarshalNext

LEMMA MarshalInvExact == MarshalInv => RpcExact
  <1> SUFFICES ASSUME NEW m \in Nat, CallRight(m) PROVE RpcExact
      BY DEF MarshalInv
  <1>1. Agreed(m, rpcDesc, hostSize) /\ Len(rpcDesc) = m
      BY Directions DEF CallRight, Agreed
  <1>2. BuffersFit
      BY <1>1 DEF CallRight, Agreed, RequestRight, ResponseRight, BuffersFit
  <1>3. HostSeesInputs
      BY DEF CallRight, HostSeesInputs
  <1> QED
      BY <1>2, <1>3 DEF CallRight, RpcExact

\* A call of agreed parameters starts right.
LEMMA CallStarts ==
  ASSUME NEW m \in Nat, NEW d, NEW sizes, Agreed(m, d, sizes), CallOf(d, sizes)
  PROVE  MarshalInv
  <1>1. CallRight(m)
      BY DEF CallOf, CallRight, ClientGetsOutputs
  <1> QED
      BY <1>1 DEF MarshalInv

LEMMA MarshalStarts == MarshalInit => MarshalInv
  <1> SUFFICES ASSUME NEW d \in SeqOf(Descriptors, MaxParams),
                      CallOf(d, [i \in 1..Len(d) |-> d[i].length])
               PROVE  MarshalInv
      BY DEF MarshalInit
  <1>1. PICK m \in 0..MaxParams : d \in [1..m -> Descriptors]
      BY DEF SeqOf
  <1>2. m \in Nat /\ Len(d) = m
      BY <1>1, MarshalAssumption
  <1>3. Descriptors \subseteq Desc
    <2>1. TypeSizes \subseteq Nat /\ BufferLengths \subseteq Nat
        BY MarshalAssumption
    <2>2. ASSUME NEW e \in Scalars PROVE e \in Desc
        BY <2>1 DEF Scalars, Desc
    <2>3. ASSUME NEW e \in Buffers PROVE e \in Desc
        BY <2>1 DEF Buffers, Desc
    <2> QED
        BY <2>2, <2>3 DEF Descriptors
  <1>4. d \in [1..m -> Desc]
      BY <1>1, <1>3
  <1>5. Agreed(m, d, [i \in 1..Len(d) |-> d[i].length])
      BY <1>2, <1>4 DEF Agreed, Desc
  <1> QED
      BY <1>2, <1>5, CallStarts, Zenon

\* The two sides of every function of a driver.
SidesAgree(remote, host) ==
  \A fcode \in DOMAIN remote : \E m \in Nat : Agreed(m, remote[fcode], host[fcode])

LEMMA CallFromStarts ==
  ASSUME NEW remote, NEW host, SidesAgree(remote, host), CallFrom(remote, host)
  PROVE  MarshalInv
  <1>1. PICK fcode \in DOMAIN remote : CallOf(remote[fcode], host[fcode])
      BY DEF CallFrom
  <1>2. PICK m \in Nat : Agreed(m, remote[fcode], host[fcode])
      BY <1>1 DEF SidesAgree
  <1> QED
      BY <1>1, <1>2, CallStarts, Zenon

LEMMA ParameterTypes ==
  /\ WordIn \in Desc /\ WordIn.length = Word
  /\ ByteIn \in Desc /\ ByteIn.length = Byte
  /\ WordOut \in Desc /\ WordOut.length = Word
  /\ RPC_PARAM_RETURN(Byte) \in Desc /\ RPC_PARAM_RETURN(Byte).length = Byte
  /\ Word \in Nat /\ Byte \in Nat /\ InMessage \in Nat
    BY DEF WordIn, ByteIn, WordOut, RPC_PARAM_TYPE, RPC_PARAM_RETURN, Desc, Word, Byte, InMessage

LEMMA BufferTypes ==
  ASSUME NEW size \in Nat, NEW n \in Nat
  PROVE  /\ RPC_PARAM_IN_BUFFER(size, n) \in Desc
         /\ RPC_PARAM_IN_BUFFER(size, n).ptr /\ ~ RPC_PARAM_IN_BUFFER(size, n).output
         /\ RPC_PARAM_OUT_BUFFER(size, n) \in Desc
         /\ RPC_PARAM_OUT_BUFFER(size, n).length = size * n
  <1>1. size * n \in Nat
      OBVIOUS
  <1> PICK k : k = size * n
      OBVIOUS
  <1> QED
      BY <1>1 DEF RPC_PARAM_IN_BUFFER, RPC_PARAM_OUT_BUFFER, Desc

\* Functions that have only words.
LEMMA WordsAgree ==
  /\ Agreed(1, <<WordIn>>, <<Word>>)
  /\ \A a \in {WordIn, WordOut} : Agreed(2, <<WordIn, a>>, <<Word, Word>>)
  /\ \A a \in {WordIn, WordOut} : Agreed(3, <<WordIn, WordIn, a>>, <<Word, Word, Word>>)
  /\ \A a \in {WordIn, WordOut} : Agreed(4, <<WordIn, a, a, a>>, <<Word, Word, Word, Word>>)
  /\ Agreed(5, <<WordIn, WordIn, WordIn, WordIn, WordIn>>, <<Word, Word, Word, Word, Word>>)
  <1> PICK w, o, z : w = WordIn /\ o = WordOut /\ z = Word
      OBVIOUS
  <1>1. w \in Desc /\ w.length = z /\ o \in Desc /\ o.length = z /\ z \in Nat
      BY ParameterTypes
  <1>2. Agreed(1, <<w>>, <<z>>)
      BY ONLY <1>1 DEF Agreed
  <1>3. ASSUME NEW a \in {w, o} PROVE Agreed(2, <<w, a>>, <<z, z>>)
      BY ONLY <1>1, a \in {w, o} DEF Agreed
  <1>4. ASSUME NEW a \in {w, o} PROVE Agreed(3, <<w, w, a>>, <<z, z, z>>)
      BY ONLY <1>1, a \in {w, o} DEF Agreed
  <1>5. ASSUME NEW a \in {w, o} PROVE Agreed(4, <<w, a, a, a>>, <<z, z, z, z>>)
      BY ONLY <1>1, a \in {w, o} DEF Agreed
  <1>6. Agreed(5, <<w, w, w, w, w>>, <<z, z, z, z, z>>)
      BY ONLY <1>1 DEF Agreed
  <1> QED
      BY <1>2, <1>3, <1>4, <1>5, <1>6

LEMMA GpioAgrees == SidesAgree(gpio_remote, gpio_host)
  <1> SUFFICES ASSUME NEW fcode \in DOMAIN gpio_remote
               PROVE  \E m \in Nat : Agreed(m, gpio_remote[fcode], gpio_host[fcode])
      BY DEF SidesAgree
  <1> PICK r, h : r = gpio_remote[fcode] /\ h = gpio_host[fcode]
      OBVIOUS
  <1>1. \/ r = <<WordIn, WordIn>> /\ h = <<Word, Word>>
        \/ r = <<WordIn, WordIn, WordOut>> /\ h = <<Word, Word, Word>>
        \/ r = <<WordIn, WordIn, WordIn>> /\ h = <<Word, Word, Word>>
      BY DEF gpio_remote, gpio_host
  <1>2. 2 \in Nat /\ 3 \in Nat
      OBVIOUS
  <1> QED
      BY <1>1, <1>2, WordsAgree

LEMMA ClockAgrees == SidesAgree(clock_control_remote, clock_control_host)
  <1> SUFFICES ASSUME NEW fcode \in DOMAIN clock_control_remote
               PROVE  \E m \in Nat : Agreed(m, clock_control_remote[fcode], clock_control_host[fcode])
      BY DEF SidesAgree
  <1> PICK r, h : r = clock_control_remote[fcode] /\ h = clock_control_host[fcode]
      OBVIOUS
  <1> PICK S, G, N : S = clock_control_setters /\ G = clock_control_getters /\ N = clock_control_node
      OBVIOUS
  <1>1. h = IF fcode \in DOMAIN S THEN S[fcode] ELSE IF fcode \in DOMAIN G THEN G[fcode] ELSE N[fcode]
      BY DEF clock_control_host
  <1>2. CASE fcode \in DOMAIN S
    <2>1. r = <<WordIn, WordIn>> /\ h = <<Word, Word>>
        BY <1>1, <1>2 DEF clock_control_setters, clock_control_remote
    <2> QED
        BY <2>1, WordsAgree
  <1>3. CASE fcode \notin DOMAIN S /\ fcode \in DOMAIN G
    <2>1. r = <<WordIn, WordOut>> /\ h = <<Word, Word>>
        BY <1>1, <1>3 DEF clock_control_getters, clock_control_remote
    <2> QED
        BY <2>1, WordsAgree
  <1>4. CASE fcode \notin DOMAIN S /\ fcode \notin DOMAIN G
    <2>1. fcode \in {"set_node_pll_ratio", "get_node_pll_ratio", "scale_links", "reset_links",
                     "get_local_lock", "release_local_lock"}
        BY <1>4 DEF clock_control_remote, clock_control_setters, clock_control_getters
    <2>2. h = N[fcode]
        BY <1>1, <1>4
    <2>3. \/ r = <<WordIn, WordIn, WordIn, WordIn>> /\ h = <<Word, Word, Word, Word>>
          \/ r = <<WordIn, WordOut, WordOut, WordOut>> /\ h = <<Word, Word, Word, Word>>
          \/ r = <<WordIn, WordIn, WordIn, WordIn, WordIn>> /\ h = <<Word, Word, Word, Word, Word>>
          \/ r = <<WordIn, WordIn, WordIn>> /\ h = <<Word, Word, Word>>
          \/ r = <<WordIn>> /\ h = <<Word>>
        BY <2>1, <2>2 DEF clock_control_remote, clock_control_node
    <2>4. 1 \in Nat /\ 3 \in Nat /\ 4 \in Nat /\ 5 \in Nat
        OBVIOUS
    <2> QED
        BY <2>3, <2>4, WordsAgree
  <1> QED
      BY <1>2, <1>3, <1>4

LEMMA FlashAgrees ==
  ASSUME NEW n \in Nat PROVE SidesAgree(qspi_flash_remote(n), qspi_flash_host(n))
  <1> SUFFICES ASSUME NEW fcode \in DOMAIN qspi_flash_remote(n)
               PROVE  \E m \in Nat : Agreed(m, qspi_flash_remote(n)[fcode], qspi_flash_host(n)[fcode])
      BY DEF SidesAgree
  <1> PICK r, h : r = qspi_flash_remote(n)[fcode] /\ h = qspi_flash_host(n)[fcode]
      OBVIOUS
  <1> PICK w, z, in, out : /\ w = WordIn /\ z = Word
                           /\ in = RPC_PARAM_IN_BUFFER(Byte, n) /\ out = RPC_PARAM_OUT_BUFFER(Byte, n)
      OBVIOUS
  <1>1. /\ w \in Desc /\ w.length = z /\ z \in Nat
        /\ in \in Desc /\ in.ptr /\ ~ in.output /\ out \in Desc /\ out.length = n
    <2>1. Byte \in Nat /\ Byte * n = n
        BY DEF Byte
    <2> QED
        BY <2>1, ParameterTypes, BufferTypes
  <1>2. \/ r = <<w>> /\ h = <<z>>
        \/ r = <<w, out, w, w>> /\ h = <<z, n, z, z>>
        \/ r = <<w, out, w, w, w>> /\ h = <<z, n, z, z, z>>
        \/ r = <<w, in, w, w>> /\ h = <<z, 0, z, z>>
        \/ r = <<w, w, w>> /\ h = <<z, z, z>>
      BY DEF qspi_flash_remote, qspi_flash_host, InMessage
  <1>3. CASE r = <<w, out, w, w>> /\ h = <<z, n, z, z>>
    <2>1. Agreed(4, r, h)
        BY ONLY <1>1, <1>3, n \in Nat DEF Agreed
    <2> QED
        BY <2>1
  <1>4. CASE r = <<w, out, w, w, w>> /\ h = <<z, n, z, z, z>>
    <2>1. Agreed(5, r, h)
        BY ONLY <1>1, <1>4, n \in Nat DEF Agreed
    <2> QED
        BY <2>1
  <1>5. CASE r = <<w, in, w, w>> /\ h = <<z, 0, z, z>>
    <2>1. Agreed(4, r, h)
        BY ONLY <1>1, <1>5 DEF Agreed
    <2> QED
        BY <2>1
  <1>6. 1 \in Nat /\ 3 \in Nat
      OBVIOUS
  <1> QED
      BY <1>2, <1>3, <1>4, <1>5, <1>6, WordsAgree

LEMMA I2cAgrees ==
  ASSUME NEW n \in Nat PROVE SidesAgree(i2c_master_remote(n), i2c_master_host(n))
  <1> SUFFICES ASSUME NEW fcode \in DOMAIN i2c_master_remote(n)
               PROVE  \E m \in Nat : Agreed(m, i2c_master_remote(n)[fcode], i2c_master_host(n)[fcode])
      BY DEF SidesAgree
  <1> PICK r, h : r = i2c_master_remote(n)[fcode] /\ h = i2c_master_host(n)[fcode]
      OBVIOUS
  <1> PICK w, o, b, bo, z, y, in, out :
           /\ w = WordIn /\ o = WordOut /\ b = ByteIn /\ bo = RPC_PARAM_RETURN(Byte) /\ z = Word /\ y = Byte
           /\ in = RPC_PARAM_IN_BUFFER(Byte, n) /\ out = RPC_PARAM_OUT_BUFFER(Byte, n)
      OBVIOUS
  <1>1. /\ w \in Desc /\ w.length = z /\ o \in Desc /\ o.length = z /\ z \in Nat
        /\ b \in Desc /\ b.length = y /\ bo \in Desc /\ bo.length = y /\ y \in Nat
        /\ in \in Desc /\ in.ptr /\ ~ in.output /\ out \in Desc /\ out.length = n
    <2>1. Byte \in Nat /\ Byte * n = n
        BY DEF Byte
    <2> QED
        BY <2>1, ParameterTypes, BufferTypes
  <1>2. \/ r = <<w, b, in, w, o, w, o>> /\ h = <<z, y, 0, z, z, z, z>>
        \/ r = <<w, b, out, w, w, o>> /\ h = <<z, y, n, z, z, z>>
        \/ r = <<w>> /\ h = <<z>>
        \/ r = <<w, b, b, b, o>> /\ h = <<z, y, y, y, z>>
        \/ r = <<w, b, b, bo, o>> /\ h = <<z, y, y, y, z>>
      BY DEF i2c_master_remote, i2c_master_host, InMessage
  <1>3. CASE r = <<w, b, in, w, o, w, o>> /\ h = <<z, y, 0, z, z, z, z>>
    <2>1. Agreed(7, r, h)
        BY ONLY <1>1, <1>3 DEF Agreed
    <2> QED
        BY <2>1
  <1>4. CASE r = <<w, b, out, w, w, o>> /\ h = <<z, y, n, z, z, z>>
    <2>1. Agreed(6, r, h)
        BY ONLY <1>1, <1>4, n \in Nat DEF Agreed
    <2> QED
        BY <2>1
  <1>5. CASE r = <<w, b, b, b, o>> /\ h = <<z, y, y, y, z>>
    <2>1. Agreed(5, r, h)
        BY ONLY <1>1, <1>5 DEF Agreed
    <2> QED
        BY <2>1
  <1>6. CASE r = <<w, b, b, bo, o>> /\ h = <<z, y, y, y, z>>
    <2>1. Agreed(5, r, h)
        BY ONLY <1>1, <1>6 DEF Agreed
    <2> QED
        BY <2>1
  <1> QED
      BY <1>2, <1>3, <1>4, <1>5, <1>6, WordsAgree

LEMMA SpiAgrees ==
  ASSUME NEW n \in Nat, NEW out \in BOOLEAN, NEW in \in BOOLEAN
  PROVE  SidesAgree(spi_master_remote(n, out, in), spi_master_host(n, in))
  <1> SUFFICES ASSUME NEW fcode \in DOMAIN spi_master_remote(n, out, in)
               PROVE  \E m \in Nat :
                        Agreed(m, spi_master_remote(n, out, in)[fcode], spi_master_host(n, in)[fcode])
      BY DEF SidesAgree
  <1> PICK r, h : r = spi_master_remote(n, out, in)[fcode] /\ h = spi_master_host(n, in)[fcode]
      OBVIOUS
  <1> PICK no, ni : no = (IF out THEN n ELSE 0) /\ ni = IF in THEN n ELSE 0
      OBVIOUS
  <1> PICK w, z, to, ti : /\ w = WordIn /\ z = Word
                          /\ to = RPC_PARAM_IN_BUFFER(Byte, no) /\ ti = RPC_PARAM_OUT_BUFFER(Byte, ni)
      OBVIOUS
  <1>1. /\ w \in Desc /\ w.length = z /\ z \in Nat /\ ni \in Nat
        /\ to \in Desc /\ to.ptr /\ ~ to.output /\ ti \in Desc /\ ti.length = ni
    <2>1. no \in Nat /\ ni \in Nat /\ Byte \in Nat
        BY DEF Byte
    <2>2. Byte * ni = ni
        BY <2>1 DEF Byte
    <2> QED
        BY <2>1, <2>2, ParameterTypes, BufferTypes
  <1>2. \/ r = <<w>> /\ h = <<z>>
        \/ r = <<w, to, ti, w>> /\ h = <<z, 0, ni, z>>
        \/ r = <<w, w>> /\ h = <<z, z>>
      BY DEF spi_master_remote, spi_master_host, InMessage
  <1>3. CASE r = <<w, to, ti, w>> /\ h = <<z, 0, ni, z>>
    <2>1. Agreed(4, r, h)
        BY ONLY <1>1, <1>3 DEF Agreed
    <2> QED
        BY <2>1
  <1>4. 1 \in Nat /\ 2 \in Nat
      OBVIOUS
  <1> QED
      BY <1>2, <1>3, <1>4, WordsAgree

\* A remote rx call is given as many bytes as the host has room for.
LEMMA I2sAgrees ==
  ASSUME NEW n \in Nat, I2sNumIn <= I2sNumOut PROVE SidesAgree(i2s_remote(n), i2s_host(n))
  <1> SUFFICES ASSUME NEW fcode \in DOMAIN i2s_remote(n)
               PROVE  \E m \in Nat : Agreed(m, i2s_remote(n)[fcode], i2s_host(n)[fcode])
      BY DEF SidesAgree
  <1> PICK r, h : r = i2s_remote(n)[fcode] /\ h = i2s_host(n)[fcode]
      OBVIOUS
  <1> PICK li, lo : li = n * (2 * I2sNumIn) /\ lo = n * (2 * I2sNumOut)
      OBVIOUS
  <1> PICK w, o, z, in, out, k : /\ w = WordIn /\ o = WordOut /\ z = Word /\ k = lo * Word
                                 /\ in = RPC_PARAM_OUT_BUFFER(Word, li) /\ out = RPC_PARAM_IN_BUFFER(Word, lo)
      OBVIOUS
  <1>1. li \in Nat /\ lo \in Nat /\ li <= lo
    <2> PICK a, b : a = 2 * I2sNumIn /\ b = 2 * I2sNumOut
        OBVIOUS
    <2>1. a \in Nat /\ b \in Nat /\ a <= b
        BY TablesAssumption
    <2>2. n * a \in Nat /\ n * b \in Nat /\ n * a <= n * b
        BY ONLY <2>1, n \in Nat
    <2> QED
        BY <2>2
  <1>2. /\ w \in Desc /\ w.length = z /\ o \in Desc /\ o.length = z /\ z \in Nat /\ k \in Nat
        /\ in \in Desc /\ in.length <= k /\ out \in Desc /\ out.ptr /\ ~ out.output
    <2>1. Word * li <= lo * Word /\ k \in Nat
        BY <1>1 DEF Word
    <2> QED
        BY <1>1, <2>1, ParameterTypes, BufferTypes
  <1>3. \/ r = <<w, in, w, w, o>> /\ h = <<z, k, z, z, z>>
        \/ r = <<w, out, w, w, o>> /\ h = <<z, 0, z, z, z>>
      BY DEF i2s_remote, i2s_host, InMessage
  <1>4. CASE r = <<w, in, w, w, o>> /\ h = <<z, k, z, z, z>>
    <2>1. Agreed(5, r, h)
        BY ONLY <1>2, <1>4 DEF Agreed
    <2> QED
        BY <2>1
  <1>5. CASE r = <<w, out, w, w, o>> /\ h = <<z, 0, z, z, z>>
    <2>1. Agreed(5, r, h)
        BY ONLY <1>2, <1>5 DEF Agreed
    <2> QED
        BY <2>1
  <1> QED
      BY <1>3, <1>4, <1>5

LEMMA MicAgrees ==
  ASSUME NEW n \in Nat PROVE SidesAgree(mic_array_remote(n), mic_array_host(n))
  <1> PICK c, k : c = n * MicCount /\ k = Word * n * MicCount
      OBVIOUS
  <1> PICK w, o, z, in : /\ w = WordIn /\ o = WordOut /\ z = Word
                         /\ in = RPC_PARAM_OUT_BUFFER(Word, c)
      OBVIOUS
  <1>1. c \in Nat /\ k \in Nat /\ Word * c = k
      BY TablesAssumption DEF Word
  <1>2. /\ w \in Desc /\ w.length = z /\ o \in Desc /\ o.length = z /\ z \in Nat
        /\ in \in Desc /\ in.length = k
      BY <1>1, ParameterTypes, BufferTypes
  <1>3. Agreed(5, <<w, in, w, w, o>>, <<z, k, z, z, z>>)
      BY ONLY <1>1, <1>2 DEF Agreed
  <1> QED
      BY <1>3 DEF SidesAgree, mic_array_remote, mic_array_host

LEMMA UartAgrees ==
  ASSUME NEW n \in Nat PROVE SidesAgree(uart_tx_remote(n), uart_tx_host)
  <1> PICK w, z, out : w = WordIn /\ z = Word /\ out = RPC_PARAM_IN_BUFFER(Byte, n)
      OBVIOUS
  <1>1. /\ w \in Desc /\ w.length = z /\ z \in Nat /\ out \in Desc /\ out.ptr /\ ~ out.output
      BY ParameterTypes, BufferTypes
  <1>2. Agreed(3, <<w, out, w>>, <<z, 0, z>>)
      BY ONLY <1>1 DEF Agreed
  <1> QED
      BY <1>2 DEF SidesAgree, uart_tx_remote, uart_tx_host, InMessage

LEMMA TablesStart == ASSUME I2sNumIn <= I2sNumOut, TablesInit PROVE MarshalInv
  <1>1. CASE CallFrom(gpio_remote, gpio_host)
      BY <1>1, GpioAgrees, CallFromStarts
  <1>2. CASE CallFrom(clock_control_remote, clock_control_host)
      BY <1>2, ClockAgrees, CallFromStarts
  <1>3. ASSUME NEW n \in RpcLengths,
               \/ CallFrom(qspi_flash_remote(n), qspi_flash_host(n))
               \/ CallFrom(i2c_master_remote(n), i2c_master_host(n))
               \/ CallFrom(i2s_remote(n), i2s_host(n))
               \/ CallFrom(mic_array_remote(n), mic_array_host(n))
               \/ CallFrom(uart_tx_remote(n), uart_tx_host)
               \/ \E out, in \in BOOLEAN :
                     CallFrom(spi_master_remote(n, out, in), spi_master_host(n, in))
        PROVE  MarshalInv
    <2>1. n \in Nat
        BY TablesAssumption
    <2>2. CASE CallFrom(qspi_flash_remote(n), qspi_flash_host(n))
        BY <2>1, <2>2, FlashAgrees, CallFromStarts, Zenon
    <2>3. CASE CallFrom(i2c_master_remote(n), i2c_master_host(n))
        BY <2>1, <2>3, I2cAgrees, CallFromStarts, Zenon
    <2>4. CASE CallFrom(i2s_remote(n), i2s_host(n))
        BY <2>1, <2>4, I2sAgrees, CallFromStarts, Zenon
    <2>5. CASE CallFrom(mic_array_remote(n), mic_array_host(n))
        BY <2>1, <2>5, MicAgrees, CallFromStarts, Zenon
    <2>6. CASE CallFrom(uart_tx_remote(n), uart_tx_host)
        BY <2>1, <2>6, UartAgrees, CallFromStarts, Zenon
    <2>7. ASSUME NEW out \in BOOLEAN, NEW in \in BOOLEAN,
                 CallFrom(spi_master_remote(n, out, in), spi_master_host(n, in))
          PROVE  MarshalInv
        BY <2>1, <2>7, SpiAgrees, CallFromStarts, Zenon
    <2> QED
        BY <1>3, <2>2, <2>3, <2>4, <2>5, <2>6, <2>7
  <1> QED
      BY <1>1, <1>2, <1>3 DEF TablesInit

\* A call between tiles is the call of the function: every input arrives and every output
\* comes back, by the same sums of lengths on both sides of rtos_rpc.c, and nothing is
\* copied past the end of what was allocated, for every function of the drivers' _rpc.c
\* files and every other list of parameters.  i2s_rx_rpc_host allocates for the lines that
\* send (rtos_i2s_rpc.c:85), so there must be as many of them as of those that receive.
THEOREM RpcIsExact == ASSUME I2sNumIn <= I2sNumOut PROVE TablesSpec => []RpcExact
  <1>1. MarshalInit \/ TablesInit => MarshalInv
      BY MarshalStarts, TablesStart
  <1>2. MarshalInv /\ [MarshalNext]_marshalVars => MarshalInv'
      BY MarshalStep
  <1>3. MarshalInv => RpcExact
      BY MarshalInvExact
  <1> QED
      BY <1>1, <1>2, <1>3, PTL DEF TablesSpec
=============================================================================
