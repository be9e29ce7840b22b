------------------------------ MODULE IpStack ------------------------------
(***************************************************************************)
(* The stack above the NIC once a lease is held (iokit/IONetFamily):       *)
(* ether_rx dispatches a received frame to arp_rx or, through ipv4_rx, to  *)
(* icmp_rx; ionet_poll pings the gateway; ipv4_send resolves the next hop  *)
(* in the ARP cache.  Any host may send any frame at any time, and a host  *)
(* may come back with another MAC address.                                 *)
(***************************************************************************)
EXTENDS Naturals, FiniteSetsExt

CONSTANTS
    Me, Gw,            \* g_net_ip, g_net_gw
    Local, Remote,     \* hosts inside and outside the subnet
    Macs,
    ARP_CACHE_SIZE,
    Period             \* ticks between pings

ASSUME IpAssumption == ARP_CACHE_SIZE \in Nat

VARIABLES
    cache,        \* slot -> entry, or Free
    pings_sent, ping_wait,
    tx,           \* the frame the last step handed to the NIC, if any
    heard         \* history: host -> the MAC it announced last

ipVars == <<cache, pings_sent, ping_wait, tx, heard>>

Slots == 1..ARP_CACHE_SIZE
Free == [used |-> FALSE]
NoFrame == [mac |-> "none", body |-> [type |-> "none"]]
Entry(ip, mac) == [used |-> TRUE, ip |-> ip, mac |-> mac]

IpInit ==
    /\ cache = [i \in Slots |-> Free]
    /\ pings_sent = 0 /\ ping_wait = 0
    /\ tx = NoFrame
    /\ heard = [h \in Local |-> "none"]

Holds(i, ip) == cache[i].used /\ cache[i].ip = ip
Holding(ip) == {i \in Slots : Holds(i, ip)}
Unused == {i \in Slots : ~cache[i].used}
Known(ip) == Holding(ip) # {}

\* Fault: the address of the entry is not compared.
arp_lookup_AnyEntry(ip) == cache[Min(Slots \ Unused)].mac

\* arp_lookup: the first entry for the address.
arp_lookup(ip) == cache[Min(Holding(ip))].mac

\* Fault: a known address keeps its first MAC.
arp_cache_add_KeepOld(ip, mac) ==
    IF Known(ip) \/ Unused = {}
      THEN cache
      ELSE [cache EXCEPT ![Min(Unused)] = Entry(ip, mac)]

\* The slot that has the address, else the first free one; a full table drops.
arp_cache_add(ip, mac) ==
    IF Known(ip) THEN [cache EXCEPT ![Min(Holding(ip))] = Entry(ip, mac)]
    ELSE IF Unused # {}
           THEN [cache EXCEPT ![Min(Unused)] = Entry(ip, mac)]
           ELSE cache

-----------------------------------------------------------------------------
\* ether_send builds the header in the 14 bytes it is given.  A caller that
\* passes the payload itself has its first bytes overwritten.
ether_send(mac, body, room) ==
    [mac |-> mac, body |-> IF room THEN body ELSE [type |-> "garbled"]]

Broadcast == "ff:ff"
arp_request(ip) == ether_send(Broadcast, [type |-> "arp_request", ip |-> ip], TRUE)

NextHop(dst) == IF dst \in Remote THEN Gw ELSE dst

\* The frame goes out if the next hop is known; else an ARP request does, and
\* the frame is gone.
ipv4_send(dst, body) ==
    IF Known(NextHop(dst))
      THEN ether_send(arp_lookup(NextHop(dst)), body, TRUE)
      ELSE arp_request(NextHop(dst))

\* An ARP packet: remember the sender; answer a request for our address in the
\* buffer the packet came in.
arp_rx(spa, sha, op, tpa) ==
    /\ cache' = arp_cache_add(spa, sha)
    /\ heard' = [heard EXCEPT ![spa] = sha]
    /\ tx' = IF op = "request" /\ tpa = Me
               THEN ether_send(sha, [type |-> "arp_reply", ip |-> Me], FALSE)
               ELSE NoFrame
    /\ UNCHANGED <<pings_sent, ping_wait>>

\* An echo request that ipv4_rx lets through is for our address.
icmp_rx(src) ==
    /\ tx' = ipv4_send(src, [type |-> "echo_reply", ip |-> src])
    /\ UNCHANGED <<cache, pings_sent, ping_wait, heard>>

\* The tick: three pings, Period apart.
ionet_poll ==
    IF pings_sent < 3 /\ ping_wait = 0
      THEN /\ pings_sent' = pings_sent + 1
           /\ ping_wait' = Period
           /\ tx' = ipv4_send(Gw, [type |-> "echo", ip |-> Gw])
           /\ UNCHANGED <<cache, heard>>
      ELSE /\ ping_wait' = IF ping_wait = 0 THEN 0 ELSE ping_wait - 1
           /\ tx' = NoFrame
           /\ UNCHANGED <<cache, pings_sent, heard>>

IpNext ==
    \/ \E spa \in Local, sha \in Macs, op \in {"request", "reply"}, tpa \in {Me, Gw} :
         arp_rx(spa, sha, op, tpa)
    \/ \E src \in Local \cup Remote : icmp_rx(src)
    \/ ionet_poll

IpSpec == IpInit /\ [][IpNext]_ipVars

-----------------------------------------------------------------------------
\* No address has two entries, however hosts come, change and come back, and a
\* cached host is cached with the MAC it announced last: a host that changes its
\* card is reached again.
CacheCurrent ==
    /\ \A i, j \in Slots : \A ip \in Local : Holds(i, ip) /\ Holds(j, ip) => i = j
    /\ \A i \in Slots : cache[i].used => cache[i].mac = heard[cache[i].ip]

\* A frame to a host goes to the MAC which that host, or for a host outside
\* the subnet the gateway, announced last.
RightNextHop ==
    tx.body.type \in {"echo", "echo_reply"} =>
        tx.mac = heard[IF tx.body.ip \in Remote THEN Gw ELSE tx.body.ip]

\* ether.c:19, "payload must already start at frame+14 with room for the
\* header": no frame overwrites its own payload.
RoomForHeader == tx.body.type # "garbled"
=============================================================================
