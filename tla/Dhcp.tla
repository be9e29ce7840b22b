-------------------------------- MODULE Dhcp --------------------------------
(***************************************************************************)
(* The DHCP client of iokit/IONetFamily/dhcp.c as ionet_poll drives it     *)
(* from the timer tick: drain the receive ring, then, while there is no    *)
(* lease, let dhcp_poll send or send again.  The network loses, repeats    *)
(* and reorders messages.  Servers (external) offer free addresses and     *)
(* acknowledge what is requested of them.                                  *)
(*                                                                         *)
(* Time is counted in ticks; dh_wait is dh_next_try_ms minus the clock.    *)
(***************************************************************************)
EXTENDS Naturals, Sequences, FiniteSets

CONSTANTS
    Servers, Addrs,     \* addresses are not 0
    Owner,              \* which server gives out an address
    Retry,              \* the 4 s between attempts, in ticks
    RxSlots,            \* receive descriptors the NIC may fill
    MaxRestarts,        \* bound on ionet_exit / ionet_init rounds
    MaxLost             \* bound on messages lost

ASSUME DhcpAssumption ==
    /\ Owner \in [Addrs -> Servers] /\ 0 \notin Addrs
    /\ Retry \in Nat \ {0} /\ RxSlots \in Nat \ {0} /\ MaxRestarts \in Nat
    /\ MaxLost \in Nat

VARIABLES
    dh_state, dh_offer_ip, dh_srv_id, dh_wait,
    g_net_ip,
    nic,        \* g_netdev is set
    pc,         \* "idle", or "rx" inside ionet_poll
    rx,         \* frames in the receive ring
    net,        \* messages on the wire
    leased,     \* the servers' leases to this client
    restarts,   \* ionet_exit calls so far
    lost        \* messages lost so far

client == <<dh_state, dh_offer_ip, dh_srv_id, dh_wait, g_net_ip>>
leaseVars == <<client, nic, pc, rx, net, leased, restarts, lost>>

\* mine: does the message carry dh_xid
Message ==
    [type : {"discover"}]
    \cup [type : {"request"}, ip : Addrs, srv : Servers]
    \cup [type : {"offer", "ack", "nak"}, ip : Addrs \cup {0}, srv : Servers, mine : BOOLEAN]

LeaseInit ==
    /\ dh_state = "OFF" /\ dh_offer_ip = 0 /\ dh_srv_id = 0 /\ dh_wait = 0
    /\ g_net_ip = 0
    /\ nic = FALSE /\ pc = "idle" /\ rx = <<>>
    /\ net = {} /\ leased = {} /\ restarts = 0 /\ lost = 0

Request(ip, srv) == [type |-> "request", ip |-> ip, srv |-> srv]

\* Fault: the lease state is forgotten while the address stays configured.
ionet_init_Rediscover ==
    /\ ~nic /\ pc = "idle"
    /\ nic' = TRUE /\ rx' = <<>>
    /\ dh_state' = "DISCOVERING" /\ dh_wait' = 0
    /\ UNCHANGED <<dh_offer_ip, dh_srv_id, g_net_ip, pc, net, leased, restarts, lost>>

\* e1000_init succeeds; dhcp_start does nothing unless the client is off.
ionet_init ==
    /\ ~nic /\ pc = "idle"
    /\ nic' = TRUE /\ rx' = <<>>
    /\ IF dh_state = "OFF"
         THEN dh_state' = "DISCOVERING" /\ dh_wait' = 0
         ELSE UNCHANGED <<dh_state, dh_wait>>
    /\ UNCHANGED <<dh_offer_ip, dh_srv_id, g_net_ip, pc, net, leased, restarts, lost>>

ionet_exit ==
    /\ nic /\ pc = "idle" /\ restarts < MaxRestarts
    /\ nic' = FALSE /\ rx' = <<>> /\ restarts' = restarts + 1
    /\ UNCHANGED <<client, pc, net, leased, lost>>

\* The tick: a millisecond clock moves on, and ionet_poll starts.
pit_tick ==
    /\ nic /\ pc = "idle"
    /\ pc' = "rx"
    /\ dh_wait' = IF dh_wait = 0 THEN 0 ELSE dh_wait - 1
    /\ UNCHANGED <<dh_state, dh_offer_ip, dh_srv_id, g_net_ip, nic, rx, net, leased, restarts, lost>>

-----------------------------------------------------------------------------
\* dhcp_rx, on the frame at the head of the receive ring.
Received(m) == pc = "rx" /\ rx # <<>> /\ m = Head(rx)

dhcp_rx_offer(m) ==
    /\ Received(m) /\ m.mine
    /\ dh_state = "DISCOVERING" /\ m.type = "offer"
    /\ dh_offer_ip' = m.ip /\ dh_srv_id' = m.srv
    /\ net' = net \cup {Request(m.ip, m.srv)}
    /\ dh_state' = "REQUESTING"
    /\ dh_wait' = Retry
    /\ rx' = Tail(rx)
    /\ UNCHANGED <<g_net_ip, nic, pc, leased, restarts, lost>>

\* Fault: the transaction id is not compared.
dhcp_rx_ack_AnyXid(m) ==
    /\ Received(m)
    /\ dh_state = "REQUESTING" /\ m.type = "ack"
    /\ g_net_ip' = IF m.ip # 0 THEN m.ip ELSE dh_offer_ip
    /\ dh_state' = "BOUND"
    /\ rx' = Tail(rx)
    /\ UNCHANGED <<dh_offer_ip, dh_srv_id, dh_wait, nic, pc, net, leased, restarts, lost>>

dhcp_rx_ack(m) ==
    /\ Received(m) /\ m.mine
    /\ dh_state = "REQUESTING" /\ m.type = "ack"
    /\ g_net_ip' = IF m.ip # 0 THEN m.ip ELSE dh_offer_ip
    /\ dh_state' = "BOUND"
    /\ rx' = Tail(rx)
    /\ UNCHANGED <<dh_offer_ip, dh_srv_id, dh_wait, nic, pc, net, leased, restarts, lost>>

\* Everything else falls through, a NAK included.  With an address set,
\* ipv4_rx drops broadcasts before they come this far.
dhcp_rx_ignore(m) ==
    /\ Received(m)
    /\ ~m.mine
         \/ ~(\/ dh_state = "DISCOVERING" /\ m.type = "offer"
              \/ dh_state = "REQUESTING" /\ m.type = "ack")
    /\ rx' = Tail(rx)
    /\ UNCHANGED <<client, nic, pc, net, leased, restarts, lost>>

\* Fault: the request is sent once only.
dhcp_poll_NoRepeat ==
    /\ pc = "rx" /\ rx = <<>>
    /\ pc' = "idle"
    /\ IF dh_state = "DISCOVERING" /\ dh_wait = 0
         THEN net' = net \cup {[type |-> "discover"]} /\ dh_wait' = Retry
         ELSE UNCHANGED <<net, dh_wait>>
    /\ UNCHANGED <<dh_state, dh_offer_ip, dh_srv_id, g_net_ip, nic, rx, leased, restarts, lost>>

\* The ring is empty: e1000_poll returns, dhcp_poll sends if it is time.
dhcp_poll ==
    /\ pc = "rx" /\ rx = <<>>
    /\ pc' = "idle"
    /\ IF dh_state \in {"DISCOVERING", "REQUESTING"} /\ dh_wait = 0
         THEN /\ net' = net \cup {IF dh_state = "DISCOVERING" THEN [type |-> "discover"]
                                  ELSE Request(dh_offer_ip, dh_srv_id)}
              /\ dh_wait' = Retry
         ELSE UNCHANGED <<net, dh_wait>>
    /\ UNCHANGED <<dh_state, dh_offer_ip, dh_srv_id, g_net_ip, nic, rx, leased, restarts, lost>>

-----------------------------------------------------------------------------
\* The servers: an offer of any address they own for a discover; for a request
\* of one of their addresses an ACK, which may leave the address out, or a
\* refusal.
offer(ip) ==
    /\ [type |-> "discover"] \in net
    /\ net' = net \cup {[type |-> "offer", ip |-> ip, srv |-> Owner[ip], mine |-> TRUE]}
    /\ UNCHANGED <<client, nic, pc, rx, leased, restarts, lost>>

ack(ip) ==
    /\ Request(ip, Owner[ip]) \in net
    /\ leased' = leased \cup {ip}
    /\ \E yiaddr \in {ip, 0} :
         net' = net \cup {[type |-> "ack", ip |-> yiaddr, srv |-> Owner[ip], mine |-> TRUE]}
    /\ UNCHANGED <<client, nic, pc, rx, restarts, lost>>

nak(ip) ==
    /\ Request(ip, Owner[ip]) \in net /\ ip \notin leased
    /\ net' = net \cup {[type |-> "nak", ip |-> 0, srv |-> Owner[ip], mine |-> TRUE]}
    /\ UNCHANGED <<client, nic, pc, rx, leased, restarts, lost>>

\* Another client's answers are broadcast on the same wire.
other_client(ip) ==
    /\ ip \notin leased
    /\ \E t \in {"offer", "ack"} :
         net' = net \cup {[type |-> t, ip |-> ip, srv |-> Owner[ip], mine |-> FALSE]}
    /\ UNCHANGED <<client, nic, pc, rx, leased, restarts, lost>>

lose(m) ==
    /\ lost < MaxLost
    /\ lost' = lost + 1
    /\ net' = net \ {m}
    /\ UNCHANGED <<client, nic, pc, rx, leased, restarts>>

\* The NIC stores a frame if it has a descriptor; the wire may repeat it.
deliver(m) ==
    /\ m \in net /\ m.type \in {"offer", "ack", "nak"}
    /\ nic /\ Len(rx) < RxSlots
    /\ rx' = Append(rx, m)
    /\ net' \in {net, net \ {m}}
    /\ UNCHANGED <<client, nic, pc, leased, restarts, lost>>

Poll ==
    \/ ionet_init \/ pit_tick \/ dhcp_poll
    \/ \E m \in Message : dhcp_rx_offer(m) \/ dhcp_rx_ack(m) \/ dhcp_rx_ignore(m)

Network ==
    \/ \E ip \in Addrs : offer(ip) \/ ack(ip) \/ nak(ip) \/ other_client(ip)
    \/ \E m \in net : lose(m) \/ deliver(m)

LeaseNext == Poll \/ ionet_exit \/ Network

LeaseSpec == LeaseInit /\ [][LeaseNext]_leaseVars

\* The machine keeps ticking and finds the ring empty again and again; the
\* network does not hold a message back for ever, and some server answers.
LeaseFairSpec ==
    /\ LeaseSpec
    /\ WF_leaseVars(ionet_init) /\ WF_leaseVars(pit_tick) /\ SF_leaseVars(dhcp_poll)
    /\ WF_leaseVars(\E m \in Message : dhcp_rx_offer(m) \/ dhcp_rx_ack(m) \/ dhcp_rx_ignore(m))
    /\ SF_leaseVars(\E ip \in Addrs : offer(ip))
    /\ \A ip \in Addrs : SF_leaseVars(ack(ip))
    /\ SF_leaseVars(\E m \in net : m.type = "offer" /\ m.mine /\ deliver(m))
    /\ SF_leaseVars(\E m \in net : m.type = "ack" /\ m.mine /\ deliver(m))

-----------------------------------------------------------------------------
\* The interface only ever has an address that a server has leased to it,
\* whatever is lost, repeated, late, or meant for another client.
AddressLeased == g_net_ip # 0 => g_net_ip \in leased

\* Once configured the address stays, also when the service is stopped and
\* started again.
AddressStable == [][g_net_ip # 0 => g_net_ip' = g_net_ip]_leaseVars

\* "Retries every ~4 s while unconfigured" (dhcp.c:6) is enough to get a lease
\* over a network that may lose any message a bounded number of times.
EventuallyBound == <>(dh_state = "BOUND")
=============================================================================
