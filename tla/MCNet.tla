------------------------------- MODULE MCNet --------------------------------
(***************************************************************************)
(* The protocols above the NIC for TLC.  A behaviour is one of:            *)
(*   lease    Dhcp with two servers that have an address each              *)
(*   lossy    Dhcp with one server and a wire that loses three messages    *)
(*   ip       IpStack: the gateway and two more hosts on the subnet, one   *)
(*            outside, two MACs, and a cache that one host does not fit in *)
(*   sums     NetChecksum: bytes at the edges of a byte and of a carry,    *)
(*            even and odd lengths, and the addresses of a DHCP discover   *)
(*            (0.0.0.0 to 255.255.255.255)                                 *)
(* In both Dhcp instances the receive ring has one descriptor and the      *)
(* service is stopped and started once.                                    *)
(***************************************************************************)
EXTENDS Dhcp, IpStack, NetChecksum

VARIABLES part,
    l_state, l_offer_ip, l_srv_id, l_wait, l_ip, l_nic, l_pc, l_rx, l_net,
    l_leased, l_restarts, l_lost

lossyVars == <<l_state, l_offer_ip, l_srv_id, l_wait, l_ip, l_nic, l_pc, l_rx, l_net,
               l_leased, l_restarts, l_lost>>

Lossy == INSTANCE Dhcp WITH
             Servers <- {1}, Addrs <- {1}, Owner <- <<1>>, MaxLost <- 3,
             dh_state <- l_state, dh_offer_ip <- l_offer_ip, dh_srv_id <- l_srv_id,
             dh_wait <- l_wait, g_net_ip <- l_ip, nic <- l_nic, pc <- l_pc,
             rx <- l_rx, net <- l_net, leased <- l_leased,
             restarts <- l_restarts, lost <- l_lost

MCOwner == [ip \in Addrs |-> ip]
MCSrcIp == <<0, 0>>
MCDstIp == <<65535, 65535>>

-----------------------------------------------------------------------------
MCInit ==
    /\ part \in {"lease", "lossy", "ip", "sums"}
    /\ LeaseInit /\ Lossy!LeaseInit /\ IpInit /\ SumInit
    /\ part # "sums" => pkt = [k \in 1..8 |-> 0]

MCNext ==
    \/ part = "lease" /\ LeaseNext /\ UNCHANGED <<part, lossyVars, ipVars, sumVars>>
    \/ part = "lossy" /\ Lossy!LeaseNext /\ UNCHANGED <<part, leaseVars, ipVars, sumVars>>
    \/ part = "ip" /\ IpNext /\ UNCHANGED <<part, leaseVars, lossyVars, sumVars>>
    \/ part = "sums" /\ SumNext /\ UNCHANGED <<part, leaseVars, lossyVars, ipVars>>
    \* a packet with its checksum is sent; that is all
    \/ part = "sums" /\ stored /\ UNCHANGED <<part, leaseVars, lossyVars, ipVars, sumVars>>

Handled ==
    \E m \in Lossy!Message :
        Lossy!dhcp_rx_offer(m) \/ Lossy!dhcp_rx_ack(m) \/ Lossy!dhcp_rx_ignore(m)
Arrives(t) == \E m \in l_net : m.type = t /\ m.mine /\ Lossy!deliver(m)

\* The fairness of Dhcp's LeaseFairSpec, on the lossy wire.
MCSpec ==
    /\ MCInit /\ [][MCNext]_<<part, leaseVars, lossyVars, ipVars, sumVars>>
    /\ WF_lossyVars(part = "lossy" /\ Lossy!ionet_init)
    /\ WF_lossyVars(part = "lossy" /\ Lossy!pit_tick)
    /\ SF_lossyVars(part = "lossy" /\ Lossy!dhcp_poll)
    /\ WF_lossyVars(part = "lossy" /\ Handled)
    /\ SF_lossyVars(part = "lossy" /\ Lossy!offer(1))
    /\ SF_lossyVars(part = "lossy" /\ Lossy!ack(1))
    /\ SF_lossyVars(part = "lossy" /\ Arrives("offer"))
    /\ SF_lossyVars(part = "lossy" /\ Arrives("ack"))

\* The liveness of the instance, in the behaviours that are about it.
LossyEventuallyBound == part = "lossy" => Lossy!EventuallyBound
=============================================================================
