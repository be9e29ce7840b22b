---------------------------- MODULE NetChecksum ----------------------------
(***************************************************************************)
(* The internet checksum: ip_checksum of iokit/IONetFamily/ipv4.c, as      *)
(* hdr_fill, icmp_rx and icmp_echo_request use it, and the sum udp_send    *)
(* builds.  A packet is a sequence of bytes in wire order.  The result is  *)
(* stored byte-swapped, that is, most significant byte first.              *)
(***************************************************************************)
EXTENDS Integers, Sequences, SequencesExt

CONSTANTS
    Bytes,       \* byte values tried
    Lengths,     \* message lengths tried
    SrcIp, DstIp \* each as its two 16-bit halves

VARIABLES
    pkt,         \* an ICMP message; its checksum is bytes 3 and 4
    udp,         \* a UDP segment; its checksum is bytes 7 and 8
    stored       \* have the checksums been stored

sumVars == <<pkt, udp, stored>>

Plus(a, b) == a + b

\* 16-bit words, most significant byte first; an odd last byte is the high one.
WordSum(p) ==
    FoldLeft(Plus, 0, [k \in 1..(Len(p) \div 2) |-> p[2 * k - 1] * 256 + p[2 * k]])
    + (IF Len(p) % 2 = 1 THEN p[Len(p)] * 256 ELSE 0)

\* Fault: the carry of the first fold is lost.
Fold_Once(sum) == ((sum % 65536) + (sum \div 65536)) % 65536

\* while (sum >> 16): three rounds are enough for 32 bits.
Fold(sum) ==
    LET once(s) == (s % 65536) + (s \div 65536)
    IN  once(once(once(sum)))

ip_checksum(p) == 65535 - Fold(WordSum(p))

\* udp_send: the pseudo header's protocol and length are added byte-swapped.
Swap(w) == (w % 256) * 256 + (w \div 256)
IP_PROTO_UDP == 17
udp_checksum(p) ==
    65535 - Fold(SrcIp[1] + SrcIp[2] + DstIp[1] + DstIp[2]
                 + Swap(IP_PROTO_UDP) + Swap(Len(p)) + WordSum(p))

Store(p, k, sum) == [p EXCEPT ![k] = sum \div 256, ![k + 1] = sum % 256]

Messages == UNION {{p \in [1..n -> Bytes] : p[3] = 0 /\ p[4] = 0} : n \in Lengths}

\* A segment from port 68 to port 67 with its length, checksum field zero.
UdpSegment(data) ==
    <<0, 68, 0, 67, (8 + Len(data)) \div 256, (8 + Len(data)) % 256, 0, 0>> \o data

SumInit ==
    /\ pkt \in Messages
    /\ udp = UdpSegment(pkt)
    /\ stored = FALSE

\* Each sender computes the sum with the field zero and stores it there.
Fill ==
    /\ ~stored
    /\ stored' = TRUE
    /\ pkt' = Store(pkt, 3, ip_checksum(pkt))
    /\ udp' = Store(udp, 7, udp_checksum(udp))

SumNext == Fill

SumSpec == SumInit /\ [][SumNext]_sumVars

-----------------------------------------------------------------------------
\* A receiver's check in its defining form: the words add up to a multiple of
\* 65535, and not to nothing.
Verifies(sum) == sum > 0 /\ sum % 65535 = 0

\* What hdr_fill and the ICMP senders store verifies, and ipv4_rx's own test
\* (ip_checksum over the stored packet is zero) agrees with the definition.
ChecksumVerifies ==
    stored => Verifies(WordSum(pkt)) /\ ip_checksum(pkt) = 0

\* udp.c:81, "UDP with pseudo-header checksum": a receiver that adds source,
\* destination, protocol, length and segment finds the sum right.
UdpChecksumVerifies ==
    stored => Verifies(SrcIp[1] + SrcIp[2] + DstIp[1] + DstIp[2]
                       + IP_PROTO_UDP + Len(udp) + WordSum(udp))
=============================================================================
