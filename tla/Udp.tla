-------------------------------- MODULE Udp --------------------------------
(***************************************************************************)
(* The packets of one UDP stream (iperf_udp.c): the sender numbers them,   *)
(* the network loses, reorders and repeats them, and the receiver counts   *)
(* losses and disorder with the highest number seen so far and nothing     *)
(* else.  A number travels in 32 bits unless --udp-counters-64bit.         *)
(***************************************************************************)
EXTENDS Integers, FiniteSets

CONSTANTS
    MaxPackets,  \* bound: packets sent
    MaxArrivals, \* bound: packets received, repeated ones included
    Widths       \* how many different numbers fit into a packet

ASSUME UdpAssumption == Widths \subseteq Nat \ {0}

VARIABLES
    udpWidth,    \* the width in use, 0 before the streams are started
    udpSent,     \* packet_count of the sender
    udpFlight,   \* packets on the wire, by their true number
    udpSeen,     \* history: packets that have been received
    udpArrivals, \* history: how many receptions there were
    udpHighest,  \* packet_count of the receiver
    udpLost,     \* cnt_error
    udpDisorder  \* outoforder_packets

udpVars == <<udpWidth, udpSent, udpFlight, udpSeen, udpArrivals,
             udpHighest, udpLost, udpDisorder>>

UdpInit ==
    /\ udpWidth = 0 /\ udpSent = 0 /\ udpFlight = {}
    /\ udpSeen = {} /\ udpArrivals = 0
    /\ udpHighest = 0 /\ udpLost = 0 /\ udpDisorder = 0

(* The client's --udp-counters-64bit is one of the exchanged parameters *)
Agree ==
    /\ udpWidth = 0
    /\ udpWidth' \in Widths
    /\ UNCHANGED <<udpSent, udpFlight, udpSeen, udpArrivals,
                   udpHighest, udpLost, udpDisorder>>

(* iperf_udp_send: the counter is put back if nothing is written, so that   *)
(* the next packet has the same number                                      *)
SendPacket ==
    /\ udpWidth > 0 /\ udpSent < MaxPackets
    /\ udpSent' = udpSent + 1
    /\ udpFlight' = udpFlight \cup {udpSent'}
    /\ UNCHANGED <<udpWidth, udpSeen, udpArrivals,
                   udpHighest, udpLost, udpDisorder>>

(* The network drops a packet, or the receive buffer is full *)
LosePacket ==
    /\ \E p \in udpFlight : udpFlight' = udpFlight \ {p}
    /\ UNCHANGED <<udpWidth, udpSent, udpSeen, udpArrivals,
                   udpHighest, udpLost, udpDisorder>>

(* Mutant: the packet that closes a gap is counted as lost, too. *)
AheadCountsItself(number) ==
    /\ number > udpHighest
    /\ udpLost' = udpLost + number - udpHighest
    /\ udpHighest' = number
    /\ UNCHANGED udpDisorder

(* iperf_udp_recv, the number goes forward: a gap counts as a loss *)
Ahead(number) ==
    /\ number > udpHighest
    /\ udpLost' = udpLost + (number - 1) - udpHighest
    /\ udpHighest' = number
    /\ UNCHANGED udpDisorder

(* ... it goes back or stands still: out of order, and one loss less *)
Behind(number) ==
    /\ number <= udpHighest
    /\ udpLost' = IF udpLost > 0 THEN udpLost - 1 ELSE udpLost
    /\ udpDisorder' = udpDisorder + 1
    /\ UNCHANGED udpHighest

(* Any packet on the wire may be next, and may be there once more *)
ReceivePacket ==
    /\ udpArrivals < MaxArrivals
    /\ \E p \in udpFlight :
         /\ Ahead(p % udpWidth) \/ Behind(p % udpWidth)
         /\ udpSeen' = udpSeen \cup {p}
         /\ udpFlight' \in {udpFlight, udpFlight \ {p}}
    /\ udpArrivals' = udpArrivals + 1
    /\ UNCHANGED <<udpWidth, udpSent>>

UdpNext == Agree \/ SendPacket \/ LosePacket \/ ReceivePacket

UdpSpec == UdpInit /\ [][UdpNext]_udpVars

-----------------------------------------------------------------------------
(* The receiver keeps two numbers and no list of what it has seen, "might   *)
(* not be correct in all cases" says the comment.  Until the numbers wrap   *)
(* around it never reports more losses than there are gaps, repeated        *)
(* packets can hide some, and without repeated packets (as many arrivals as *)
(* packets seen) the two bounds meet: the count is exact, in whatever order *)
(* the packets came.                                                        *)
LossCounted ==
    udpSent < udpWidth =>
        /\ udpLost <= udpHighest - Cardinality(udpSeen)
        /\ udpLost >= udpHighest - udpArrivals
=============================================================================
