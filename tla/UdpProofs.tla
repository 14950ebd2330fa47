----------------------------- MODULE UdpProofs -----------------------------
(***************************************************************************)
(* The loss count of the UDP receiver is right for any number of packets,  *)
(* any width of the packet numbers and any network.                        *)
(***************************************************************************)
EXTENDS Udp, FiniteSetTheorems, TLAPS

(* The counters are natural numbers, and only what was sent is on the wire. *)
Counters ==
    /\ udpWidth \in Nat /\ udpSent \in Nat /\ udpArrivals \in Nat
    /\ udpHighest \in Nat /\ udpLost \in Nat
    /\ udpFlight \subseteq 1..udpSent

(* The width is 0 only before a packet is sent. *)
Fresh ==
    udpWidth = 0 =>
        /\ udpSent = 0 /\ udpSeen = {} /\ udpHighest = 0
        /\ udpLost = 0 /\ udpArrivals = 0

(* Until the numbers wrap around, what has been seen lies below the         *)
(* highest number.                                                          *)
SeenBelow ==
    udpSent < udpWidth =>
        /\ udpSeen \subseteq 1..udpHighest
        /\ udpHighest <= udpSent

UdpInv == Counters /\ Fresh /\ SeenBelow /\ LossCounted

-----------------------------------------------------------------------------
(* A set of numbers from 1 to n is finite and has n elements at most. *)
LEMMA Below ==
    ASSUME NEW n \in Nat, NEW S \in SUBSET (1..n)
    PROVE  IsFiniteSet(S) /\ Cardinality(S) \in Nat /\ Cardinality(S) <= n
<1>1. IsFiniteSet(1..n) /\ Cardinality(1..n) = n
  BY FS_Interval
<1> QED
  BY <1>1, FS_Subset, FS_CardinalityType

(* One more packet is one more element at most, and a packet that was not   *)
(* there is exactly one more.                                               *)
LEMMA OneMore ==
    ASSUME NEW S, IsFiniteSet(S), NEW p
    PROVE  /\ IsFiniteSet(S \cup {p})
           /\ Cardinality(S \cup {p}) \in Nat
           /\ Cardinality(S \cup {p}) <= Cardinality(S) + 1
<1>1. /\ IsFiniteSet(S \cup {p})
      /\ Cardinality(S \cup {p}) =
           IF p \in S THEN Cardinality(S) ELSE Cardinality(S) + 1
  BY FS_AddElement
<1>2. Cardinality(S) \in Nat /\ Cardinality(S \cup {p}) \in Nat
  BY <1>1, FS_CardinalityType
<1> QED
  BY <1>1, <1>2

(* A number below the width travels unchanged. *)
LEMMA Unwrapped ==
    ASSUME NEW w \in Nat, NEW p \in Nat, p < w
    PROVE  p % w = p
  OBVIOUS

-----------------------------------------------------------------------------
LEMMA InitInv == UdpInit => UdpInv
<1> SUFFICES ASSUME UdpInit PROVE UdpInv
  OBVIOUS
<1>1. Cardinality({}) = 0
  BY FS_EmptySet
<1> QED
  BY <1>1 DEF UdpInit, UdpInv, Counters, Fresh, SeenBelow, LossCounted

(* The counters stay natural numbers, wrapped around or not. *)
LEMMA CountersStep == UdpInv /\ [UdpNext]_udpVars => Counters' /\ Fresh'
<1> SUFFICES ASSUME UdpInv, [UdpNext]_udpVars PROVE Counters' /\ Fresh'
  OBVIOUS
<1> USE DEF UdpInv, Counters, Fresh
<1>1. CASE Agree
  BY <1>1, UdpAssumption DEF Agree
<1>2. CASE SendPacket
  BY <1>2 DEF SendPacket
<1>3. CASE LosePacket
  BY <1>3 DEF LosePacket
<1>4. CASE ReceivePacket
  <2>1. PICK p \in udpFlight :
          /\ Ahead(p % udpWidth) \/ Behind(p % udpWidth)
          /\ udpFlight' \in {udpFlight, udpFlight \ {p}}
    BY <1>4 DEF ReceivePacket
  <2>2. p % udpWidth \in Nat
    OBVIOUS
  <2>3. udpHighest' \in Nat /\ udpLost' \in Nat
    BY <2>1, <2>2 DEF Ahead, Behind
  <2> QED
    BY <1>4, <2>1, <2>3 DEF ReceivePacket
<1>5. CASE UNCHANGED udpVars
  BY <1>5 DEF udpVars
<1> QED
  BY <1>1, <1>2, <1>3, <1>4, <1>5 DEF UdpNext

(* A reception: the only step that changes what is counted. *)
LEMMA ReceiveStep ==
    UdpInv /\ ReceivePacket => SeenBelow' /\ LossCounted'
<1> SUFFICES ASSUME UdpInv, ReceivePacket, udpSent < udpWidth
             PROVE  /\ udpSeen' \subseteq 1..udpHighest' /\ udpHighest' <= udpSent
                    /\ udpLost' <= udpHighest' - Cardinality(udpSeen')
                    /\ udpLost' >= udpHighest' - udpArrivals'
  BY DEF SeenBelow, LossCounted, ReceivePacket
<1> USE DEF UdpInv, Counters
<1>1. PICK p \in udpFlight :
        /\ Ahead(p % udpWidth) \/ Behind(p % udpWidth)
        /\ udpSeen' = udpSeen \cup {p}
  BY DEF ReceivePacket
<1>2. p \in Nat /\ p >= 1 /\ p <= udpSent /\ p % udpWidth = p
  BY Unwrapped
<1>3. udpArrivals' = udpArrivals + 1
  BY DEF ReceivePacket
<1>4. /\ udpSeen \subseteq 1..udpHighest /\ udpHighest <= udpSent
      /\ udpLost <= udpHighest - Cardinality(udpSeen)
      /\ udpLost >= udpHighest - udpArrivals
  BY DEF SeenBelow, LossCounted
<1>5. IsFiniteSet(udpSeen) /\ Cardinality(udpSeen) \in Nat
  BY <1>4, Below
<1>6. /\ Cardinality(udpSeen') \in Nat
      /\ Cardinality(udpSeen') <= Cardinality(udpSeen) + 1
  BY <1>1, <1>5, OneMore
<1>7. CASE Ahead(p)
  <2>1. /\ udpHighest' = p /\ p > udpHighest
        /\ udpLost' = udpLost + (p - 1) - udpHighest
    BY <1>7 DEF Ahead
  <2>2. udpSeen' \subseteq 1..udpHighest'
    BY <1>1, <1>2, <1>4, <2>1
  <2> QED
    BY <1>2, <1>3, <1>4, <1>5, <1>6, <2>1, <2>2
<1>8. CASE Behind(p)
  <2>1. /\ udpHighest' = udpHighest /\ p <= udpHighest
        /\ udpLost' = IF udpLost > 0 THEN udpLost - 1 ELSE udpLost
    BY <1>8 DEF Behind
  <2>2. udpSeen' \subseteq 1..udpHighest'
    BY <1>1, <1>2, <1>4, <2>1
  <2>3. Cardinality(udpSeen') <= udpHighest'
    BY <2>2, <2>1, Below
  <2> QED
    BY <1>3, <1>4, <1>5, <1>6, <2>1, <2>2, <2>3
<1> QED
  BY <1>1, <1>2, <1>7, <1>8

(* The other steps leave the receiver alone. *)
LEMMA OthersStep ==
    UdpInv /\ (Agree \/ SendPacket \/ LosePacket \/ UNCHANGED udpVars) =>
        SeenBelow' /\ LossCounted'
<1> SUFFICES ASSUME UdpInv,
                    Agree \/ SendPacket \/ LosePacket \/ UNCHANGED udpVars
             PROVE  SeenBelow' /\ LossCounted'
  OBVIOUS
<1> USE DEF UdpInv, Counters, Fresh, SeenBelow, LossCounted
<1>1. CASE Agree
  <2>1. /\ udpSent' = 0 /\ udpHighest' = 0 /\ udpLost' = 0
        /\ udpArrivals' = 0 /\ udpSeen' = {}
    BY <1>1 DEF Agree
  <2>2. Cardinality(udpSeen') = 0
    BY <2>1, FS_EmptySet
  <2>3. SeenBelow'
    BY <2>1
  <2> QED
    BY <2>1, <2>2, <2>3
<1>2. CASE SendPacket
  BY <1>2 DEF SendPacket
<1>3. CASE LosePacket
  BY <1>3 DEF LosePacket
<1>4. CASE UNCHANGED udpVars
  BY <1>4 DEF udpVars
<1> QED
  BY <1>1, <1>2, <1>3, <1>4

LEMMA StepInv == UdpInv /\ [UdpNext]_udpVars => UdpInv'
<1>1. UdpInv /\ [UdpNext]_udpVars => SeenBelow' /\ LossCounted'
  BY ReceiveStep, OthersStep DEF UdpNext
<1> QED
  BY <1>1, CountersStep DEF UdpInv

(* Whatever the network does, until the numbers wrap around the receiver    *)
(* reports no more losses than there are gaps, and exactly these if no      *)
(* packet came twice (iperf_udp_recv).                                      *)
THEOREM LossesCounted == UdpSpec => []LossCounted
<1>1. UdpInit => UdpInv
  BY InitInv
<1>2. UdpInv /\ [UdpNext]_udpVars => UdpInv'
  BY StepInv
<1>3. UdpInv => LossCounted
  BY DEF UdpInv
<1> QED
  BY <1>1, <1>2, <1>3, PTL DEF UdpSpec
=============================================================================
