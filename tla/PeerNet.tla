------------------------------- MODULE PeerNet -------------------------------
(***************************************************************************)
(* What the two ends of a connection agree on before data flows, and the   *)
(* numbers that throttle it afterwards: rudp::PeerNet, the parameters that *)
(* CONNECT and VERIFY_CONNECT carry, and the round trip estimates of       *)
(* rudp::Peer.                                                             *)
(*                                                                         *)
(* A net is a record                                                       *)
(*   incoming, outgoing   incoming_bandwidth_, outgoing_bandwidth_; 0 for  *)
(*                        no limit                                         *)
(*   mtu, window          mtu_, window_size_                               *)
(*   throttle, limit      segment_throttle_, segment_throttle_limit_       *)
(* and an estimate is a record of what Peer and its CommandPod keep of the *)
(* round trips                                                             *)
(*   rtt, variance        round_trip_time_, round_trip_time_variance_      *)
(*   lowest, highest      lowest_round_trip_time_,                         *)
(*                        highest_round_trip_time_variance_                *)
(*   last, lastVariance   last_round_trip_time_,                           *)
(*                        last_round_trip_time_variance_                   *)
(* Every number is a uint32_t and wraps.                                   *)
(***************************************************************************)
EXTENDS Integers, FiniteSets

CONSTANTS
    DATA_MODULUS,                   \* 2^32 in the code
    HOST_DEFAULT_MTU,               \* 1400 in the code
    PROTOCOL_MINIMUM_MTU,           \* 576 in the code
    PROTOCOL_MAXIMUM_MTU,           \* 4096 in the code
    PROTOCOL_MINIMUM_WINDOW_SIZE,   \* 4096 in the code
    PROTOCOL_MAXIMUM_WINDOW_SIZE,   \* 65536 in the code
    PEER_WINDOW_SIZE_SCALE,         \* 65536 in the code
    PEER_SEGMENT_THROTTLE_SCALE,    \* 32 in the code
    PEER_DEFAULT_ROUND_TRIP_TIME    \* 500 in the code

Word == 0..(DATA_MODULUS - 1)

ASSUME PeerNetAssumption ==
    /\ DATA_MODULUS \in Nat \ {0}
    /\ {HOST_DEFAULT_MTU, PROTOCOL_MINIMUM_MTU, PROTOCOL_MAXIMUM_MTU,
        PROTOCOL_MINIMUM_WINDOW_SIZE, PROTOCOL_MAXIMUM_WINDOW_SIZE,
        PEER_SEGMENT_THROTTLE_SCALE, PEER_DEFAULT_ROUND_TRIP_TIME} \subseteq Word
    /\ PEER_WINDOW_SIZE_SCALE \in Nat \ {0}
    /\ PROTOCOL_MINIMUM_MTU <= HOST_DEFAULT_MTU
    /\ HOST_DEFAULT_MTU <= PROTOCOL_MAXIMUM_MTU
    /\ PROTOCOL_MINIMUM_WINDOW_SIZE <= PROTOCOL_MAXIMUM_WINDOW_SIZE
    /\ PEER_SEGMENT_THROTTLE_SCALE > 0

Mod(n) == n % DATA_MODULUS
Smaller(a, b) == IF a <= b THEN a ELSE b
Larger(a, b)  == IF a <= b THEN b ELSE a
Clamp(low, high, n) == IF n < low THEN low ELSE Smaller(n, high)

-----------------------------------------------------------------------------
(* PeerNet::PeerNet, Reset and Setup.                                      *)

\* PEER_DEFAULT_SEGMENT_THROTTLE is PEER_SEGMENT_THROTTLE_SCALE.
InitialNet ==
    [incoming |-> 0, outgoing |-> 0, mtu |-> HOST_DEFAULT_MTU,
     window |-> PROTOCOL_MAXIMUM_WINDOW_SIZE,
     throttle |-> PEER_SEGMENT_THROTTLE_SCALE,
     limit |-> PEER_SEGMENT_THROTTLE_SCALE]

ClampWindow(n) == Clamp(PROTOCOL_MINIMUM_WINDOW_SIZE, PROTOCOL_MAXIMUM_WINDOW_SIZE, n)
ClampMtu(n) == Clamp(PROTOCOL_MINIMUM_MTU, PROTOCOL_MAXIMUM_MTU, n)

\* The window a bandwidth deserves, before it is clamped.
Scaled(bandwidth) ==
    Mod((bandwidth \div PEER_WINDOW_SIZE_SCALE) * PROTOCOL_MINIMUM_WINDOW_SIZE)

Setup(net) ==
    [net EXCEPT !.window =
        ClampWindow(IF net.outgoing = 0 THEN PROTOCOL_MAXIMUM_WINDOW_SIZE
                                        ELSE Scaled(net.outgoing))]

-----------------------------------------------------------------------------
(* The handshake: what CONNECT proposes, what the host that accepts makes  *)
(* of it, and what VERIFY_CONNECT settles at the other end.                *)

\* Peer::Setup, for a host of the given bandwidths.
Connect(net, incoming, outgoing) ==
    [incoming |-> incoming, outgoing |-> outgoing, mtu |-> net.mtu,
     window |-> net.window]

\* The window of the end that accepts: what it may send, as far as both its
\* own bandwidth and the other's are limited.
AcceptedWindow(outgoing, incoming) ==
    ClampWindow(
        CASE outgoing = 0 /\ incoming = 0 -> PROTOCOL_MAXIMUM_WINDOW_SIZE
          [] (outgoing = 0) # (incoming = 0) -> Scaled(Larger(outgoing, incoming))
          [] outgoing # 0 /\ incoming # 0 -> Scaled(Smaller(outgoing, incoming)))

\* Peer::SetupConnectedPeer, as it is called: HandleConnect takes the host's
\* outgoing bandwidth first and passes them on in the right order, but
\* PeerPod::ReceiveIncomingCommands hands it the incoming one first.
SetupConnectedPeer(cmd, hostIncoming, hostOutgoing) ==
    [InitialNet EXCEPT
        !.incoming = cmd.incoming,
        !.outgoing = cmd.outgoing,
        !.mtu      = ClampMtu(cmd.mtu),
        !.window   = AcceptedWindow(hostIncoming, cmd.incoming)]

\* The VERIFY_CONNECT it answers with.
Verify(cmd, net, hostIncoming, hostOutgoing) ==
    LET window == IF hostOutgoing = 0 THEN PROTOCOL_MAXIMUM_WINDOW_SIZE
                                      ELSE Scaled(hostOutgoing)
    IN  [incoming |-> hostOutgoing, outgoing |-> hostIncoming, mtu |-> net.mtu,
         window |-> ClampWindow(Smaller(window, cmd.window))]

\* RUdpProtocol::HandleVerifyConnect: the MTU and the window only shrink.
HandleVerifyConnect(net, cmd) ==
    [net EXCEPT
        !.mtu      = Smaller(@, ClampMtu(cmd.mtu)),
        !.window   = Smaller(@, ClampWindow(cmd.window)),
        !.incoming = cmd.incoming,
        !.outgoing = cmd.outgoing]

-----------------------------------------------------------------------------
(* Peer::UpdateRoundTripTimeVariance.                                      *)

InitialEstimate ==
    [rtt |-> PEER_DEFAULT_ROUND_TRIP_TIME, variance |-> 0,
     lowest |-> PEER_DEFAULT_ROUND_TRIP_TIME, highest |-> 0,
     last |-> PEER_DEFAULT_ROUND_TRIP_TIME, lastVariance |-> 0]

\* The difference is taken the same way round in both branches, so that a
\* sample below the estimate makes a difference of almost 2^32.  The lowest
\* and the highest value are those of one acknowledgement only: the setter of
\* segment_throttle_epoch_ writes segment_loss_epoch_, the epoch stays 0, and
\* every call starts a new period.
UpdateRoundTripTimeVariance(e, sample) ==
    LET difference == Mod(sample + DATA_MODULUS - e.rtt)
        rtt        == IF sample >= e.rtt
                      THEN Mod(e.rtt + difference \div 8)
                      ELSE Mod(e.rtt + DATA_MODULUS - difference \div 8)
        variance   == Mod(e.variance - e.variance \div 4 + difference \div 4)
    IN  [rtt |-> rtt, variance |-> variance, lowest |-> rtt, highest |-> variance,
         last         |-> Smaller(e.lowest, rtt),
         lastVariance |-> Larger(e.highest, variance)]
=============================================================================
