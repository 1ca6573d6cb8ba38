------------------------- MODULE BandwidthThrottle -------------------------
(***************************************************************************)
(* A host that shares its bandwidth among the guests that are connected to *)
(* it: guests connect and agree with it on windows, both ends send, the    *)
(* host measures round trips, and once a second                            *)
(* RUdpProtocol::BandwidthThrottle limits what the host sends to each      *)
(* guest and tells each how much it may send.                              *)
(*                                                                         *)
(* The handshake and the disconnect are steps of module PeerLifecycle;     *)
(* here the first is one step, with what both ends make of it, and the     *)
(* second is as many as the throttle can fall between.  DisconnectNow,     *)
(* which leaves the counters as they are, is an action of PeerLifecycle    *)
(* only: the application calls it before it closes its host.               *)
(***************************************************************************)
EXTENDS PeerNet, Sequences, SequencesExt, FiniteSetsExt

CONSTANTS
    Slots,               \* the guests' peers, in the order of PeerPod::peers_
    HOST_INCOMING,       \* the host's incoming_bandwidth_
    HOST_OUTGOING,       \* the host's outgoing_bandwidth_
    GUEST_INCOMING,      \* the incoming_bandwidth_ a guest may be configured with
    GUEST_OUTGOING,      \* and the outgoing_bandwidth_
    SIZES,               \* how much is sent at a time
    SAMPLES,             \* the round trips that are measured
    SECONDS,             \* how many seconds may have passed since the last time
    LIMIT_SIZE,          \* the size of a BANDWIDTH_LIMIT
    MAX_TOTAL            \* bound on what is sent to a guest when one connects

ASSUME ThrottleAssumption ==
    /\ GUEST_INCOMING \cup GUEST_OUTGOING \cup {HOST_INCOMING, HOST_OUTGOING} \cup SAMPLES
          \cup SIZES \cup {LIMIT_SIZE, MAX_TOTAL} \subseteq Word
    /\ SECONDS \subseteq Nat \ {0}
    /\ Slots \in Seq(ToSet(Slots))
    /\ \A i, j \in DOMAIN Slots : Slots[i] = Slots[j] => i = j

Guests == ToSet(Slots)

NotTold == -1

VARIABLES
    state,                     \* each peer's RUdpPeerState, at the host
    net,                       \* each peer's PeerNet, at the host
    guest,                     \* the PeerNet of the guest's own peer
    estimate,                  \* the round trip estimates of each peer
    total,                     \* outgoing_data_total_ of each peer
    connected_peers,           \* of the DispatchHub
    bandwidth_limited_peers,   \* of the DispatchHub
    recalculate,               \* recalculate_bandwidth_limits_
    told,                      \* the last BANDWIDTH_LIMIT queued for each peer
    last                       \* history: what the last throttle started with
                               \* and what it was left with

hub  == <<connected_peers, bandwidth_limited_peers, recalculate>>
vars == <<state, net, guest, estimate, total, hub, told, last>>

Nothing ==
    [fresh |-> FALSE, seconds |-> 0, bandwidth |-> 0, left |-> 0, data |-> 0,
     behind |-> 0, total |-> <<>>]

Init ==
    /\ state = [g \in Guests |-> "DISCONNECTED"]
    /\ net = [g \in Guests |-> InitialNet]
    /\ guest = [g \in Guests |-> InitialNet]
    /\ estimate = [g \in Guests |-> InitialEstimate]
    /\ total = [g \in Guests |-> 0]
    /\ connected_peers = 0
    /\ bandwidth_limited_peers = 0
    /\ recalculate = FALSE
    /\ told = [g \in Guests |-> NotTold]
    /\ last = Nothing

IsConnected(g) == state[g] \in {"CONNECTED", "DISCONNECT_LATER"}

-----------------------------------------------------------------------------
(* Guests come and go.                                                     *)

\* DispatchHub::MergePeer and PurgePeer, for a peer with this net.
MergePeer(n) ==
    /\ connected_peers' = connected_peers + 1
    /\ bandwidth_limited_peers' =
         bandwidth_limited_peers + (IF n.incoming # 0 THEN 1 ELSE 0)

\* Mutant of PurgePeer: the peer is not looked at.
PurgeAnyPeer(n) ==
    /\ connected_peers' = connected_peers - 1
    /\ bandwidth_limited_peers' = bandwidth_limited_peers - 1

PurgePeer(n) ==
    /\ connected_peers' = connected_peers - 1
    /\ bandwidth_limited_peers' =
         bandwidth_limited_peers - (IF n.incoming # 0 THEN 1 ELSE 0)

\* CONNECT, VERIFY_CONNECT and its acknowledgement: both ends have set up
\* their peers, and DispatchHub::NotifyConnect counts the guest's.
Connects(g, incoming, outgoing) ==
    LET fresh  == Setup(InitialNet)
        cmd    == Connect(fresh, incoming, outgoing)
        here   == SetupConnectedPeer(cmd, HOST_INCOMING, HOST_OUTGOING)
        answer == Verify(cmd, here, HOST_INCOMING, HOST_OUTGOING)
    IN  /\ state[g] = "DISCONNECTED"
        /\ \A h \in Guests : total[h] <= MAX_TOTAL
        /\ state' = [state EXCEPT ![g] = "CONNECTED"]
        /\ net' = [net EXCEPT ![g] = here]
        /\ guest' = [guest EXCEPT ![g] = HandleVerifyConnect(fresh, answer)]
        /\ recalculate' = TRUE
        /\ MergePeer(here)
        /\ last' = Nothing
        /\ UNCHANGED <<estimate, total, told>>

\* The host has disconnected the guest, or been told of its disconnecting:
\* the peer is not counted any more.
Leaves(g, next) ==
    /\ IsConnected(g)
    /\ state' = [state EXCEPT ![g] = next]
    /\ PurgePeer(net[g])
    /\ last' = Nothing
    /\ UNCHANGED <<net, guest, estimate, total, recalculate, told>>

DisconnectedByHost(g)  == Leaves(g, "DISCONNECTING")
DisconnectedByGuest(g) == Leaves(g, "ZOMBIE")

\* Peer::Reset.
Reset(g) ==
    /\ state' = [state EXCEPT ![g] = "DISCONNECTED"]
    /\ net' = [net EXCEPT ![g] = InitialNet]
    /\ guest' = [guest EXCEPT ![g] = InitialNet]
    /\ estimate' = [estimate EXCEPT ![g] = InitialEstimate]
    /\ total' = [total EXCEPT ![g] = 0]
    /\ told' = [told EXCEPT ![g] = NotTold]
    /\ last' = Nothing

\* The peer of a guest that has left is reset.  The limits are calculated
\* again when the peer is a zombie that DispatchIncomingCommands finds, and
\* not when the guest acknowledges that the host disconnects it.
Ends(g) ==
    /\ state[g] \in {"DISCONNECTING", "ZOMBIE"}
    /\ recalculate' = (recalculate \/ state[g] = "ZOMBIE")
    /\ Reset(g)
    /\ UNCHANGED <<connected_peers, bandwidth_limited_peers>>

\* DisconnectLater, which changes nothing yet while something is unsent.
DisconnectLater(g) ==
    /\ state[g] = "CONNECTED"
    /\ state' = [state EXCEPT ![g] = "DISCONNECT_LATER"]
    /\ last' = Nothing
    /\ UNCHANGED <<net, guest, estimate, total, hub, told>>

-----------------------------------------------------------------------------
(* Data and acknowledgements.                                              *)

\* SetupOutgoingCommand and QueueAcknowledgement add to outgoing_data_total_.
Queue(g, size) ==
    /\ state[g] # "DISCONNECTED"
    /\ total[g] + size <= MAX_TOTAL
    /\ total' = [total EXCEPT ![g] = Mod(@ + size)]
    /\ last' = Nothing
    /\ UNCHANGED <<state, net, guest, estimate, hub, told>>

\* The part of HandleAcknowledge that measures.  The throttle is set to the
\* round trip time itself.
Acknowledged(g, sample) ==
    /\ state[g] \notin {"DISCONNECTED", "ZOMBIE"}
    /\ net' = [net EXCEPT ![g].throttle = sample]
    /\ estimate' = [estimate EXCEPT ![g] = UpdateRoundTripTimeVariance(@, sample)]
    /\ last' = Nothing
    /\ UNCHANGED <<state, guest, total, hub, told>>

-----------------------------------------------------------------------------
(* RUdpProtocol::BandwidthThrottle.  Its while loops over for loops are    *)
(* recursive functions: a round visits the slots in turn, and there are as *)
(* many rounds as there may be, of which those that change nothing are     *)
(* idle.  Every round but the last takes a peer.                           *)

\* Whether there is another round.
Continues(walk) == walk.again /\ walk.remaining > 0

ThrottleFor(walk) ==
    IF walk.data <= walk.bandwidth
    THEN PEER_SEGMENT_THROTTLE_SCALE
    ELSE Mod(walk.bandwidth * PEER_SEGMENT_THROTTLE_SCALE) \div walk.data

\* Mutant of Exceeds: the guest's bandwidth is that of one second, however
\* long ago the last throttle was.
ExceedsASecond(throttle, g, seconds) ==
    Mod(throttle * total[g]) \div PEER_SEGMENT_THROTTLE_SCALE > net[g].incoming

\* At this throttle the guest would get more than it can take.
Exceeds(throttle, g, seconds) ==
    Mod(throttle * total[g]) \div PEER_SEGMENT_THROTTLE_SCALE > Mod(net[g].incoming * seconds)

\* One guest of the inner loop: it is limited to what it can take.
LimitOne(walk, g, throttle, seconds) ==
    LET takes == Mod(net[g].incoming * seconds)
        scale == Mod(takes * PEER_SEGMENT_THROTTLE_SCALE) \div total[g]
    IN  IF ~IsConnected(g) \/ net[g].incoming = 0 \/ g \in DOMAIN walk.limits
           \/ ~Exceeds(throttle, g, seconds)
        THEN walk
        ELSE [walk EXCEPT
                !.limits    = [h \in DOMAIN @ \cup {g} |->
                                  IF h = g THEN Larger(scale, 1) ELSE @[h]],
                !.again     = TRUE,
                !.remaining = @ - 1,
                !.bandwidth = Mod(@ + DATA_MODULUS - takes),
                !.data      = Mod(@ + DATA_MODULUS - takes)]

\* The guests of a round, up to each of the slots.
LimitWalk(walk, throttle, seconds) ==
    LET walks[n \in 0..Len(Slots)] ==
            IF n = 0 THEN walk
            ELSE LimitOne(walks[n - 1], Slots[n], throttle, seconds)
    IN  walks

LimitPeers(walk, seconds) ==
    IF Continues(walk)
    THEN LimitWalk([walk EXCEPT !.again = FALSE], ThrottleFor(walk), seconds)[Len(Slots)]
    ELSE walk

\* The walk before the loops.
StartOfWalk(seconds) ==
    LET unlimited == HOST_OUTGOING = 0
        sum       == SumFunctionOnSet(total, {g \in Guests : IsConnected(g)})
    IN  [limits    |-> <<>>,
         again     |-> bandwidth_limited_peers > 0,
         remaining |-> connected_peers,
         bandwidth |-> IF unlimited THEN DATA_MODULUS - 1 ELSE Mod(HOST_OUTGOING * seconds),
         data      |-> IF unlimited THEN DATA_MODULUS - 1 ELSE Mod(sum)]

\* The rounds.
LimitRounds(seconds) ==
    LET rounds[n \in 0..(Len(Slots) + 1)] ==
            IF n = 0 THEN StartOfWalk(seconds) ELSE LimitPeers(rounds[n - 1], seconds)
    IN  rounds

EndOfWalk(seconds) == LimitRounds(seconds)[Len(Slots) + 1]

\* The limits of the guests that are connected: their own, or what is left
\* over for the ones that were not limited.
Limits(walk) ==
    [g \in {h \in Guests : IsConnected(h)} |->
        IF g \in DOMAIN walk.limits THEN walk.limits[g] ELSE ThrottleFor(walk)]

\* Mutant of Limited: the throttle is left as it is.
LimitedLater(n, limit) == [n EXCEPT !.limit = limit]

\* A limit is set and the throttle brought below it.
Limited(n, limit) == [n EXCEPT !.limit = limit, !.throttle = Smaller(@, limit)]

\* Mutant of ShareOne: what the guest sends is not taken off the rest.
ShareOneOnly(walk, g, limit) ==
    IF ~IsConnected(g) \/ g \in walk.own \/ net[g].outgoing >= limit
    THEN walk
    ELSE [walk EXCEPT !.own = @ \cup {g}, !.again = TRUE, !.remaining = @ - 1]

\* One guest of the loop that divides the incoming bandwidth: a guest that
\* cannot send its share, or has no limit, is left with what it has.
ShareOne(walk, g, limit) ==
    IF ~IsConnected(g) \/ g \in walk.own
       \/ (net[g].outgoing > 0 /\ net[g].outgoing >= limit)
    THEN walk
    ELSE [walk EXCEPT !.own       = @ \cup {g},
                      !.again     = TRUE,
                      !.remaining = @ - 1,
                      !.bandwidth = Mod(@ + DATA_MODULUS - net[g].outgoing)]

ShareWalk(walk, limit) ==
    LET walks[n \in 0..Len(Slots)] ==
            IF n = 0 THEN [walk EXCEPT !.again = FALSE, !.limit = limit]
            ELSE ShareOne(walks[n - 1], Slots[n], limit)
    IN  walks

SharePeers(walk) ==
    IF Continues(walk)
    THEN ShareWalk(walk, walk.bandwidth \div walk.remaining)[Len(Slots)]
    ELSE walk

StartOfShares ==
    [own |-> {}, again |-> TRUE, remaining |-> connected_peers,
     bandwidth |-> HOST_INCOMING, limit |-> 0]

ShareRounds ==
    LET rounds[n \in 0..(Len(Slots) + 1)] ==
            IF n = 0 THEN StartOfShares ELSE SharePeers(rounds[n - 1])
    IN  rounds

EndOfShares ==
    IF HOST_INCOMING = 0 THEN StartOfShares ELSE ShareRounds[Len(Slots) + 1]

\* What BANDWIDTH_LIMIT tells each guest that is connected.
Shares ==
    [g \in Guests |->
        CASE ~IsConnected(g) -> told[g]
          [] IsConnected(g) /\ g \in EndOfShares.own -> net[g].outgoing
          [] OTHER -> EndOfShares.limit]

\* What is queued for the guests counts among what is sent to them.
Throttle(seconds) ==
    LET start  == StartOfWalk(seconds)
        end    == EndOfWalk(seconds)
        limits == Limits(end)
    IN  /\ connected_peers > 0
        /\ net' = [g \in Guests |->
                     IF g \in DOMAIN limits THEN Limited(net[g], limits[g]) ELSE net[g]]
        /\ told' = IF recalculate THEN Shares ELSE told
        /\ total' = [g \in Guests |-> IF recalculate /\ IsConnected(g)
                                       THEN Mod(total[g] + LIMIT_SIZE) ELSE total[g]]
        /\ recalculate' = FALSE
        /\ last' = [fresh |-> TRUE, seconds |-> seconds, bandwidth |-> start.bandwidth,
                    left |-> end.bandwidth, data |-> start.data, behind |-> end.data,
                    total |-> total]
        /\ UNCHANGED <<state, guest, estimate, connected_peers, bandwidth_limited_peers>>

Next ==
    \/ \E g \in Guests :
          \/ \E incoming \in GUEST_INCOMING, outgoing \in GUEST_OUTGOING :
                Connects(g, incoming, outgoing)
          \/ DisconnectedByHost(g) \/ DisconnectedByGuest(g) \/ Ends(g)
          \/ DisconnectLater(g)
          \/ \E size \in SIZES : Queue(g, size)
          \/ \E sample \in SAMPLES : Acknowledged(g, sample)
    \/ \E seconds \in SECONDS : Throttle(seconds)

Spec == Init /\ [][Next]_vars

-----------------------------------------------------------------------------
(* Properties.                                                             *)

\* The DispatchHub's counters are those of the peers that are connected,
\* and of those among them with a limited bandwidth: the loops of the
\* throttle divide by the first and are skipped when the second is 0.
PeersCounted ==
    /\ connected_peers = Cardinality({g \in Guests : IsConnected(g)})
    /\ bandwidth_limited_peers =
         Cardinality({g \in Guests : IsConnected(g) /\ net[g].incoming # 0})

\* Taking off what the limited guests can take never makes the unsigned
\* numbers wrap: the guests that are not limited share what is left.
NothingUnderflows ==
    last.fresh => last.left <= last.bandwidth /\ last.behind <= last.data

\* Once the throttle has run no guest is sent more, at its limit, than it can
\* take, and all of them no more than the host may send; a guest whose limit
\* was raised to 1, the smallest, is not counted.
ThrottledToFit ==
    LET share(g) == (net[g].limit * last.total[g]) \div PEER_SEGMENT_THROTTLE_SCALE
        counted  == {g \in Guests : IsConnected(g) /\ net[g].limit > 1}
    IN  (last.fresh /\ HOST_OUTGOING # 0) =>
           /\ SumFunction([g \in counted |-> share(g)]) <= last.bandwidth
           /\ \A g \in counted :
                 /\ net[g].throttle <= net[g].limit
                 /\ net[g].incoming # 0 => share(g) <= net[g].incoming * last.seconds

\* What the guests were told they may send is no more, taken together, than
\* the host takes in, and no guest was told more than it can send; a guest
\* without a limit of its own is told 0, which means that it has none.
SharesFit ==
    LET heard == {g \in Guests : IsConnected(g) /\ told[g] # NotTold /\ net[g].outgoing # 0}
    IN  HOST_INCOMING # 0 =>
           /\ SumFunctionOnSet(told, heard) <= HOST_INCOMING
           /\ \A g \in heard : told[g] <= net[g].outgoing

-----------------------------------------------------------------------------
(* What one would expect of the code and does not hold; README.md names    *)
(* for each an instance that refutes it.                                   *)

\* When nothing is left to recalculate, every guest that is connected was
\* told what it is due now.
SharesAreCurrent ==
    ~recalculate => \A g \in Guests : IsConnected(g) => told[g] = Shares[g]

\* A guest sends no more at a time than the host takes in.
GuestWindowFitsHost ==
    \A g \in Guests : (IsConnected(g) /\ HOST_INCOMING # 0) =>
        guest[g].window <= ClampWindow(Scaled(HOST_INCOMING))

\* A window is never scaled up.
ThrottleWithinScale ==
    \A g \in Guests : net[g].throttle <= PEER_SEGMENT_THROTTLE_SCALE

\* The estimate of the round trip stays between what was measured.
EstimateWithinSamples ==
    \A g \in Guests : \E sample \in SAMPLES \cup {PEER_DEFAULT_ROUND_TRIP_TIME} :
        estimate[g].rtt <= sample
=============================================================================
