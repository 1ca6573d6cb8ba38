---------------------- MODULE BandwidthThrottleProofs ----------------------
(***************************************************************************)
(* The counters the throttle divides by, the shares of the incoming        *)
(* bandwidth and the limits of the outgoing one, for any guests,           *)
(* bandwidths, data and measurements.                                      *)
(***************************************************************************)
EXTENDS BandwidthThrottle, Induction

\* The peers that connected_peers_ is to count, and those among them that
\* bandwidth_limited_peers_ is to count.
Connected == {g \in Guests : IsConnected(g)}
Narrow    == {g \in Guests : IsConnected(g) /\ net[g].incoming # 0}

\* A net has the field that the counters go by.
IsNet(n) == "incoming" \in DOMAIN n

Shape ==
    /\ DOMAIN state = Guests /\ state = [g \in Guests |-> state[g]]
    /\ DOMAIN net = Guests /\ net = [g \in Guests |-> net[g]]
    /\ \A g \in Guests : IsNet(net[g])

\* The inductive invariant.
Counting == Shape /\ PeersCounted

-----------------------------------------------------------------------------
LEMMA GuestsAreFinite == IsFiniteSet(Guests)
<1>1. Slots \in Seq(ToSet(Slots))
  BY ThrottleAssumption
<1>2. PICK n \in Nat : n = Len(Slots)
  BY <1>1
<1>3. Slots \in Surjection(1..n, Guests)
  BY <1>1, <1>2 DEF Surjection, Guests, ToSet
<1>4. IsFiniteSet(1..n)
  BY FS_Interval
<1> QED
  BY <1>3, <1>4, FS_Surjection

LEMMA CountsAreNumbers ==
    /\ IsFiniteSet(Connected) /\ Cardinality(Connected) \in Nat
    /\ IsFiniteSet(Narrow) /\ Cardinality(Narrow) \in Nat
<1>1. Connected \in SUBSET Guests /\ Narrow \in SUBSET Guests
  BY DEF Connected, Narrow
<1>2. IsFiniteSet(Connected) /\ IsFiniteSet(Narrow)
  BY <1>1, GuestsAreFinite, FS_Subset
<1> QED
  BY <1>2, FS_CardinalityType

\* A step that connects nobody, disconnects nobody, and leaves the bandwidths
\* of who is connected alone, leaves the counts alone.
LEMMA SameCounts ==
    ASSUME Counting, Shape',
           connected_peers' = connected_peers,
           bandwidth_limited_peers' = bandwidth_limited_peers,
           \A g \in Guests : /\ IsConnected(g)' <=> IsConnected(g)
                             /\ IsConnected(g) => net[g].incoming' = net[g].incoming
    PROVE  Counting'
<1>1. Connected' = Connected
  BY DEF Connected, Guests
<1>2. Narrow' = Narrow
  BY DEF Narrow, Guests
<1> QED
  BY <1>1, <1>2 DEF Counting, PeersCounted, Connected, Narrow

-----------------------------------------------------------------------------
(* A net stays one.                                                        *)

LEMMA LimitedNet ==
    ASSUME NEW n, IsNet(n), NEW x
    PROVE  IsNet(Limited(n, x)) /\ Limited(n, x).incoming = n.incoming
BY DEF IsNet, Limited

LEMMA NewNets ==
    /\ IsNet(InitialNet)
    /\ \A cmd, a, b : IsNet(SetupConnectedPeer(cmd, a, b))
BY DEF IsNet, InitialNet, SetupConnectedPeer

-----------------------------------------------------------------------------
LEMMA InitCounts == Init => Counting
<1> SUFFICES ASSUME Init PROVE Counting
  OBVIOUS
<1>1. Shape
  BY NewNets DEF Init, Shape
<1>2. Connected = {} /\ Narrow = {}
  BY DEF Init, Connected, Narrow, IsConnected
<1> QED
  BY <1>1, <1>2, FS_EmptySet DEF Init, Counting, PeersCounted, Connected, Narrow

\* DispatchHub::NotifyConnect.
LEMMA ConnectsCounts ==
    ASSUME Counting, NEW g \in Guests, NEW incoming, NEW outgoing,
           Connects(g, incoming, outgoing)
    PROVE  Counting'
<1> DEFINE here == SetupConnectedPeer(Connect(Setup(InitialNet), incoming, outgoing),
                                      HOST_INCOMING, HOST_OUTGOING)
<1>1. /\ state[g] = "DISCONNECTED"
      /\ state' = [state EXCEPT ![g] = "CONNECTED"]
      /\ net' = [net EXCEPT ![g] = here]
      /\ MergePeer(here)
  BY DEF Connects
<1>2. IsNet(here)
  BY NewNets
<1> HIDE DEF here
<1>3. Shape'
  BY <1>1, <1>2 DEF Shape, Counting, Guests
<1>4. Connected' = Connected \cup {g} /\ g \notin Connected
  BY <1>1 DEF Connected, IsConnected, Counting, Shape, Guests
<1>5. g \notin Narrow /\ Narrow' = IF here.incoming # 0 THEN Narrow \cup {g} ELSE Narrow
  BY <1>1 DEF Narrow, IsConnected, Counting, Shape, Guests
<1>6. Cardinality(Connected') = Cardinality(Connected) + 1
  BY <1>4, CountsAreNumbers, FS_AddElement
<1>7. Cardinality(Narrow') = Cardinality(Narrow) + (IF here.incoming # 0 THEN 1 ELSE 0)
  <2>1. CASE here.incoming # 0
    BY <2>1, <1>5, CountsAreNumbers, FS_AddElement
  <2>2. CASE here.incoming = 0
    BY <2>2, <1>5, CountsAreNumbers
  <2> QED
    BY <2>1, <2>2
<1> QED
  BY <1>1, <1>3, <1>6, <1>7
  DEF Counting, PeersCounted, MergePeer, Connected, Narrow

\* DispatchHub::PurgePeer.
LEMMA LeavesCounts ==
    ASSUME Counting, NEW g \in Guests, NEW next \in {"DISCONNECTING", "ZOMBIE"},
           Leaves(g, next)
    PROVE  Counting'
<1>1. /\ IsConnected(g)
      /\ state' = [state EXCEPT ![g] = next]
      /\ net' = net
      /\ PurgePeer(net[g])
  BY DEF Leaves
<1>2. Shape'
  BY <1>1 DEF Shape, Counting, Guests
<1>3. Connected' = Connected \ {g} /\ g \in Connected
  BY <1>1 DEF Connected, IsConnected, Counting, Shape, Guests
<1>4. /\ Narrow' = Narrow \ {g}
      /\ g \in Narrow <=> net[g].incoming # 0
  BY <1>1 DEF Narrow, IsConnected, Counting, Shape, Guests
<1>5. Cardinality(Connected') = Cardinality(Connected) - 1
  BY <1>3, CountsAreNumbers, FS_RemoveElement
<1>6. Cardinality(Narrow') = Cardinality(Narrow) - (IF net[g].incoming # 0 THEN 1 ELSE 0)
  <2>1. CASE net[g].incoming # 0
    BY <2>1, <1>4, CountsAreNumbers, FS_RemoveElement
  <2>2. CASE net[g].incoming = 0
    <3>1. Narrow' = Narrow
      BY <2>2, <1>4
    <3> QED
      BY <3>1, <2>2, CountsAreNumbers
  <2> QED
    BY <2>1, <2>2
<1> QED
  BY <1>1, <1>2, <1>5, <1>6
  DEF Counting, PeersCounted, PurgePeer, Connected, Narrow

\* The peer of a guest that has left was taken off the counts when it left.
LEMMA EndsCounts ==
    ASSUME Counting, NEW g \in Guests, Ends(g)
    PROVE  Counting'
<1>1. /\ state[g] \in {"DISCONNECTING", "ZOMBIE"}
      /\ state' = [state EXCEPT ![g] = "DISCONNECTED"]
      /\ net' = [net EXCEPT ![g] = InitialNet]
      /\ connected_peers' = connected_peers
      /\ bandwidth_limited_peers' = bandwidth_limited_peers
  BY DEF Ends, Reset
<1>2. Shape'
  BY <1>1, NewNets DEF Shape, Counting, Guests
<1>3. \A h \in Guests : /\ IsConnected(h)' <=> IsConnected(h)
                        /\ IsConnected(h) => net[h].incoming' = net[h].incoming
  BY <1>1 DEF IsConnected, Counting, Shape
<1> QED
  BY <1>1, <1>2, <1>3, SameCounts

\* A peer that waits for its queues to drain is connected as before.
LEMMA DisconnectLaterCounts ==
    ASSUME Counting, NEW g \in Guests, DisconnectLater(g)
    PROVE  Counting'
<1>1. /\ state[g] = "CONNECTED"
      /\ state' = [state EXCEPT ![g] = "DISCONNECT_LATER"]
      /\ net' = net
      /\ connected_peers' = connected_peers
      /\ bandwidth_limited_peers' = bandwidth_limited_peers
  BY DEF DisconnectLater, hub
<1>2. Shape'
  BY <1>1 DEF Shape, Counting, Guests
<1>3. \A h \in Guests : /\ IsConnected(h)' <=> IsConnected(h)
                        /\ IsConnected(h) => net[h].incoming' = net[h].incoming
  BY <1>1 DEF IsConnected, Counting, Shape
<1> QED
  BY <1>1, <1>2, <1>3, SameCounts

\* What is measured changes the throttle only.
LEMMA AcknowledgedCounts ==
    ASSUME Counting, NEW g \in Guests, NEW sample, Acknowledged(g, sample)
    PROVE  Counting'
<1>1. /\ state' = state
      /\ net' = [net EXCEPT ![g].throttle = sample]
      /\ connected_peers' = connected_peers
      /\ bandwidth_limited_peers' = bandwidth_limited_peers
  BY DEF Acknowledged, hub
<1>2. /\ DOMAIN net' = Guests
      /\ \A h \in Guests :
            net'[h] = IF h = g THEN [net[g] EXCEPT !.throttle = sample] ELSE net[h]
  BY <1>1 DEF Counting, Shape
<1>3. \A h \in Guests : IsNet(net'[h]) /\ net'[h].incoming = net[h].incoming
  <2> SUFFICES ASSUME NEW h \in Guests
               PROVE  IsNet(net'[h]) /\ net'[h].incoming = net[h].incoming
    OBVIOUS
  <2>1. IsNet(net[h])
    BY DEF Counting, Shape
  <2>2. CASE h = g
    <3>1. net'[h] = [net[h] EXCEPT !.throttle = sample]
      BY <2>2, <1>2
    <3> QED
      BY <2>1, <3>1 DEF IsNet
  <2>3. CASE h # g
    BY <2>1, <2>3, <1>2
  <2> QED
    BY <2>2, <2>3
<1>4. Shape'
  BY <1>1, <1>2, <1>3 DEF Shape, Counting, Guests, IsNet
<1>5. \A h \in Guests : /\ IsConnected(h)' <=> IsConnected(h)
                        /\ IsConnected(h) => net[h].incoming' = net[h].incoming
  BY <1>1, <1>3 DEF IsConnected
<1> QED
  BY <1>1, <1>4, <1>5, SameCounts

\* BandwidthThrottle sets limits and throttles, whatever it computes for them.
LEMMA ThrottleCounts ==
    ASSUME Counting, NEW seconds, Throttle(seconds)
    PROVE  Counting'
<1> DEFINE limits == Limits(EndOfWalk(seconds))
<1>1. /\ state' = state
      /\ net' = [g \in Guests |->
                    IF g \in DOMAIN limits THEN Limited(net[g], limits[g]) ELSE net[g]]
      /\ connected_peers' = connected_peers
      /\ bandwidth_limited_peers' = bandwidth_limited_peers
  BY DEF Throttle
<1> HIDE DEF limits
<1>2. \A g \in Guests : IsNet(net'[g]) /\ net'[g].incoming = net[g].incoming
  BY <1>1, LimitedNet DEF Counting, Shape
<1>3. Shape'
  BY <1>1, <1>2 DEF Shape, Counting, Guests, IsNet
<1>4. \A g \in Guests : /\ IsConnected(g)' <=> IsConnected(g)
                        /\ IsConnected(g) => net[g].incoming' = net[g].incoming
  BY <1>1, <1>2 DEF IsConnected
<1> QED
  BY <1>1, <1>3, <1>4, SameCounts

\* Every other step leaves states, nets and counters as they are.
LEMMA IdleCounts ==
    ASSUME Counting, UNCHANGED <<state, net, connected_peers, bandwidth_limited_peers>>
    PROVE  Counting'
BY DEF Counting, Shape, PeersCounted, IsConnected, IsNet, Guests

LEMMA NextCounts == Counting /\ [Next]_vars => Counting'
<1> SUFFICES ASSUME Counting, [Next]_vars PROVE Counting'
  OBVIOUS
<1>1. CASE UNCHANGED vars
  BY <1>1, IdleCounts DEF vars, hub
<1>2. CASE Next
  <2>1. CASE \E g \in Guests, incoming \in GUEST_INCOMING, outgoing \in GUEST_OUTGOING :
                Connects(g, incoming, outgoing)
    BY <2>1, ConnectsCounts
  <2>2. CASE \E g \in Guests : DisconnectedByHost(g) \/ DisconnectedByGuest(g)
    BY <2>2, LeavesCounts DEF DisconnectedByHost, DisconnectedByGuest
  <2>3. CASE \E g \in Guests : Ends(g)
    BY <2>3, EndsCounts
  <2>4. CASE \E g \in Guests : DisconnectLater(g)
    BY <2>4, DisconnectLaterCounts
  <2>5. CASE \E g \in Guests, size \in SIZES : Queue(g, size)
    BY <2>5, IdleCounts DEF Queue, hub
  <2>6. CASE \E g \in Guests, sample \in SAMPLES : Acknowledged(g, sample)
    BY <2>6, AcknowledgedCounts
  <2>7. CASE \E seconds \in SECONDS : Throttle(seconds)
    BY <2>7, ThrottleCounts
  <2> QED
    BY <1>2, <2>1, <2>2, <2>3, <2>4, <2>5, <2>6, <2>7 DEF Next
<1> QED
  BY <1>1, <1>2

\* connected_peers_ and bandwidth_limited_peers_ are the numbers of the peers
\* that are connected, and of those of them with a limited bandwidth, so that
\* BandwidthThrottle divides by what it takes them for.
THEOREM PeersAreCounted == Spec => []PeersCounted
<1>1. Init => Counting
  BY InitCounts
<1>2. Counting /\ [Next]_vars => Counting'
  BY NextCounts
<1>3. Counting => PeersCounted
  BY DEF Counting
<1> QED
  BY <1>1, <1>2, <1>3, PTL DEF Spec

-----------------------------------------------------------------------------
(* Types, as records and functions.                                        *)

Net == [incoming : Word, outgoing : Word, mtu : Word, window : Word,
        throttle : Word, limit : Word]

States == {"DISCONNECTED", "CONNECTED", "DISCONNECT_LATER", "DISCONNECTING", "ZOMBIE"}

Typed ==
    /\ state \in [Guests -> States]
    /\ net \in [Guests -> Net]
    /\ total \in [Guests -> Word]
    /\ told \in [Guests -> Nat \cup {NotTold}]

\* A guest that has not connected has been told nothing.
Silent == \A g \in Guests : state[g] = "DISCONNECTED" => told[g] = NotTold

LEMMA WordLemma ==
    /\ DATA_MODULUS \in Nat /\ DATA_MODULUS > 0
    /\ \A n \in Word : n \in Nat /\ n < DATA_MODULUS
    /\ \A n \in Nat : n < DATA_MODULUS => n \in Word
    /\ \A n \in Int : Mod(n) \in Word
    /\ PEER_SEGMENT_THROTTLE_SCALE \in Word /\ PEER_SEGMENT_THROTTLE_SCALE > 0
    /\ HOST_INCOMING \in Word /\ HOST_OUTGOING \in Word /\ LIMIT_SIZE \in Word
<1>1. DATA_MODULUS \in Nat /\ DATA_MODULUS > 0
  BY PeerNetAssumption
<1>2. \A n \in Int : n % DATA_MODULUS \in 0..(DATA_MODULUS - 1)
  BY <1>1
<1> QED BY <1>1, <1>2, PeerNetAssumption, ThrottleAssumption DEF Word, Mod

\* What Mod leaves alone, and what a number is after one is added to it or
\* taken off it.
LEMMA ModIs ==
    /\ \A n \in Word : Mod(n) = n
    /\ \A n \in Nat : Mod(n) <= n
    /\ \A n \in Word, k \in Nat : k <= n => Mod(n + DATA_MODULUS - k) = n - k
<1>1. PICK m \in Nat : m = DATA_MODULUS /\ m > 0
  BY WordLemma
<1>2. \A r \in 0..(m - 1) : (m * 0 + r) % m = r /\ (m * 1 + r) % m = r
  BY <1>1, DivisionIs
<1>3. \A r \in 0..(m - 1) : r % m = r /\ (m + r) % m = r
  BY <1>1, <1>2
<1>4. ASSUME NEW n \in Nat PROVE n % m <= n
  <2>1. PICK q \in Nat, r \in 0..(m - 1) : n = m * q + r /\ r = n % m
    BY <1>1, DivisionExists
  <2>2. m * q >= 0
    BY <1>1
  <2> QED BY <2>1, <2>2
<1>5. ASSUME NEW n \in 0..(m - 1), NEW k \in Nat, k <= n PROVE (n + m - k) % m = n - k
  <2>1. PICK r \in 0..(m - 1) : r = n - k /\ n + m - k = m + r
    BY <1>1, <1>5
  <2> QED BY <1>3, <2>1
<1> QED BY <1>1, <1>3, <1>4, <1>5 DEF Mod, Word

\* Quotients are numbers, and what they are divided from.
LEMMA QuotientLemma ==
    ASSUME NEW n \in Nat, NEW d \in Nat, d > 0
    PROVE  n \div d \in Nat /\ d * (n \div d) <= n /\ n \div d <= n
<1>1. PICK q \in Nat, r \in 0..(d - 1) : n = d * q + r /\ q = n \div d
  BY DivisionExists
<1>2. d * q <= n
  BY <1>1
<1>3. q <= d * q
  BY <1>1
<1> QED BY <1>1, <1>2, <1>3

LEMMA NetFields ==
    ASSUME NEW n \in Net
    PROVE  /\ n.incoming \in Word /\ n.outgoing \in Word /\ n.throttle \in Word
           /\ n.limit \in Word
           /\ \A x \in Word : /\ Limited(n, x) \in Net
                              /\ Limited(n, x).incoming = n.incoming
                              /\ Limited(n, x).outgoing = n.outgoing
                              /\ Limited(n, x).limit = x
                              /\ Limited(n, x).throttle = Smaller(n.throttle, x)
                              /\ [n EXCEPT !.throttle = x] \in Net
                              /\ [n EXCEPT !.throttle = x].incoming = n.incoming
                              /\ [n EXCEPT !.throttle = x].outgoing = n.outgoing
<1>1. n.incoming \in Word /\ n.outgoing \in Word /\ n.throttle \in Word /\ n.limit \in Word
  BY DEF Net
<1>2. ASSUME NEW x \in Word
      PROVE  /\ Limited(n, x) \in Net
             /\ Limited(n, x).incoming = n.incoming
             /\ Limited(n, x).outgoing = n.outgoing
             /\ Limited(n, x).limit = x
             /\ Limited(n, x).throttle = Smaller(n.throttle, x)
  <2>1. PICK t \in Word : t = Smaller(n.throttle, x)
    BY <1>1 DEF Smaller
  <2>2. Limited(n, x) = [n EXCEPT !.limit = x, !.throttle = t]
    BY <2>1 DEF Limited
  <2> QED BY <2>1, <2>2 DEF Net
<1>3. ASSUME NEW x \in Word
      PROVE  /\ [n EXCEPT !.throttle = x] \in Net
             /\ [n EXCEPT !.throttle = x].incoming = n.incoming
             /\ [n EXCEPT !.throttle = x].outgoing = n.outgoing
  BY DEF Net
<1> QED BY <1>1, <1>2, <1>3

LEMMA ClampLemma ==
    /\ \A n \in Word : ClampWindow(n) \in Word /\ ClampMtu(n) \in Word
    /\ \A n \in Word : Scaled(n) \in Word
<1>1. PICK lw \in Word, hw \in Word, lm \in Word, hm \in Word :
         /\ lw = PROTOCOL_MINIMUM_WINDOW_SIZE /\ hw = PROTOCOL_MAXIMUM_WINDOW_SIZE
         /\ lm = PROTOCOL_MINIMUM_MTU /\ hm = PROTOCOL_MAXIMUM_MTU
  BY PeerNetAssumption
<1>2. \A n \in Word : ClampWindow(n) \in Word /\ ClampMtu(n) \in Word
  BY <1>1 DEF ClampWindow, ClampMtu, Clamp, Smaller
<1>3. ASSUME NEW n \in Word PROVE Scaled(n) \in Word
  <2>1. PICK s \in Nat : s = PEER_WINDOW_SIZE_SCALE /\ s > 0
    BY PeerNetAssumption
  <2>2. n \in Nat /\ lw \in Nat
    BY WordLemma
  <2>3. PICK q \in Nat : q = n \div s
    BY <2>1, <2>2, QuotientLemma
  <2>4. q * lw \in Int
    BY <2>2
  <2> QED BY <1>1, <2>1, <2>3, <2>4, WordLemma DEF Scaled
<1> QED BY <1>2, <1>3

LEMMA NewNetTypes ==
    /\ InitialNet \in Net
    /\ \A incoming \in Word, outgoing \in Word :
          LET here == SetupConnectedPeer(Connect(Setup(InitialNet), incoming, outgoing),
                                         HOST_INCOMING, HOST_OUTGOING)
          IN  here \in Net /\ here.incoming = incoming /\ here.outgoing = outgoing
<1>1. PICK i \in Net : i = InitialNet
  BY PeerNetAssumption, WordLemma DEF InitialNet, Net
<1>2. ASSUME NEW incoming \in Word, NEW outgoing \in Word
      PROVE  LET here == SetupConnectedPeer(Connect(Setup(InitialNet), incoming, outgoing),
                                            HOST_INCOMING, HOST_OUTGOING)
             IN  here \in Net /\ here.incoming = incoming /\ here.outgoing = outgoing
  <2>1. PICK cmd : cmd = Connect(Setup(i), incoming, outgoing)
    OBVIOUS
  <2>2. Setup(i).mtu = i.mtu
    BY DEF Setup, Net
  <2>3. cmd.incoming = incoming /\ cmd.outgoing = outgoing /\ cmd.mtu \in Word
    BY <2>1, <2>2 DEF Connect, Net
  <2>4. PICK m \in Word : m = ClampMtu(cmd.mtu)
    BY <2>3, ClampLemma
  <2>5. PICK w \in Word : w = AcceptedWindow(HOST_INCOMING, incoming)
    <3>1. PICK a \in Word : a = HOST_INCOMING
      BY WordLemma
    <3>2. \A x \in Word, y \in Word : Larger(x, y) \in Word /\ Smaller(x, y) \in Word
      BY DEF Larger, Smaller
    <3>3. PROTOCOL_MAXIMUM_WINDOW_SIZE \in Word
      BY PeerNetAssumption
    <3>4. AcceptedWindow(a, incoming) \in Word
      <4>1. CASE a = 0 /\ incoming = 0
        BY <3>3, <4>1, ClampLemma DEF AcceptedWindow
      <4>2. CASE a = 0 /\ incoming # 0
        <5>1. AcceptedWindow(a, incoming) = ClampWindow(Scaled(Larger(a, incoming)))
          BY <4>2 DEF AcceptedWindow
        <5> QED BY <3>2, <5>1, ClampLemma
      <4>3. CASE a # 0 /\ incoming = 0
        <5>1. AcceptedWindow(a, incoming) = ClampWindow(Scaled(Larger(a, incoming)))
          BY <4>3 DEF AcceptedWindow
        <5> QED BY <3>2, <5>1, ClampLemma
      <4>4. CASE a # 0 /\ incoming # 0
        <5>1. AcceptedWindow(a, incoming) = ClampWindow(Scaled(Smaller(a, incoming)))
          BY <4>4 DEF AcceptedWindow
        <5> QED BY <3>2, <5>1, ClampLemma
      <4> QED BY <4>1, <4>2, <4>3, <4>4
    <3> QED BY <3>1, <3>4
  <2>6. SetupConnectedPeer(cmd, HOST_INCOMING, HOST_OUTGOING) =
           [i EXCEPT !.incoming = incoming, !.outgoing = outgoing, !.mtu = m, !.window = w]
    BY <1>1, <2>3, <2>4, <2>5 DEF SetupConnectedPeer
  <2>7. PICK here : here = SetupConnectedPeer(cmd, HOST_INCOMING, HOST_OUTGOING)
    OBVIOUS
  <2>8. here \in Net /\ here.incoming = incoming /\ here.outgoing = outgoing
    BY <2>6, <2>7 DEF Net
  <2> QED BY <1>1, <2>1, <2>7, <2>8
<1> QED BY <1>1, <1>2

LEMMA SlotsLemma ==
    /\ Len(Slots) \in Nat /\ \A i \in 1..Len(Slots) : Slots[i] \in Guests
    /\ \A g \in Guests : \E i \in 1..Len(Slots) : Slots[i] = g
<1>1. Slots \in Seq(ToSet(Slots))
  BY ThrottleAssumption
<1> QED BY <1>1 DEF Guests, ToSet

-----------------------------------------------------------------------------
(* The shares of the incoming bandwidth.                                   *)

\* What each guest may send.
Sends == [g \in Guests |-> net[g].outgoing]

ShareRecord == [own : SUBSET Guests, again : BOOLEAN, remaining : Int,
                bandwidth : Word, limit : Nat]

\* The guests that keep what they may send are off the rest that the others
\* share.
Shared(w) ==
    /\ w \in ShareRecord /\ w.own \subseteq Connected
    /\ w.remaining = Cardinality(Connected \ w.own)
    /\ w.bandwidth + SumFunctionOnSet(Sends, w.own) = HOST_INCOMING

\* What the rest is enough for.
Suffices(w, limit) == limit * w.remaining <= w.bandwidth

\* Every guest that shares could send as much.
Settled(w) ==
    /\ Suffices(w, w.limit)
    /\ \A g \in Connected \ w.own : Sends[g] >= w.limit

LEMMA SendsLemma ==
    ASSUME Typed
    PROVE  /\ \A g \in Guests : Sends[g] = net[g].outgoing /\ Sends[g] \in Nat
           /\ \A B \in SUBSET Guests : IsFiniteSet(B) /\ Numeric(Sends, B) /\ Cardinality(B) \in Nat
<1>1. \A g \in Guests : Sends[g] = net[g].outgoing /\ Sends[g] \in Nat
  <2> SUFFICES ASSUME NEW g \in Guests PROVE Sends[g] = net[g].outgoing /\ Sends[g] \in Nat
    OBVIOUS
  <2>1. net[g] \in Net
    BY DEF Typed
  <2> QED BY <2>1, NetFields, WordLemma DEF Sends
<1>2. ASSUME NEW B \in SUBSET Guests PROVE IsFiniteSet(B) /\ Numeric(Sends, B) /\ Cardinality(B) \in Nat
  <2>1. IsFiniteSet(B)
    BY GuestsAreFinite, FS_Subset
  <2> QED BY <1>1, <2>1, FS_CardinalityType DEF Numeric
<1> QED BY <1>1, <1>2

\* A record with one guest more.
LEMMA ShareRecordTaken ==
    ASSUME NEW w \in ShareRecord, NEW g \in Guests, NEW n \in Nat
    PROVE  LET v == [w EXCEPT !.own = @ \cup {g}, !.again = TRUE, !.remaining = @ - 1,
                              !.bandwidth = Mod(@ + DATA_MODULUS - n)]
           IN  /\ v.own = w.own \cup {g} /\ v.again = TRUE /\ v.remaining = w.remaining - 1
               /\ v.bandwidth = Mod(w.bandwidth + DATA_MODULUS - n) /\ v.limit = w.limit
               /\ v \in ShareRecord
<1>1. PICK x \in Nat : x = w.bandwidth
  BY WordLemma DEF ShareRecord
<1>2. x + DATA_MODULUS - n \in Int
  BY WordLemma
<1>3. Mod(x + DATA_MODULUS - n) \in Word
  BY <1>2, WordLemma
<1>4. w.remaining - 1 \in Int /\ w.own \cup {g} \in SUBSET Guests /\ TRUE \in {TRUE}
  BY DEF ShareRecord
<1>5. PICK o \in SUBSET Guests, r \in Int, a \in {TRUE}, b \in Word :
         /\ o = w.own \cup {g} /\ r = w.remaining - 1
         /\ b = Mod(w.bandwidth + DATA_MODULUS - n)
  BY <1>1, <1>3, <1>4
<1>6. PICK v : v = [w EXCEPT !.own = o, !.again = TRUE, !.remaining = r, !.bandwidth = b]
  OBVIOUS
<1>7. v = [w EXCEPT !.own = @ \cup {g}, !.again = TRUE, !.remaining = @ - 1,
                    !.bandwidth = Mod(@ + DATA_MODULUS - n)]
  BY <1>5, <1>6 DEF ShareRecord
<1>8. v.own = o /\ v.again = TRUE /\ v.remaining = r /\ v.bandwidth = b /\ v.limit = w.limit
  BY <1>6 DEF ShareRecord
<1>9. v \in ShareRecord
  BY <1>6 DEF ShareRecord
<1> QED BY <1>5, <1>7, <1>8, <1>9

LEMMA ShareOneTypes ==
    ASSUME Typed, NEW w \in ShareRecord, NEW g \in Guests, NEW limit
    PROVE  ShareOne(w, g, limit) \in ShareRecord
<1>1. net[g].outgoing \in Nat
  BY SendsLemma
<1>2. PICK n \in Nat : n = net[g].outgoing
  BY <1>1
<1> QED BY <1>2, ShareRecordTaken DEF ShareOne

\* One guest of a round.
LEMMA ShareOneKeeps ==
    ASSUME Typed, NEW w, Shared(w), NEW limit \in Nat, Suffices(w, limit), NEW g \in Guests
    PROVE  LET v == ShareOne(w, g, limit)
           IN  /\ Shared(v) /\ Suffices(v, limit) /\ v.limit = w.limit /\ w.own \subseteq v.own
               /\ g \in Connected \ v.own => Sends[g] >= limit
<1>1. PICK n \in Nat : n = net[g].outgoing /\ n = Sends[g]
  BY SendsLemma
<1>2. PICK v : v = ShareOne(w, g, limit)
  OBVIOUS
<1>3. g \in Connected <=> IsConnected(g)
  BY DEF Connected
<1>4. CASE ~IsConnected(g) \/ g \in w.own \/ (n > 0 /\ n >= limit)
  <2>1. v = w
    BY <1>1, <1>2, <1>4 DEF ShareOne
  <2>2. g \in Connected \ w.own => Sends[g] >= limit
    BY <1>1, <1>3, <1>4
  <2> QED BY <1>2, <2>1, <2>2
<1>5. CASE IsConnected(g) /\ g \notin w.own /\ ~(n > 0 /\ n >= limit)
  <2>1. /\ v.own = w.own \cup {g} /\ v.remaining = w.remaining - 1
        /\ v.bandwidth = Mod(w.bandwidth + DATA_MODULUS - n) /\ v.limit = w.limit
        /\ v \in ShareRecord
    <3>1. v = [w EXCEPT !.own = @ \cup {g}, !.again = TRUE, !.remaining = @ - 1,
                        !.bandwidth = Mod(@ + DATA_MODULUS - n)]
      BY <1>1, <1>2, <1>5 DEF ShareOne
    <3>2. w \in ShareRecord
      BY DEF Shared
    <3>3. LET u == [w EXCEPT !.own = @ \cup {g}, !.again = TRUE, !.remaining = @ - 1,
                             !.bandwidth = Mod(@ + DATA_MODULUS - n)]
          IN  /\ u.own = w.own \cup {g} /\ u.again = TRUE /\ u.remaining = w.remaining - 1
              /\ u.bandwidth = Mod(w.bandwidth + DATA_MODULUS - n) /\ u.limit = w.limit
              /\ u \in ShareRecord
      BY <1>1, <3>2, ShareRecordTaken
    <3> QED BY <3>1, <3>3
  <2>2. PICK rest : rest = Connected \ w.own
    OBVIOUS
  <2>3. /\ g \in rest /\ Connected \ v.own = rest \ {g} /\ IsFiniteSet(rest)
        /\ v.own \subseteq Connected
    <3>1. rest \in SUBSET Guests
      BY <2>2 DEF Connected
    <3>2. IsFiniteSet(rest)
      BY <3>1, SendsLemma
    <3> QED BY <1>3, <1>5, <2>1, <2>2, <3>2 DEF Shared
  <2>4. PICK r \in Nat : w.remaining = r + 1 /\ v.remaining = r /\ r = Cardinality(rest \ {g})
    <3>1. Cardinality(rest) \in Nat /\ Cardinality(rest \ {g}) = Cardinality(rest) - 1
      BY <2>3, FS_RemoveElement, FS_CardinalityType
    <3>2. IsFiniteSet(rest \ {g})
      BY <2>3, FS_RemoveElement
    <3>3. Cardinality(rest \ {g}) \in Nat
      BY <3>2, FS_CardinalityType
    <3> QED BY <2>1, <2>2, <3>1, <3>3 DEF Shared
  <2>5. PICK b \in Nat : b = w.bandwidth /\ b \in Word
    BY WordLemma DEF Shared, ShareRecord
  <2>6. n <= limit /\ limit * (r + 1) <= b
    BY <1>5, <2>4, <2>5 DEF Suffices
  <2>7. limit * (r + 1) = limit * r + limit /\ limit * r >= 0
    OBVIOUS
  <2>8. n <= b /\ limit * r <= b - n
    BY <2>6, <2>7
  <2>9. v.bandwidth = b - n
    BY <2>1, <2>5, <2>8, ModIs
  <2>10. Suffices(v, limit)
    BY <2>4, <2>8, <2>9 DEF Suffices
  <2>11. SumFunctionOnSet(Sends, v.own) = SumFunctionOnSet(Sends, w.own) + n
         /\ SumFunctionOnSet(Sends, w.own) \in Int
    <3>1. w.own \in SUBSET Guests /\ w.own \cup {g} \in SUBSET Guests
      BY DEF Shared, Connected
    <3>2. IsFiniteSet(w.own) /\ Numeric(Sends, w.own \cup {g}) /\ Numeric(Sends, w.own)
      BY <3>1, SendsLemma
    <3> QED BY <1>1, <1>5, <2>1, <3>2, SumPut, SumIsInt
  <2>12. Shared(v)
    <3>1. v.remaining = Cardinality(Connected \ v.own)
      BY <2>3, <2>4
    <3>2. b + SumFunctionOnSet(Sends, w.own) = HOST_INCOMING
      BY <2>5 DEF Shared
    <3>3. v.bandwidth + SumFunctionOnSet(Sends, v.own) = HOST_INCOMING
      BY <2>9, <2>11, <3>2
    <3> QED BY <2>1, <2>3, <3>1, <3>3 DEF Shared
  <2> QED BY <1>2, <2>1, <2>10, <2>12
<1> QED BY <1>1, <1>4, <1>5

LEMMA ShareWalkExists ==
    ASSUME Typed, NEW w \in ShareRecord, NEW limit \in Nat
    PROVE  \E f : f = [n \in 0..Len(Slots) |->
                          IF n = 0 THEN [w EXCEPT !.again = FALSE, !.limit = limit]
                          ELSE ShareOne(f[n - 1], Slots[n], limit)]
<1>1. PICK N \in Nat : N = Len(Slots) /\ \A i \in 1..N : Slots[i] \in Guests
  BY SlotsLemma
<1>2. PICK a \in ShareRecord : a = [w EXCEPT !.again = FALSE, !.limit = limit]
  BY DEF ShareRecord
<1>3. PICK step : step = [x \in ShareRecord \X (1..N) |-> ShareOne(x[1], Slots[x[2]], limit)]
  OBVIOUS
<1>4. step \in Steps(ShareRecord, N)
  BY <1>1, <1>3, ShareOneTypes DEF Steps
<1>5. PICK f : Recursion(f, N, ShareRecord, a, step)
  BY <1>4, RecursionExists
<1>6. f \in [0..N -> ShareRecord] /\ f[0] = a /\ \A i \in 1..N : f[i] = step[<<f[i - 1], i>>]
  BY <1>5 DEF Recursion
<1>7. ASSUME NEW i \in 1..N PROVE f[i] = ShareOne(f[i - 1], Slots[i], limit)
  <2>1. f[i - 1] \in ShareRecord
    BY <1>6
  <2> QED BY <1>3, <1>6, <2>1
<1>8. f = [n \in 0..N |-> IF n = 0 THEN a ELSE ShareOne(f[n - 1], Slots[n], limit)]
  <2>1. \A n \in 0..N : n # 0 => n \in 1..N
    OBVIOUS
  <2>2. \A n \in 0..N : f[n] = IF n = 0 THEN a ELSE ShareOne(f[n - 1], Slots[n], limit)
    BY <1>6, <1>7, <2>1
  <2> QED BY <1>6, <2>2
<1> QED BY <1>1, <1>2, <1>8

LEMMA ShareWalkIs ==
    ASSUME Typed, NEW w \in ShareRecord, NEW limit \in Nat
    PROVE  LET f == ShareWalk(w, limit)
           IN  f = [n \in 0..Len(Slots) |->
                       IF n = 0 THEN [w EXCEPT !.again = FALSE, !.limit = limit]
                       ELSE ShareOne(f[n - 1], Slots[n], limit)]
  BY ShareWalkExists DEF ShareWalk

\* A round starts without a guest that it has taken.
LEMMA ShareStarts ==
    ASSUME NEW w \in ShareRecord, NEW limit \in Nat
    PROVE  LET v == [w EXCEPT !.again = FALSE, !.limit = limit]
           IN  /\ v \in ShareRecord /\ v.limit = limit /\ v.own = w.own
               /\ v.remaining = w.remaining /\ v.bandwidth = w.bandwidth
<1>1. PICK v : v = [w EXCEPT !.again = FALSE, !.limit = limit]
  OBVIOUS
<1>2. /\ v \in ShareRecord /\ v.limit = limit /\ v.own = w.own
      /\ v.remaining = w.remaining /\ v.bandwidth = w.bandwidth
  BY <1>1 DEF ShareRecord
<1> QED BY <1>1, <1>2

LEMMA ShareWalkTypes ==
    ASSUME Typed, NEW w \in ShareRecord, NEW limit \in Nat
    PROVE  ShareWalk(w, limit)[Len(Slots)] \in ShareRecord
<1>1. PICK N \in Nat : N = Len(Slots) /\ \A i \in 1..N : Slots[i] \in Guests
  BY SlotsLemma
<1>2. PICK f : f = ShareWalk(w, limit)
  OBVIOUS
<1>3. f = [n \in 0..N |-> IF n = 0 THEN [w EXCEPT !.again = FALSE, !.limit = limit]
                          ELSE ShareOne(f[n - 1], Slots[n], limit)]
  BY <1>1, <1>2, ShareWalkIs
<1>4. f[0] \in ShareRecord
  BY <1>1, <1>3, ShareStarts
<1>5. ASSUME NEW i \in 1..N, f[i - 1] \in ShareRecord PROVE f[i] \in ShareRecord
  <2>1. f[i] = ShareOne(f[i - 1], Slots[i], limit)
    BY <1>3
  <2> QED BY <1>1, <1>5, <2>1, ShareOneTypes
<1>6. \A i \in 0..N : f[i] \in ShareRecord
  BY <1>1, <1>4, <1>5, BoundedInduction
<1> QED BY <1>1, <1>2, <1>6

\* Each guest that a round has come to either keeps what it may send or may
\* send as much as the share.
Offered(w, limit, n) ==
    /\ Shared(w) /\ Suffices(w, limit) /\ w.limit = limit
    /\ \A i \in 1..n : Slots[i] \in Connected \ w.own => Sends[Slots[i]] >= limit

LEMMA ShareWalkKeeps ==
    ASSUME Typed, NEW w, Shared(w), NEW limit \in Nat, Suffices(w, limit)
    PROVE  LET v == ShareWalk(w, limit)[Len(Slots)] IN Shared(v) /\ Settled(v)
<1>1. PICK N \in Nat : N = Len(Slots) /\ \A i \in 1..N : Slots[i] \in Guests
  BY SlotsLemma
<1>2. PICK f : f = ShareWalk(w, limit)
  OBVIOUS
<1>3. w \in ShareRecord
  BY DEF Shared
<1>4. f = [n \in 0..N |-> IF n = 0 THEN [w EXCEPT !.again = FALSE, !.limit = limit]
                          ELSE ShareOne(f[n - 1], Slots[n], limit)]
  <2>1. LET h == ShareWalk(w, limit)
        IN  h = [n \in 0..Len(Slots) |->
                    IF n = 0 THEN [w EXCEPT !.again = FALSE, !.limit = limit]
                    ELSE ShareOne(h[n - 1], Slots[n], limit)]
    BY <1>3, ShareWalkIs
  <2> QED BY <1>1, <1>2, <2>1
<1>5. Offered(f[0], limit, 0)
  <2>1. f[0] = [w EXCEPT !.again = FALSE, !.limit = limit]
    BY <1>1, <1>4
  <2>2. /\ f[0] \in ShareRecord /\ f[0].limit = limit /\ f[0].own = w.own
        /\ f[0].remaining = w.remaining /\ f[0].bandwidth = w.bandwidth
    <3>1. LET v == [w EXCEPT !.again = FALSE, !.limit = limit]
          IN  /\ v \in ShareRecord /\ v.limit = limit /\ v.own = w.own
              /\ v.remaining = w.remaining /\ v.bandwidth = w.bandwidth
      BY <1>3, ShareStarts
    <3> QED BY <2>1, <3>1
  <2>3. Shared(f[0]) /\ Suffices(f[0], limit)
    BY <2>2 DEF Shared, Suffices
  <2>4. 1..0 = {}
    OBVIOUS
  <2> QED BY <2>2, <2>3, <2>4 DEF Offered
<1>6. ASSUME NEW n \in Nat, n + 1 \in 0..N, Offered(f[n], limit, n)
      PROVE  Offered(f[n + 1], limit, n + 1)
  <2>1. n + 1 \in 1..N /\ (n + 1) - 1 = n /\ n + 1 # 0
    BY <1>1, <1>6
  <2>2. PICK g \in Guests : g = Slots[n + 1]
    BY <1>1, <2>1
  <2>3. PICK v : v = f[n + 1]
    OBVIOUS
  <2>4. PICK u : u = f[n]
    OBVIOUS
  <2>5. v = ShareOne(u, g, limit)
    BY <1>4, <1>6, <2>1, <2>2, <2>3, <2>4
  <2>6. Shared(u) /\ Suffices(u, limit) /\ u.limit = limit
    BY <1>6, <2>4 DEF Offered
  <2>7. /\ Shared(v) /\ Suffices(v, limit) /\ v.limit = u.limit /\ u.own \subseteq v.own
        /\ g \in Connected \ v.own => Sends[g] >= limit
    <3>1. LET x == ShareOne(u, g, limit)
          IN  /\ Shared(x) /\ Suffices(x, limit) /\ x.limit = u.limit /\ u.own \subseteq x.own
              /\ g \in Connected \ x.own => Sends[g] >= limit
      BY <2>6, ShareOneKeeps
    <3> QED BY <2>5, <3>1
  <2>8. ASSUME NEW i \in 1..(n + 1), Slots[i] \in Connected \ v.own
        PROVE  Sends[Slots[i]] >= limit
    <3>1. Slots[i] \in Connected \ u.own
      BY <2>7, <2>8
    <3>2. CASE i = n + 1
      BY <2>2, <2>7, <2>8, <3>2
    <3>3. CASE i # n + 1
      <4>1. i \in 1..n
        BY <3>3
      <4> QED BY <1>6, <2>4, <3>1, <4>1 DEF Offered
    <3> QED BY <3>2, <3>3
  <2> QED BY <2>3, <2>6, <2>7, <2>8 DEF Offered
<1>7. \A n \in Nat : n \in 0..N => Offered(f[n], limit, n)
  <2> DEFINE Good == {n \in Nat : n \in 0..N => Offered(f[n], limit, n)}
  <2>1. 0 \in Good
    BY <1>5
  <2>2. ASSUME NEW n \in Good PROVE n + 1 \in Good
    <3>1. n + 1 \in 0..N => n \in 0..N
      BY <1>1
    <3> QED BY <1>6, <2>2, <3>1
  <2>3. \A n \in Good : n \in Nat => n + 1 \in Good
    BY <2>2
  <2> HIDE DEF Good
  <2>4. Nat \subseteq Good
    BY <2>1, <2>3, NatSetInduction
  <2> QED BY <2>4 DEF Good
<1>8. Offered(f[N], limit, N)
  BY <1>1, <1>7
<1>9. PICK v : v = f[N]
  OBVIOUS
<1>10. ASSUME NEW g \in Connected \ v.own PROVE Sends[g] >= v.limit
  <2>1. g \in Guests
    BY DEF Connected
  <2>2. PICK i \in 1..N : Slots[i] = g
    BY <1>1, <2>1, SlotsLemma
  <2> QED BY <1>8, <1>9, <1>10, <2>2 DEF Offered
<1>11. Shared(v) /\ Suffices(v, v.limit)
  BY <1>8, <1>9 DEF Offered
<1> QED BY <1>1, <1>2, <1>9, <1>10, <1>11 DEF Settled

-----------------------------------------------------------------------------
(* The rounds.                                                             *)

LEMMA ShareFields ==
    ASSUME NEW w \in ShareRecord
    PROVE  w.bandwidth \in Nat /\ w.remaining \in Int
  BY WordLemma DEF ShareRecord

LEMMA SharePeersTypes ==
    ASSUME Typed, NEW w \in ShareRecord
    PROVE  SharePeers(w) \in ShareRecord
<1>1. CASE Continues(w)
  <2>1. w.bandwidth \in Nat /\ w.remaining \in Nat /\ w.remaining > 0
    BY <1>1, ShareFields DEF Continues
  <2>2. PICK limit \in Nat : limit = w.bandwidth \div w.remaining
    BY <2>1, QuotientLemma
  <2> QED BY <1>1, <2>2, ShareWalkTypes DEF SharePeers
<1>2. CASE ~Continues(w)
  BY <1>2 DEF SharePeers
<1> QED BY <1>1, <1>2

LEMMA SharePeersKeeps ==
    ASSUME Typed, NEW w, Shared(w), Continues(w) \/ Settled(w)
    PROVE  Shared(SharePeers(w)) /\ Settled(SharePeers(w))
<1>1. CASE Continues(w)
  <2>1. PICK b \in Nat, r \in Nat : b = w.bandwidth /\ r = w.remaining /\ r > 0
    BY <1>1, ShareFields DEF Continues, Shared
  <2>2. PICK limit \in Nat : limit = w.bandwidth \div w.remaining /\ r * limit <= b
    BY <2>1, QuotientLemma
  <2>3. limit * r = r * limit
    BY <2>1
  <2>4. Suffices(w, limit)
    BY <2>1, <2>2, <2>3 DEF Suffices
  <2> QED BY <1>1, <2>2, <2>4, ShareWalkKeeps DEF SharePeers
<1>2. CASE ~Continues(w)
  BY <1>2 DEF SharePeers
<1> QED BY <1>1, <1>2

LEMMA StartOfSharesIs ==
    ASSUME Typed, Counting
    PROVE  Shared(StartOfShares) /\ (connected_peers > 0 => Continues(StartOfShares))
<1>1. connected_peers = Cardinality(Connected) /\ connected_peers \in Nat
  BY CountsAreNumbers DEF Counting, PeersCounted, Connected
<1>2. StartOfShares \in ShareRecord
  BY <1>1, WordLemma DEF StartOfShares, ShareRecord
<1>3. SumFunctionOnSet(Sends, {}) = 0
  BY SumEmpty
<1>4. HOST_INCOMING + 0 = HOST_INCOMING
  BY WordLemma
<1>5. Shared(StartOfShares)
  BY <1>1, <1>2, <1>3, <1>4 DEF StartOfShares, Shared
<1>6. connected_peers > 0 => Continues(StartOfShares)
  BY DEF StartOfShares, Continues
<1> QED BY <1>5, <1>6

LEMMA ShareRoundsExist ==
    ASSUME Typed, Counting
    PROVE  \E f : f = [n \in 0..(Len(Slots) + 1) |->
                          IF n = 0 THEN StartOfShares ELSE SharePeers(f[n - 1])]
<1>1. PICK N \in Nat : N = Len(Slots) + 1
  BY SlotsLemma
<1>2. PICK a \in ShareRecord : a = StartOfShares
  BY StartOfSharesIs DEF Shared
<1>3. PICK step : step = [x \in ShareRecord \X (1..N) |-> SharePeers(x[1])]
  OBVIOUS
<1>4. step \in Steps(ShareRecord, N)
  BY <1>1, <1>3, SharePeersTypes DEF Steps
<1>5. PICK f : Recursion(f, N, ShareRecord, a, step)
  BY <1>4, RecursionExists
<1>6. f \in [0..N -> ShareRecord] /\ f[0] = a /\ \A i \in 1..N : f[i] = step[<<f[i - 1], i>>]
  BY <1>5 DEF Recursion
<1>7. ASSUME NEW i \in 1..N PROVE f[i] = SharePeers(f[i - 1])
  <2>1. f[i - 1] \in ShareRecord
    BY <1>6
  <2> QED BY <1>3, <1>6, <2>1
<1>8. f = [n \in 0..N |-> IF n = 0 THEN a ELSE SharePeers(f[n - 1])]
  <2>1. \A n \in 0..N : n # 0 => n \in 1..N
    OBVIOUS
  <2>2. \A n \in 0..N : f[n] = IF n = 0 THEN a ELSE SharePeers(f[n - 1])
    BY <1>6, <1>7, <2>1
  <2> QED BY <1>6, <2>2
<1> QED BY <1>1, <1>2, <1>8

LEMMA ShareRoundsAre ==
    ASSUME Typed, Counting
    PROVE  ShareRounds = [n \in 0..(Len(Slots) + 1) |->
                             IF n = 0 THEN StartOfShares ELSE SharePeers(ShareRounds[n - 1])]
  BY ShareRoundsExist DEF ShareRounds

\* What the guests are told.
LEMMA EndOfSharesIs ==
    ASSUME Typed, Counting, connected_peers > 0, HOST_INCOMING # 0
    PROVE  Shared(EndOfShares) /\ Settled(EndOfShares)
<1>1. PICK N \in Nat : N = Len(Slots)
  BY SlotsLemma
<1>2. PICK f : f = ShareRounds
  OBVIOUS
<1>3. f = [n \in 0..(N + 1) |-> IF n = 0 THEN StartOfShares ELSE SharePeers(f[n - 1])]
  BY <1>1, <1>2, ShareRoundsAre
<1>4. f[0] = StartOfShares /\ f[1] = SharePeers(f[0])
  <2>1. 0 \in 0..(N + 1) /\ 1 \in 0..(N + 1) /\ 1 - 1 = 0
    BY <1>1
  <2> QED BY <1>3, <2>1
<1>5. Shared(f[1]) /\ Settled(f[1])
  BY <1>4, StartOfSharesIs, SharePeersKeeps
<1>6. PICK S : S = {w \in ShareRecord : Shared(w) /\ Settled(w)}
  OBVIOUS
<1>7. PICK h : h = [n \in 0..N |-> f[n + 1]]
  OBVIOUS
<1>8. h[0] \in S
  <2>1. h[0] = f[1]
    BY <1>1, <1>7
  <2> QED BY <1>5, <1>6, <2>1 DEF Shared
<1>9. ASSUME NEW i \in 1..N, h[i - 1] \in S PROVE h[i] \in S
  <2>1. i - 1 \in 0..N /\ i \in 0..N /\ i + 1 \in 0..(N + 1) /\ i + 1 # 0
        /\ (i + 1) - 1 = i /\ (i - 1) + 1 = i
    BY <1>1
  <2>2. h[i - 1] = f[i] /\ h[i] = f[i + 1]
    BY <1>7, <2>1
  <2>3. f[i + 1] = SharePeers(f[i])
    BY <1>3, <2>1
  <2>4. Shared(f[i]) /\ Settled(f[i])
    BY <1>6, <1>9, <2>2
  <2>5. Shared(f[i + 1]) /\ Settled(f[i + 1])
    BY <2>3, <2>4, SharePeersKeeps
  <2> QED BY <1>6, <2>2, <2>5 DEF Shared
<1>10. \A i \in 0..N : h[i] \in S
  BY <1>1, <1>8, <1>9, BoundedInduction
<1>11. h[N] = f[N + 1]
  BY <1>1, <1>7
<1>12. Shared(f[N + 1]) /\ Settled(f[N + 1])
  BY <1>1, <1>6, <1>10, <1>11
<1> QED BY <1>1, <1>2, <1>12 DEF EndOfShares

-----------------------------------------------------------------------------
(* The limits of what is sent, as records.                                 *)

Limitations == UNION {[D -> Word] : D \in SUBSET Guests}

LimitRecord == [limits : Limitations, again : BOOLEAN, remaining : Int,
                bandwidth : Word, data : Word]

LEMMA LimitationsLemma ==
    ASSUME NEW l \in Limitations
    PROVE  DOMAIN l \in SUBSET Guests /\ \A h \in DOMAIN l : l[h] \in Word
<1>1. PICK D \in SUBSET Guests : l \in [D -> Word]
  BY DEF Limitations
<1> QED BY <1>1

LEMMA MoreLimitations ==
    ASSUME NEW l \in Limitations, NEW g \in Guests, NEW x \in Word
    PROVE  LET m == [h \in DOMAIN l \cup {g} |-> IF h = g THEN x ELSE l[h]]
           IN  /\ m \in Limitations /\ DOMAIN m = DOMAIN l \cup {g}
               /\ m[g] = x /\ \A h \in DOMAIN l : h # g => m[h] = l[h]
<1>1. PICK D \in SUBSET Guests : l \in [D -> Word]
  BY DEF Limitations
<1>2. PICK E \in SUBSET Guests : E = D \cup {g}
  OBVIOUS
<1>3. PICK m : m = [h \in E |-> IF h = g THEN x ELSE l[h]]
  OBVIOUS
<1>4. m \in [E -> Word]
  BY <1>1, <1>2, <1>3
<1>5. m \in Limitations
  BY <1>4 DEF Limitations
<1>6. DOMAIN m = E /\ m[g] = x /\ \A h \in D : h # g => m[h] = l[h]
  BY <1>2, <1>3
<1>7. DOMAIN l = D
  BY <1>1
<1> QED BY <1>2, <1>3, <1>5, <1>6, <1>7

LEMMA NoLimitation == <<>> \in Limitations /\ DOMAIN <<>> = {}
<1>1. DOMAIN <<>> = {}
  OBVIOUS
<1>2. <<>> \in [{} -> Word]
  OBVIOUS
<1> QED BY <1>1, <1>2 DEF Limitations

LEMMA LimitFields ==
    ASSUME NEW w \in LimitRecord
    PROVE  /\ w.bandwidth \in Nat /\ w.data \in Nat /\ w.remaining \in Int
           /\ w.bandwidth \in Word /\ w.data \in Word
           /\ w.limits \in Limitations /\ w.again \in BOOLEAN
           /\ DOMAIN w.limits \in SUBSET Guests
<1>1. /\ w.bandwidth \in Word /\ w.data \in Word /\ w.remaining \in Int
      /\ w.limits \in Limitations /\ w.again \in BOOLEAN
  BY DEF LimitRecord
<1> QED BY <1>1, WordLemma, LimitationsLemma

\* What is sent to each guest and what each can take.
LEMMA TotalLemma ==
    ASSUME Typed
    PROVE  /\ \A g \in Guests : total[g] \in Word /\ total[g] \in Nat
           /\ \A B \in SUBSET Guests : IsFiniteSet(B) /\ Numeric(total, B) /\ Cardinality(B) \in Nat
<1>1. \A g \in Guests : total[g] \in Word /\ total[g] \in Nat
  BY WordLemma DEF Typed
<1>2. ASSUME NEW B \in SUBSET Guests PROVE Numeric(total, B)
  BY <1>1 DEF Numeric
<1> QED BY <1>1, <1>2, SendsLemma

LEMMA TakesLemma ==
    ASSUME Typed, NEW seconds \in SECONDS, NEW g \in Guests
    PROVE  /\ net[g].incoming \in Nat /\ net[g].incoming * seconds \in Nat
           /\ Mod(net[g].incoming * seconds) \in Word
           /\ Mod(net[g].incoming * seconds) \in Nat
           /\ Mod(net[g].incoming * seconds) <= net[g].incoming * seconds
<1>1. seconds \in Nat
  BY ThrottleAssumption
<1>2. net[g].incoming \in Nat
  <2>1. net[g] \in Net
    BY DEF Typed
  <2> QED BY <2>1, NetFields, WordLemma
<1>3. PICK n \in Nat : n = net[g].incoming * seconds
  BY <1>1, <1>2
<1>4. Mod(n) \in Word /\ Mod(n) \in Nat /\ Mod(n) <= n
  BY WordLemma, ModIs, SMTT(30)
<1> QED BY <1>2, <1>3, <1>4

\* The throttle is a word, and no larger than the scale.
LEMMA ThrottleForIs ==
    ASSUME NEW w \in LimitRecord
    PROVE  LET t == ThrottleFor(w)
           IN  /\ t \in Word /\ t \in Nat /\ t <= PEER_SEGMENT_THROTTLE_SCALE
               /\ w.data <= w.bandwidth => t = PEER_SEGMENT_THROTTLE_SCALE
               /\ w.data > w.bandwidth => t * w.data <= PEER_SEGMENT_THROTTLE_SCALE * w.bandwidth
<1>1. PICK b \in Nat, d \in Nat : b = w.bandwidth /\ d = w.data
  BY LimitFields
<1>2. PICK s \in Nat : s = PEER_SEGMENT_THROTTLE_SCALE /\ s > 0
  BY WordLemma
<1>3. PICK t : t = ThrottleFor(w)
  OBVIOUS
<1>4. CASE d <= b
  <2>1. t = s
    BY <1>1, <1>2, <1>3, <1>4 DEF ThrottleFor
  <2>2. ~(d > b)
    BY <1>4
  <2> QED BY <1>1, <1>2, <1>3, <2>1, <2>2, WordLemma
<1>5. CASE d > b
  <2>1. d > 0 /\ ~(d <= b)
    BY <1>5
  <2>2. PICK n \in Nat : n = b * s
    BY <1>2
  <2>3. PICK m \in Nat : m = Mod(n) /\ m <= n
    BY ModIs, WordLemma
  <2>4. t = m \div d
    BY <1>1, <1>2, <1>3, <2>1, <2>2, <2>3 DEF ThrottleFor
  <2>5. t \in Nat /\ d * t <= m
    BY <2>1, <2>4, QuotientLemma
  <2>6. d * t <= b * s
    BY <2>2, <2>3, <2>5
  <2>7. t <= s
    <3> SUFFICES ASSUME t > s PROVE FALSE
      BY <1>2, <2>5
    <3>1. PICK x \in Nat, y \in Nat : t = s + x /\ d = b + y /\ y > 0
      <4>1. t - s \in Nat /\ d - b \in Nat /\ d - b > 0
        BY <1>2, <1>5, <2>5
      <4> QED BY <4>1, <2>5, <1>2
    <3>2. d * t = b * s + b * x + y * s + y * x
      BY <1>1, <1>2, <3>1
    <3>3. b * x >= 0 /\ y * x >= 0 /\ y * s > 0 /\ b * x \in Nat /\ y * x \in Nat /\ y * s \in Nat
          /\ b * s \in Nat
      BY <1>1, <1>2, <3>1
    <3> QED BY <2>6, <3>2, <3>3
  <2>8. t \in Word
    <3>1. s < DATA_MODULUS
      BY <1>2, WordLemma
    <3> QED BY <1>2, <2>5, <2>7, <3>1, WordLemma
  <2>9. t * d <= s * b
    BY <1>2, <2>5, <2>6
  <2> QED BY <1>1, <1>2, <1>3, <2>1, <2>5, <2>7, <2>8, <2>9
<1> QED BY <1>1, <1>4, <1>5

\* A guest that is sent too much is sent something, and not more than its
\* part of what the throttle allows.
LEMMA ExceedsLemma ==
    ASSUME Typed, NEW seconds \in SECONDS, NEW g \in Guests, NEW t \in Nat,
           t <= PEER_SEGMENT_THROTTLE_SCALE, Exceeds(t, g, seconds)
    PROVE  LET takes == Mod(net[g].incoming * seconds)
           IN  /\ total[g] > 0 /\ takes <= total[g]
               /\ PEER_SEGMENT_THROTTLE_SCALE * takes <= t * total[g]
<1>1. PICK takes \in Nat : takes = Mod(net[g].incoming * seconds)
  BY TakesLemma
<1>2. PICK s \in Nat : s = PEER_SEGMENT_THROTTLE_SCALE /\ s > 0
  BY WordLemma
<1>3. PICK a \in Nat : a = total[g]
  BY TotalLemma
<1>4. PICK n \in Nat : n = t * a
  OBVIOUS
<1>5. PICK m \in Nat : m = Mod(n) /\ m <= n
  BY ModIs, WordLemma
<1>6. PICK q \in Nat : q = m \div s /\ s * q <= m
  BY <1>2, QuotientLemma
<1>7. q > takes
  BY <1>1, <1>2, <1>3, <1>4, <1>5, <1>6 DEF Exceeds
<1>8. s * takes <= s * q
  BY <1>2, <1>7
<1>9. s * takes <= t * a
  BY <1>2, <1>4, <1>5, <1>6, <1>8
<1>10. s * q > 0
  BY <1>1, <1>2, <1>6, <1>7
<1>11. a > 0
  <2> SUFFICES ASSUME a = 0 PROVE FALSE
    BY <1>3
  <2>1. n = 0
    BY <1>4
  <2> QED BY <1>5, <1>6, <1>10, <2>1
<1>12. t * a <= s * a
  BY <1>2
<1>13. takes <= a
  <2> SUFFICES ASSUME takes > a PROVE FALSE
    BY <1>1, <1>3
  <2>1. s * takes > s * a
    BY <1>1, <1>2
  <2> QED BY <1>1, <1>2, <1>9, <1>12, <2>1
<1> QED BY <1>1, <1>2, <1>3, <1>9, <1>11, <1>13

\* The limit of a guest, where it is not raised, is what it can take.
LEMMA ScaleLemma ==
    ASSUME Typed, NEW seconds \in SECONDS, NEW g \in Guests, total[g] > 0
    PROVE  LET takes == Mod(net[g].incoming * seconds)
               x     == Larger(Mod(takes * PEER_SEGMENT_THROTTLE_SCALE) \div total[g], 1)
           IN  x \in Word /\ (x > 1 => x * total[g] <= PEER_SEGMENT_THROTTLE_SCALE * takes)
<1>1. PICK takes \in Nat : takes = Mod(net[g].incoming * seconds)
  BY TakesLemma
<1>2. PICK s \in Nat : s = PEER_SEGMENT_THROTTLE_SCALE /\ s > 0 /\ s < DATA_MODULUS
  BY WordLemma
<1>3. PICK a \in Nat : a = total[g] /\ a > 0
  BY TotalLemma
<1>4. PICK n \in Nat : n = takes * s
  BY <1>2
<1>5. PICK m \in Nat : m = Mod(n) /\ m <= n /\ m \in Word
  BY ModIs, WordLemma
<1>6. PICK q \in Nat : q = m \div a /\ a * q <= m /\ q <= m
  BY <1>3, QuotientLemma
<1>7. PICK x \in Nat : x = Larger(q, 1)
  BY DEF Larger
<1>8. x \in Word
  <2>1. q \in Word
    <3>1. m < DATA_MODULUS
      BY <1>5, WordLemma
    <3>2. q < DATA_MODULUS
      BY <1>6, <3>1, WordLemma
    <3> QED BY <3>2, WordLemma
  <2>2. 1 < DATA_MODULUS
    BY <1>2, WordLemma
  <2>3. 1 \in Word
    BY <2>2, WordLemma
  <2> QED BY <1>7, <2>1, <2>3 DEF Larger
<1>9. ASSUME x > 1 PROVE x * a <= s * takes
  <2>1. x = q
    BY <1>7, <1>9 DEF Larger
  <2>2. x * a = a * q /\ s * takes = n
    BY <1>2, <1>4, <2>1
  <2> QED BY <1>5, <1>6, <2>2
<1> QED BY <1>1, <1>2, <1>3, <1>4, <1>5, <1>6, <1>7, <1>8, <1>9

\* A record of which a guest that takes n has been taken off, with limits of
\* its own.
WithLimits(w, m, n) ==
    [w EXCEPT !.limits    = m,
              !.again     = TRUE,
              !.remaining = @ - 1,
              !.bandwidth = Mod(@ + DATA_MODULUS - n),
              !.data      = Mod(@ + DATA_MODULUS - n)]

LEMMA WithLimitsIs ==
    ASSUME NEW w \in LimitRecord, NEW m \in Limitations, NEW n \in Nat
    PROVE  /\ WithLimits(w, m, n) \in LimitRecord /\ WithLimits(w, m, n).limits = m
           /\ WithLimits(w, m, n).again = TRUE
           /\ WithLimits(w, m, n).remaining = w.remaining - 1
           /\ WithLimits(w, m, n).bandwidth = Mod(w.bandwidth + DATA_MODULUS - n)
           /\ WithLimits(w, m, n).data = Mod(w.data + DATA_MODULUS - n)
<1>1. PICK y \in Nat, z \in Nat, k \in Int :
         y = w.bandwidth /\ z = w.data /\ k = w.remaining
  BY LimitFields
<1>2. y + DATA_MODULUS - n \in Int /\ z + DATA_MODULUS - n \in Int
  BY WordLemma
<1>3. PICK b \in Word, d \in Word :
         b = Mod(y + DATA_MODULUS - n) /\ d = Mod(z + DATA_MODULUS - n)
  BY <1>2, WordLemma
<1>4. PICK r \in Int, a \in {TRUE} : r = k - 1
  BY <1>1
<1>5. PICK v : v = [w EXCEPT !.limits = m, !.again = a, !.remaining = r,
                             !.bandwidth = b, !.data = d]
  OBVIOUS
<1>6. v = WithLimits(w, m, n)
  BY <1>1, <1>3, <1>4, <1>5 DEF LimitRecord, WithLimits
<1>7. /\ v.limits = m /\ v.again = TRUE /\ v.remaining = r /\ v.bandwidth = b /\ v.data = d
      /\ v \in LimitRecord
  BY <1>3, <1>4, <1>5 DEF LimitRecord
<1> QED BY <1>1, <1>3, <1>4, <1>6, <1>7

\* A guest that the loop leaves as it is.
Passed(w, g, t, seconds) ==
    ~IsConnected(g) \/ net[g].incoming = 0 \/ g \in DOMAIN w.limits \/ ~Exceeds(t, g, seconds)

\* What a guest that is limited makes of the record.
Narrowed(v, w, g, seconds) ==
    LET takes == Mod(net[g].incoming * seconds)
    IN  /\ v \in LimitRecord
        /\ DOMAIN v.limits = DOMAIN w.limits \cup {g}
        /\ \A h \in DOMAIN w.limits : h # g => v.limits[h] = w.limits[h]
        /\ v.limits[g] > 1 => v.limits[g] * total[g] <= PEER_SEGMENT_THROTTLE_SCALE * takes
        /\ v.again = TRUE /\ v.remaining = w.remaining - 1
        /\ v.bandwidth = Mod(w.bandwidth + DATA_MODULUS - takes)
        /\ v.data = Mod(w.data + DATA_MODULUS - takes)

LEMMA LimitOneIs ==
    ASSUME Typed, NEW w \in LimitRecord, NEW g \in Guests, NEW seconds \in SECONDS,
           NEW t \in Nat, t <= PEER_SEGMENT_THROTTLE_SCALE
    PROVE  LET v == LimitOne(w, g, t, seconds)
           IN  /\ Passed(w, g, t, seconds) => v = w
               /\ ~Passed(w, g, t, seconds) => Narrowed(v, w, g, seconds)
<1>1. CASE Passed(w, g, t, seconds)
  BY <1>1 DEF LimitOne, Passed
<1>2. CASE ~Passed(w, g, t, seconds)
  <2>1. Exceeds(t, g, seconds)
    BY <1>2 DEF Passed
  <2>2. total[g] > 0
    BY <2>1, ExceedsLemma
  <2>3. PICK takes \in Nat : takes = Mod(net[g].incoming * seconds)
    BY TakesLemma
  <2>4. PICK x \in Word :
           /\ x = Larger(Mod(takes * PEER_SEGMENT_THROTTLE_SCALE) \div total[g], 1)
           /\ x > 1 => x * total[g] <= PEER_SEGMENT_THROTTLE_SCALE * takes
    BY <2>2, <2>3, ScaleLemma
  <2>5. PICK v : v = LimitOne(w, g, t, seconds)
    OBVIOUS
  <2>6. PICK l \in Limitations : l = w.limits
    BY LimitFields
  <2>7. PICK m : m = [h \in DOMAIN l \cup {g} |-> IF h = g THEN x ELSE l[h]]
    OBVIOUS
  <2>8. /\ m \in Limitations /\ DOMAIN m = DOMAIN l \cup {g}
        /\ m[g] = x /\ \A h \in DOMAIN l : h # g => m[h] = l[h]
    <3>1. LET o == [h \in DOMAIN l \cup {g} |-> IF h = g THEN x ELSE l[h]]
          IN  /\ o \in Limitations /\ DOMAIN o = DOMAIN l \cup {g}
              /\ o[g] = x /\ \A h \in DOMAIN l : h # g => o[h] = l[h]
      BY MoreLimitations
    <3> QED BY <2>7, <3>1
  <2>9. v = WithLimits(w, m, takes)
    BY <1>2, <2>3, <2>4, <2>5, <2>6, <2>7 DEF LimitOne, Passed, LimitRecord, WithLimits
  <2>10. /\ v \in LimitRecord /\ v.limits = m
         /\ v.again = TRUE /\ v.remaining = w.remaining - 1
         /\ v.bandwidth = Mod(w.bandwidth + DATA_MODULUS - takes)
         /\ v.data = Mod(w.data + DATA_MODULUS - takes)
    <3>1. takes \in Nat /\ m \in Limitations
      BY <2>3, <2>8
    <3>2. /\ WithLimits(w, m, takes) \in LimitRecord /\ WithLimits(w, m, takes).limits = m
          /\ WithLimits(w, m, takes).again = TRUE
          /\ WithLimits(w, m, takes).remaining = w.remaining - 1
          /\ WithLimits(w, m, takes).bandwidth = Mod(w.bandwidth + DATA_MODULUS - takes)
          /\ WithLimits(w, m, takes).data = Mod(w.data + DATA_MODULUS - takes)
      BY <3>1, WithLimitsIs
    <3> QED BY <2>9, <3>2
  <2>11. Narrowed(v, w, g, seconds)
    BY <2>3, <2>4, <2>6, <2>8, <2>10 DEF Narrowed
  <2> QED BY <1>2, <2>5, <2>11
<1> QED BY <1>1, <1>2

LEMMA LimitOneTypes ==
    ASSUME Typed, NEW w \in LimitRecord, NEW g \in Guests, NEW seconds \in SECONDS,
           NEW t \in Nat, t <= PEER_SEGMENT_THROTTLE_SCALE
    PROVE  LimitOne(w, g, t, seconds) \in LimitRecord
  BY LimitOneIs DEF Narrowed

-----------------------------------------------------------------------------
(* The walks of a round, and the rounds.                                   *)

LEMMA LimitStarts ==
    ASSUME NEW w \in LimitRecord
    PROVE  LET v == [w EXCEPT !.again = FALSE]
           IN  /\ v \in LimitRecord /\ ~v.again /\ v.limits = w.limits
               /\ v.remaining = w.remaining /\ v.bandwidth = w.bandwidth /\ v.data = w.data
<1>1. PICK v : v = [w EXCEPT !.again = FALSE]
  OBVIOUS
<1>2. /\ v \in LimitRecord /\ v.again = FALSE /\ v.limits = w.limits
      /\ v.remaining = w.remaining /\ v.bandwidth = w.bandwidth /\ v.data = w.data
  BY <1>1 DEF LimitRecord
<1> QED BY <1>1, <1>2

LEMMA LimitWalkExists ==
    ASSUME Typed, NEW w \in LimitRecord, NEW seconds \in SECONDS,
           NEW t \in Nat, t <= PEER_SEGMENT_THROTTLE_SCALE
    PROVE  \E f : f = [n \in 0..Len(Slots) |->
                          IF n = 0 THEN w ELSE LimitOne(f[n - 1], Slots[n], t, seconds)]
<1>1. PICK N \in Nat : N = Len(Slots) /\ \A i \in 1..N : Slots[i] \in Guests
  BY SlotsLemma
<1>2. PICK step : step = [x \in LimitRecord \X (1..N) |-> LimitOne(x[1], Slots[x[2]], t, seconds)]
  OBVIOUS
<1>3. step \in Steps(LimitRecord, N)
  BY <1>1, <1>2, LimitOneTypes DEF Steps
<1>4. PICK f : Recursion(f, N, LimitRecord, w, step)
  BY <1>3, RecursionExists
<1>5. f \in [0..N -> LimitRecord] /\ f[0] = w /\ \A i \in 1..N : f[i] = step[<<f[i - 1], i>>]
  BY <1>4 DEF Recursion
<1>6. ASSUME NEW i \in 1..N PROVE f[i] = LimitOne(f[i - 1], Slots[i], t, seconds)
  <2>1. f[i - 1] \in LimitRecord
    BY <1>5
  <2> QED BY <1>2, <1>5, <2>1
<1>7. f = [n \in 0..N |-> IF n = 0 THEN w ELSE LimitOne(f[n - 1], Slots[n], t, seconds)]
  <2>1. \A n \in 0..N : n # 0 => n \in 1..N
    OBVIOUS
  <2>2. \A n \in 0..N : f[n] = IF n = 0 THEN w ELSE LimitOne(f[n - 1], Slots[n], t, seconds)
    BY <1>5, <1>6, <2>1
  <2> QED BY <1>5, <2>2
<1> QED BY <1>1, <1>7

LEMMA LimitWalkIs ==
    ASSUME Typed, NEW w \in LimitRecord, NEW seconds \in SECONDS,
           NEW t \in Nat, t <= PEER_SEGMENT_THROTTLE_SCALE
    PROVE  LET f == LimitWalk(w, t, seconds)
           IN  f = [n \in 0..Len(Slots) |->
                       IF n = 0 THEN w ELSE LimitOne(f[n - 1], Slots[n], t, seconds)]
  BY LimitWalkExists DEF LimitWalk

LEMMA LimitWalkTypes ==
    ASSUME Typed, NEW w \in LimitRecord, NEW seconds \in SECONDS,
           NEW t \in Nat, t <= PEER_SEGMENT_THROTTLE_SCALE
    PROVE  LimitWalk(w, t, seconds)[Len(Slots)] \in LimitRecord
<1>1. PICK N \in Nat : N = Len(Slots) /\ \A i \in 1..N : Slots[i] \in Guests
  BY SlotsLemma
<1>2. PICK f : f = LimitWalk(w, t, seconds)
  OBVIOUS
<1>3. f = [n \in 0..N |-> IF n = 0 THEN w ELSE LimitOne(f[n - 1], Slots[n], t, seconds)]
  <2>1. LET h == LimitWalk(w, t, seconds)
        IN  h = [n \in 0..Len(Slots) |->
                    IF n = 0 THEN w ELSE LimitOne(h[n - 1], Slots[n], t, seconds)]
    BY LimitWalkIs
  <2> QED BY <1>1, <1>2, <2>1
<1>4. f[0] \in LimitRecord
  BY <1>1, <1>3
<1>5. ASSUME NEW i \in 1..N, f[i - 1] \in LimitRecord PROVE f[i] \in LimitRecord
  <2>1. f[i] = LimitOne(f[i - 1], Slots[i], t, seconds)
    BY <1>3
  <2> QED BY <1>1, <1>5, <2>1, LimitOneTypes
<1>6. \A i \in 0..N : f[i] \in LimitRecord
  BY <1>1, <1>4, <1>5, BoundedInduction
<1> QED BY <1>1, <1>2, <1>6

LEMMA LimitPeersTypes ==
    ASSUME Typed, NEW w \in LimitRecord, NEW seconds \in SECONDS
    PROVE  LimitPeers(w, seconds) \in LimitRecord
<1>1. CASE Continues(w)
  <2>1. PICK t \in Nat : t = ThrottleFor(w) /\ t <= PEER_SEGMENT_THROTTLE_SCALE
    BY ThrottleForIs
  <2>2. PICK v \in LimitRecord : v = [w EXCEPT !.again = FALSE]
    BY LimitStarts
  <2>3. LimitWalk(v, t, seconds)[Len(Slots)] \in LimitRecord
    BY <2>1, LimitWalkTypes
  <2> QED BY <1>1, <2>1, <2>2, <2>3 DEF LimitPeers
<1>2. CASE ~Continues(w)
  BY <1>2 DEF LimitPeers
<1> QED BY <1>1, <1>2

LEMMA StartOfWalkTypes ==
    ASSUME Typed, Counting, NEW seconds \in SECONDS
    PROVE  StartOfWalk(seconds) \in LimitRecord
<1>1. PICK top \in Word : top = DATA_MODULUS - 1
  <2>1. DATA_MODULUS - 1 \in Nat /\ DATA_MODULUS - 1 < DATA_MODULUS
    BY WordLemma
  <2> QED BY <2>1, WordLemma
<1>2. PICK b \in Word : b = Mod(HOST_OUTGOING * seconds)
  <2>1. HOST_OUTGOING \in Nat /\ seconds \in Nat
    BY WordLemma, ThrottleAssumption
  <2>2. HOST_OUTGOING * seconds \in Int
    BY <2>1
  <2> QED BY <2>2, WordLemma
<1>3. PICK d \in Word : d = Mod(SumFunctionOnSet(total, Connected))
  <2>1. Connected \in SUBSET Guests
    BY DEF Connected
  <2>2. SumFunctionOnSet(total, Connected) \in Int
    BY <2>1, TotalLemma, SumIsInt
  <2> QED BY <2>2, WordLemma
<1>4. PICK r \in Int : r = connected_peers
  BY CountsAreNumbers DEF Counting, PeersCounted, Connected
<1>5. PICK B \in Word, D \in Word :
         /\ B = IF HOST_OUTGOING = 0 THEN top ELSE b
         /\ D = IF HOST_OUTGOING = 0 THEN top ELSE d
  OBVIOUS
<1>6. PICK l \in Limitations : l = <<>>
  BY NoLimitation
<1>7. StartOfWalk(seconds) =
         [limits |-> l, again |-> bandwidth_limited_peers > 0, remaining |-> r,
          bandwidth |-> B, data |-> D]
  BY <1>1, <1>2, <1>3, <1>4, <1>5, <1>6 DEF StartOfWalk, Connected
<1> QED BY <1>7 DEF LimitRecord

LEMMA LimitRoundsExist ==
    ASSUME Typed, Counting, NEW seconds \in SECONDS
    PROVE  \E f : f = [n \in 0..(Len(Slots) + 1) |->
                          IF n = 0 THEN StartOfWalk(seconds) ELSE LimitPeers(f[n - 1], seconds)]
<1>1. PICK N \in Nat : N = Len(Slots) + 1
  BY SlotsLemma
<1>2. PICK a \in LimitRecord : a = StartOfWalk(seconds)
  BY StartOfWalkTypes
<1>3. PICK step : step = [x \in LimitRecord \X (1..N) |-> LimitPeers(x[1], seconds)]
  OBVIOUS
<1>4. step \in Steps(LimitRecord, N)
  BY <1>1, <1>3, LimitPeersTypes DEF Steps
<1>5. PICK f : Recursion(f, N, LimitRecord, a, step)
  BY <1>4, RecursionExists
<1>6. f \in [0..N -> LimitRecord] /\ f[0] = a /\ \A i \in 1..N : f[i] = step[<<f[i - 1], i>>]
  BY <1>5 DEF Recursion
<1>7. ASSUME NEW i \in 1..N PROVE f[i] = LimitPeers(f[i - 1], seconds)
  <2>1. f[i - 1] \in LimitRecord
    BY <1>6
  <2> QED BY <1>3, <1>6, <2>1
<1>8. f = [n \in 0..N |-> IF n = 0 THEN a ELSE LimitPeers(f[n - 1], seconds)]
  <2>1. \A n \in 0..N : n # 0 => n \in 1..N
    OBVIOUS
  <2>2. \A n \in 0..N : f[n] = IF n = 0 THEN a ELSE LimitPeers(f[n - 1], seconds)
    BY <1>6, <1>7, <2>1
  <2> QED BY <1>6, <2>2
<1> QED BY <1>1, <1>2, <1>8

LEMMA LimitRoundsAre ==
    ASSUME Typed, Counting, NEW seconds \in SECONDS
    PROVE  LET f == LimitRounds(seconds)
           IN  f = [n \in 0..(Len(Slots) + 1) |->
                       IF n = 0 THEN StartOfWalk(seconds) ELSE LimitPeers(f[n - 1], seconds)]
  BY LimitRoundsExist DEF LimitRounds

LEMMA EndOfWalkTypes ==
    ASSUME Typed, Counting, NEW seconds \in SECONDS
    PROVE  EndOfWalk(seconds) \in LimitRecord
<1>1. PICK N \in Nat : N = Len(Slots) + 1
  BY SlotsLemma
<1>2. PICK f : f = LimitRounds(seconds)
  OBVIOUS
<1>3. f = [n \in 0..N |-> IF n = 0 THEN StartOfWalk(seconds) ELSE LimitPeers(f[n - 1], seconds)]
  <2>1. LET h == LimitRounds(seconds)
        IN  h = [n \in 0..(Len(Slots) + 1) |->
                    IF n = 0 THEN StartOfWalk(seconds) ELSE LimitPeers(h[n - 1], seconds)]
    BY LimitRoundsAre
  <2> QED BY <1>1, <1>2, <2>1
<1>4. f[0] \in LimitRecord
  BY <1>1, <1>3, StartOfWalkTypes
<1>5. ASSUME NEW i \in 1..N, f[i - 1] \in LimitRecord PROVE f[i] \in LimitRecord
  <2>1. f[i] = LimitPeers(f[i - 1], seconds)
    BY <1>3
  <2> QED BY <1>1, <1>5, <2>1, LimitPeersTypes
<1>6. \A i \in 0..N : f[i] \in LimitRecord
  BY <1>1, <1>4, <1>5, BoundedInduction
<1> QED BY <1>1, <1>2, <1>6 DEF EndOfWalk

\* The limits of the guests are words, and the throttle is below its limit.
LEMMA LimitsTypes ==
    ASSUME Typed, Counting, NEW seconds \in SECONDS
    PROVE  LET limits == Limits(EndOfWalk(seconds))
           IN  DOMAIN limits = Connected /\ \A g \in Connected : limits[g] \in Word
<1>1. PICK w \in LimitRecord : w = EndOfWalk(seconds)
  BY EndOfWalkTypes
<1>2. PICK t \in Word : t = ThrottleFor(w)
  BY ThrottleForIs
<1>3. PICK l \in Limitations : l = w.limits
  BY LimitFields
<1>4. \A g \in DOMAIN l : l[g] \in Word
  BY LimitationsLemma
<1>5. Limits(w) = [g \in Connected |-> IF g \in DOMAIN l THEN l[g] ELSE t]
  BY <1>2, <1>3 DEF Limits, Connected
<1> QED BY <1>1, <1>4, <1>5

-----------------------------------------------------------------------------
(* The shares fit.                                                         *)

\* The guests whose shares are added up.
Heard == {g \in Guests : IsConnected(g) /\ told[g] # NotTold /\ net[g].outgoing # 0}

HeardFit ==
    HOST_INCOMING # 0 =>
        /\ SumFunctionOnSet(told, Heard) <= HOST_INCOMING
        /\ \A g \in Heard : told[g] <= net[g].outgoing

\* The inductive invariant.
Fair == Counting /\ Typed /\ Silent /\ HeardFit

LEMMA FairFits == Fair => SharesFit
BY DEF Fair, HeardFit, Heard, SharesFit

LEMMA HeardLemma ==
    ASSUME Typed
    PROVE  Heard \in SUBSET Guests /\ IsFiniteSet(Heard) /\ \A g \in Heard : told[g] \in Nat
<1>1. Heard \in SUBSET Guests
  BY DEF Heard
<1>2. \A g \in Heard : told[g] \in Nat
  BY DEF Heard, Typed, NotTold
<1> QED BY <1>1, <1>2, SendsLemma

\* Where nobody is told anything new and no more guests have heard, the shares
\* still fit.
LEMMA FewerFit ==
    ASSUME Typed, HeardFit,
           \A g \in Heard' : /\ g \in Heard /\ told'[g] = told[g]
                             /\ net'[g].outgoing = net[g].outgoing
    PROVE  HeardFit'
<1> SUFFICES ASSUME HOST_INCOMING # 0
             PROVE  /\ SumFunctionOnSet(told', Heard') <= HOST_INCOMING
                    /\ \A g \in Heard' : told'[g] <= net'[g].outgoing
  BY DEF HeardFit
<1>1. PICK B : B = Heard
  OBVIOUS
<1>2. PICK C \in SUBSET B : C = Heard'
  BY <1>1
<1>3. IsFiniteSet(B) /\ \A g \in B : told[g] \in Nat
  BY <1>1, HeardLemma
<1>4. /\ SumFunctionOnSet(told, B) \in Nat /\ SumFunctionOnSet(told, C) \in Nat
      /\ SumFunctionOnSet(told, C) <= SumFunctionOnSet(told, B)
  BY <1>3, SumOfFewer
<1>5. IsFiniteSet(C) /\ Numeric(told, C)
  BY <1>3, FS_Subset DEF Numeric
<1>6. \A g \in C : told[g] = told'[g]
  BY <1>2
<1>7. SumFunctionOnSet(told, C) = SumFunctionOnSet(told', C)
  <2>1. PICK h : h = told'
    OBVIOUS
  <2>2. \A g \in C : told[g] = h[g]
    BY <1>6, <2>1
  <2> QED BY <1>5, <2>1, <2>2, SumSame
<1>8. SumFunctionOnSet(told, B) <= HOST_INCOMING
  BY <1>1 DEF HeardFit
<1>9. SumFunctionOnSet(told', C) <= HOST_INCOMING
  BY <1>4, <1>7, <1>8, WordLemma
<1>10. \A g \in Heard' : told'[g] <= net'[g].outgoing
  BY DEF HeardFit
<1> QED BY <1>2, <1>9, <1>10

-----------------------------------------------------------------------------
LEMMA InitFair == Init => Fair
<1> SUFFICES ASSUME Init PROVE Fair
  OBVIOUS
<1>1. Typed
  <2>1. InitialNet \in Net
    BY NewNetTypes
  <2>2. 0 \in Word
    BY WordLemma
  <2> QED BY <2>1, <2>2 DEF Init, Typed, States
<1>2. Silent
  BY DEF Init, Silent
<1>3. Heard = {}
  BY DEF Heard, Init, IsConnected
<1>4. HeardFit
  BY <1>3, SumEmpty, WordLemma DEF HeardFit
<1> QED BY <1>1, <1>2, <1>4, InitCounts DEF Fair

LEMMA ConnectsFair ==
    ASSUME Fair, NEW g \in Guests, NEW incoming \in GUEST_INCOMING,
           NEW outgoing \in GUEST_OUTGOING, Connects(g, incoming, outgoing)
    PROVE  Typed' /\ Silent' /\ HeardFit'
<1>1. incoming \in Word /\ outgoing \in Word
  BY ThrottleAssumption
<1>2. PICK here \in Net :
         here = SetupConnectedPeer(Connect(Setup(InitialNet), incoming, outgoing),
                                   HOST_INCOMING, HOST_OUTGOING)
  BY <1>1, NewNetTypes
<1>3. /\ state[g] = "DISCONNECTED" /\ state' = [state EXCEPT ![g] = "CONNECTED"]
      /\ net' = [net EXCEPT ![g] = here]
      /\ total' = total /\ told' = told
  BY <1>2 DEF Connects
<1>4. Typed'
  BY <1>3 DEF Fair, Typed, States
<1>5. Silent'
  BY <1>3 DEF Fair, Typed, Silent
<1>6. told[g] = NotTold
  BY <1>3 DEF Fair, Silent
<1>7. \A h \in Heard' : /\ h \in Heard /\ told'[h] = told[h]
                        /\ net'[h].outgoing = net[h].outgoing
  <2> SUFFICES ASSUME NEW h \in Heard'
               PROVE  h \in Heard /\ told'[h] = told[h] /\ net'[h].outgoing = net[h].outgoing
    OBVIOUS
  <2>1. h \in Guests /\ told'[h] # NotTold /\ IsConnected(h)' /\ net'[h].outgoing # 0
    BY DEF Heard, Guests
  <2>2. h # g
    BY <1>3, <1>6, <2>1
  <2>3. state'[h] = state[h] /\ net'[h] = net[h] /\ told'[h] = told[h]
    BY <1>3, <2>1, <2>2 DEF Fair, Typed
  <2> QED BY <2>1, <2>3 DEF Heard, IsConnected
<1> QED BY <1>4, <1>5, <1>7, FewerFit DEF Fair

LEMMA LeavesFair ==
    ASSUME Fair, NEW g \in Guests, NEW next \in {"DISCONNECTING", "ZOMBIE"}, Leaves(g, next)
    PROVE  Typed' /\ Silent' /\ HeardFit'
<1>1. /\ IsConnected(g) /\ state' = [state EXCEPT ![g] = next]
      /\ net' = net /\ total' = total /\ told' = told
  BY DEF Leaves
<1>2. Typed'
  BY <1>1 DEF Fair, Typed, States
<1>3. Silent'
  BY <1>1 DEF Fair, Typed, Silent
<1>4. \A h \in Heard' : /\ h \in Heard /\ told'[h] = told[h]
                        /\ net'[h].outgoing = net[h].outgoing
  BY <1>1 DEF Heard, IsConnected, Guests, Fair, Typed
<1> QED BY <1>2, <1>3, <1>4, FewerFit DEF Fair

LEMMA EndsFair ==
    ASSUME Fair, NEW g \in Guests, Ends(g)
    PROVE  Typed' /\ Silent' /\ HeardFit'
<1>1. InitialNet \in Net /\ 0 \in Word
  BY NewNetTypes, WordLemma
<1>2. /\ state' = [state EXCEPT ![g] = "DISCONNECTED"]
      /\ net' = [net EXCEPT ![g] = InitialNet]
      /\ total' = [total EXCEPT ![g] = 0]
      /\ told' = [told EXCEPT ![g] = NotTold]
  BY DEF Ends, Reset
<1>3. Typed'
  BY <1>1, <1>2 DEF Fair, Typed, States
<1>4. Silent'
  BY <1>2 DEF Fair, Typed, Silent
<1>5. \A h \in Heard' : /\ h \in Heard /\ told'[h] = told[h]
                        /\ net'[h].outgoing = net[h].outgoing
  <2> SUFFICES ASSUME NEW h \in Heard'
               PROVE  h \in Heard /\ told'[h] = told[h] /\ net'[h].outgoing = net[h].outgoing
    OBVIOUS
  <2>1. h \in Guests /\ told'[h] # NotTold /\ IsConnected(h)' /\ net'[h].outgoing # 0
    BY DEF Heard, Guests
  <2>2. h # g
    BY <1>2, <2>1 DEF Fair, Typed
  <2>3. state'[h] = state[h] /\ net'[h] = net[h] /\ told'[h] = told[h]
    BY <1>2, <2>1, <2>2 DEF Fair, Typed
  <2> QED BY <2>1, <2>3 DEF Heard, IsConnected
<1> QED BY <1>3, <1>4, <1>5, FewerFit DEF Fair

LEMMA DisconnectLaterFair ==
    ASSUME Fair, NEW g \in Guests, DisconnectLater(g)
    PROVE  Typed' /\ Silent' /\ HeardFit'
<1>1. /\ state[g] = "CONNECTED" /\ state' = [state EXCEPT ![g] = "DISCONNECT_LATER"]
      /\ net' = net /\ total' = total /\ told' = told
  BY DEF DisconnectLater
<1>2. Typed'
  BY <1>1 DEF Fair, Typed, States
<1>3. Silent'
  BY <1>1 DEF Fair, Typed, Silent
<1>4. \A h \in Heard' : /\ h \in Heard /\ told'[h] = told[h]
                        /\ net'[h].outgoing = net[h].outgoing
  BY <1>1 DEF Heard, IsConnected, Guests, Fair, Typed
<1> QED BY <1>2, <1>3, <1>4, FewerFit DEF Fair

LEMMA QueueFair ==
    ASSUME Fair, NEW g \in Guests, NEW size \in SIZES, Queue(g, size)
    PROVE  Typed' /\ Silent' /\ HeardFit'
<1>1. PICK n \in Nat : n = total[g] + size
  <2>1. size \in Word
    BY ThrottleAssumption
  <2> QED BY <2>1, TotalLemma, WordLemma DEF Fair
<1>2. Mod(n) \in Word
  BY WordLemma
<1>3. /\ total' = [total EXCEPT ![g] = Mod(n)]
      /\ state' = state /\ net' = net /\ told' = told
  BY <1>1 DEF Queue, Fair, Typed
<1>4. Typed'
  BY <1>2, <1>3 DEF Fair, Typed, States
<1>5. Silent'
  BY <1>3 DEF Fair, Silent
<1>6. \A h \in Heard' : /\ h \in Heard /\ told'[h] = told[h]
                        /\ net'[h].outgoing = net[h].outgoing
  BY <1>3 DEF Heard, IsConnected, Guests
<1> QED BY <1>4, <1>5, <1>6, FewerFit DEF Fair

LEMMA AcknowledgedFair ==
    ASSUME Fair, NEW g \in Guests, NEW sample \in SAMPLES, Acknowledged(g, sample)
    PROVE  Typed' /\ Silent' /\ HeardFit'
<1>1. sample \in Word
  BY ThrottleAssumption
<1>2. net[g] \in Net
  BY DEF Fair, Typed
<1>3. PICK n \in Net : n = [net[g] EXCEPT !.throttle = sample] /\ n.outgoing = net[g].outgoing
  <2>1. PICK now \in Net : now = net[g]
    BY <1>2
  <2>2. PICK n : n = [now EXCEPT !.throttle = sample]
    OBVIOUS
  <2>3. n \in Net /\ n.outgoing = now.outgoing
    BY <1>1, <2>2, NetFields
  <2> QED BY <2>1, <2>2, <2>3
<1>4. /\ net' = [net EXCEPT ![g] = n]
      /\ state' = state /\ total' = total /\ told' = told
  BY <1>3 DEF Acknowledged, Fair, Typed
<1>5. Typed'
  BY <1>4 DEF Fair, Typed, States
<1>6. Silent'
  BY <1>4 DEF Fair, Silent
<1>7. \A h \in Guests : net'[h].outgoing = net[h].outgoing
  BY <1>3, <1>4 DEF Fair, Typed
<1>8. \A h \in Heard' : /\ h \in Heard /\ told'[h] = told[h]
                        /\ net'[h].outgoing = net[h].outgoing
  BY <1>4, <1>7 DEF Heard, IsConnected, Guests
<1> QED BY <1>5, <1>6, <1>8, FewerFit DEF Fair

LEMMA EndOfSharesTypes ==
    ASSUME Typed, Counting, connected_peers > 0
    PROVE  EndOfShares \in ShareRecord /\ EndOfShares.own \in SUBSET Guests
           /\ EndOfShares.limit \in Nat
<1>1. EndOfShares \in ShareRecord
  <2>1. CASE HOST_INCOMING = 0
    BY <2>1, StartOfSharesIs DEF EndOfShares, Shared
  <2>2. CASE HOST_INCOMING # 0
    BY <2>2, EndOfSharesIs DEF Shared
  <2> QED BY <2>1, <2>2
<1> QED BY <1>1 DEF ShareRecord

\* What each guest is told.
LEMMA SharesAre ==
    ASSUME Typed, Counting, connected_peers > 0
    PROVE  /\ Shares \in [Guests -> Nat \cup {NotTold}]
           /\ \A g \in Guests \ Connected : Shares[g] = told[g]
           /\ \A g \in Connected \cap EndOfShares.own : Shares[g] = Sends[g]
           /\ \A g \in Connected \ EndOfShares.own : Shares[g] = EndOfShares.limit
<1>1. PICK l \in Nat, own \in SUBSET Guests : l = EndOfShares.limit /\ own = EndOfShares.own
  BY EndOfSharesTypes
<1>2. PICK s : s = Shares
  OBVIOUS
<1>3. s = [g \in Guests |->
              CASE ~IsConnected(g) -> told[g]
                [] IsConnected(g) /\ g \in own -> net[g].outgoing
                [] OTHER -> l]
  BY <1>1, <1>2 DEF Shares
<1>4. \A g \in Guests \ Connected : s[g] = told[g]
  BY <1>3 DEF Connected
<1>5. \A g \in Connected \cap own : s[g] = Sends[g]
  <2> SUFFICES ASSUME NEW g \in Connected \cap own PROVE s[g] = Sends[g]
    OBVIOUS
  <2>1. g \in Guests /\ IsConnected(g)
    BY DEF Connected
  <2> QED BY <1>3, <2>1, SendsLemma
<1>6. \A g \in Connected \ own : s[g] = l
  BY <1>3 DEF Connected
<1>7. s \in [Guests -> Nat \cup {NotTold}]
  <2>1. ASSUME NEW g \in Guests PROVE s[g] \in Nat \cup {NotTold}
    <3>1. CASE g \notin Connected
      BY <1>4, <3>1 DEF Typed
    <3>2. CASE g \in Connected \cap own
      BY <1>5, <3>2, SendsLemma
    <3>3. CASE g \in Connected \ own
      BY <1>6, <3>3
    <3> QED BY <3>1, <3>2, <3>3
  <2> QED BY <1>3, <2>1
<1> QED BY <1>1, <1>2, <1>4, <1>5, <1>6, <1>7

\* The shares together are what the host takes in at the most.
LEMMA SharesAddUp ==
    ASSUME Typed, Counting, connected_peers > 0, HOST_INCOMING # 0
    PROVE  /\ SumFunctionOnSet(Shares, Connected) <= HOST_INCOMING
           /\ \A g \in Connected : Shares[g] \in Nat /\ Shares[g] <= Sends[g]
<1>1. PICK e : e = EndOfShares
  OBVIOUS
<1>2. Shared(e) /\ Settled(e)
  BY <1>1, EndOfSharesIs
<1>3. PICK l \in Nat, own \in SUBSET Guests : l = e.limit /\ own = e.own
  BY <1>1, EndOfSharesTypes
<1>4. PICK s : s = Shares
  OBVIOUS
<1>5. PICK C \in SUBSET Guests : C = Connected
  BY DEF Connected
<1>6. own \in SUBSET C
  BY <1>2, <1>3, <1>5 DEF Shared
<1>7. (\A g \in own : s[g] = Sends[g]) /\ (\A g \in C \ own : s[g] = l)
  BY <1>1, <1>3, <1>4, <1>5, <1>6, SharesAre
<1>8. \A g \in C : s[g] \in Nat /\ s[g] <= Sends[g]
  <2> SUFFICES ASSUME NEW g \in C PROVE s[g] \in Nat /\ s[g] <= Sends[g]
    OBVIOUS
  <2>1. Sends[g] \in Nat
    BY SendsLemma
  <2>2. CASE g \in own
    BY <1>7, <2>1, <2>2
  <2>3. CASE g \notin own
    <3>1. Sends[g] >= l
      BY <1>2, <1>3, <1>5, <2>3 DEF Settled
    <3> QED BY <1>7, <2>1, <2>3, <3>1
  <2> QED BY <2>2, <2>3
<1>9. IsFiniteSet(C) /\ Numeric(s, C) /\ IsFiniteSet(own) /\ Numeric(Sends, own)
      /\ IsFiniteSet(C \ own) /\ Cardinality(C \ own) \in Nat
  <2>1. C \ own \in SUBSET Guests
    OBVIOUS
  <2> QED BY <1>8, <2>1, SendsLemma DEF Numeric
<1>10. SumFunctionOnSet(s, C) = SumFunctionOnSet(s, own) + SumFunctionOnSet(s, C \ own)
  BY <1>6, <1>9, SumSplits
<1>11. SumFunctionOnSet(s, own) = SumFunctionOnSet(Sends, own)
  <2>1. \A g \in own : Sends[g] = s[g]
    BY <1>7
  <2> QED BY <1>9, <2>1, SumSame
<1>12. SumFunctionOnSet(s, C \ own) = l * Cardinality(C \ own)
  BY <1>3, <1>7, <1>9, SumOfEquals
<1>13. PICK b \in Nat : b = e.bandwidth /\ l * Cardinality(C \ own) <= b
  BY <1>2, <1>3, <1>5, ShareFields DEF Shared, Settled, Suffices
<1>14. b + SumFunctionOnSet(Sends, own) = HOST_INCOMING
  BY <1>2, <1>3, <1>13 DEF Shared
<1>15. PICK x \in Int, y \in Int :
          x = SumFunctionOnSet(Sends, own) /\ y = l * Cardinality(C \ own)
  BY <1>9, SumIsInt
<1>16. SumFunctionOnSet(s, C) <= HOST_INCOMING
  BY <1>10, <1>11, <1>12, <1>13, <1>14, <1>15
<1> QED BY <1>4, <1>5, <1>8, <1>16

LEMMA ThrottleFair ==
    ASSUME Fair, NEW seconds \in SECONDS, Throttle(seconds)
    PROVE  Typed' /\ Silent' /\ HeardFit'
<1>1. Typed /\ Counting /\ Silent /\ HeardFit
  BY DEF Fair
<1>2. PICK limits : limits = Limits(EndOfWalk(seconds))
  OBVIOUS
<1>3. DOMAIN limits = Connected /\ \A g \in Connected : limits[g] \in Word
  BY <1>1, <1>2, LimitsTypes
<1>4. /\ connected_peers > 0
      /\ net' = [g \in Guests |->
                   IF g \in DOMAIN limits THEN Limited(net[g], limits[g]) ELSE net[g]]
      /\ told' = IF recalculate THEN Shares ELSE told
      /\ total' = [g \in Guests |-> IF recalculate /\ IsConnected(g)
                                     THEN Mod(total[g] + LIMIT_SIZE) ELSE total[g]]
      /\ state' = state
  BY <1>2 DEF Throttle
<1>5. \A g \in Guests : net'[g] \in Net /\ net'[g].outgoing = net[g].outgoing
  <2> SUFFICES ASSUME NEW g \in Guests PROVE net'[g] \in Net /\ net'[g].outgoing = net[g].outgoing
    OBVIOUS
  <2>1. net[g] \in Net
    BY <1>1 DEF Typed
  <2>2. CASE g \in Connected
    <3>1. net'[g] = Limited(net[g], limits[g]) /\ limits[g] \in Word
      BY <1>3, <1>4, <2>2
    <3>2. PICK n \in Net, x \in Word : n = net[g] /\ x = limits[g]
      BY <2>1, <3>1
    <3>3. Limited(n, x) \in Net /\ Limited(n, x).outgoing = n.outgoing
      BY <3>2, NetFields
    <3> QED BY <3>1, <3>2, <3>3
  <2>3. CASE g \notin Connected
    <3>1. net'[g] = net[g]
      BY <1>3, <1>4, <2>3
    <3> QED BY <2>1, <3>1
  <2> QED BY <2>2, <2>3
<1>6. \A g \in Guests : total'[g] \in Word
  <2> SUFFICES ASSUME NEW g \in Guests PROVE total'[g] \in Word
    OBVIOUS
  <2>1. total[g] \in Word /\ Mod(total[g] + LIMIT_SIZE) \in Word
    <3>1. total[g] + LIMIT_SIZE \in Int
      BY <1>1, TotalLemma, WordLemma
    <3> QED BY <1>1, <3>1, TotalLemma, WordLemma
  <2>2. total'[g] = IF recalculate /\ IsConnected(g) THEN Mod(total[g] + LIMIT_SIZE) ELSE total[g]
    BY <1>4
  <2> QED BY <2>1, <2>2
<1>7. told' \in [Guests -> Nat \cup {NotTold}]
  BY <1>1, <1>4, SharesAre DEF Typed
<1>8. Typed'
  <2>1. net' \in [Guests -> Net] /\ total' \in [Guests -> Word]
    BY <1>4, <1>5, <1>6
  <2> QED BY <1>1, <1>4, <1>7, <2>1 DEF Typed
<1>9. Silent'
  <2> SUFFICES ASSUME NEW g \in Guests, state[g] = "DISCONNECTED" PROVE told'[g] = NotTold
    BY <1>4 DEF Silent, Guests
  <2>1. g \notin Connected /\ told[g] = NotTold
    BY <1>1 DEF Silent, Connected, IsConnected
  <2> QED BY <1>1, <1>4, <2>1, SharesAre
<1>10. Connected' = Connected
  BY <1>4 DEF Connected, IsConnected, Guests
<1>11. CASE ~recalculate
  <2>1. told' = told
    BY <1>4, <1>11
  <2>2. \A h \in Heard' : /\ h \in Heard /\ told'[h] = told[h]
                          /\ net'[h].outgoing = net[h].outgoing
    BY <1>4, <1>5, <2>1 DEF Heard, IsConnected, Guests
  <2> QED BY <1>1, <1>8, <1>9, <2>2, FewerFit
<1>12. CASE recalculate
  <2>1. PICK s : s = Shares
    OBVIOUS
  <2>2. told' = s
    BY <1>4, <1>12, <2>1
  <2> SUFFICES ASSUME HOST_INCOMING # 0
               PROVE  /\ SumFunctionOnSet(told', Heard') <= HOST_INCOMING
                      /\ \A g \in Heard' : told'[g] <= net'[g].outgoing
    BY <1>8, <1>9 DEF HeardFit
  <2>3. PICK C \in SUBSET Guests : C = Connected
    BY DEF Connected
  <2>4. /\ SumFunctionOnSet(s, C) <= HOST_INCOMING
        /\ \A g \in C : s[g] \in Nat /\ s[g] <= Sends[g]
    BY <1>1, <1>4, <2>1, <2>3, SharesAddUp
  <2>5. PICK H \in SUBSET C : H = Heard'
    <3>1. Heard' \subseteq Connected'
      BY DEF Heard, Connected, Guests
    <3> QED BY <1>10, <2>3, <3>1
  <2>6. IsFiniteSet(C)
    BY <1>1, SendsLemma
  <2>7. /\ SumFunctionOnSet(s, C) \in Nat /\ SumFunctionOnSet(s, H) \in Nat
        /\ SumFunctionOnSet(s, H) <= SumFunctionOnSet(s, C)
    BY <2>4, <2>6, SumOfFewer
  <2>8. SumFunctionOnSet(s, H) <= HOST_INCOMING
    BY <2>4, <2>7, WordLemma
  <2>9. \A g \in H : s[g] <= net'[g].outgoing
    <3> SUFFICES ASSUME NEW g \in H PROVE s[g] <= net'[g].outgoing
      OBVIOUS
    <3>1. g \in Guests /\ s[g] <= Sends[g]
      BY <2>3, <2>4
    <3>2. Sends[g] = net[g].outgoing /\ net'[g].outgoing = net[g].outgoing
      BY <1>1, <1>5, <3>1, SendsLemma
    <3> QED BY <3>1, <3>2
  <2> QED BY <2>2, <2>5, <2>8, <2>9
<1> QED BY <1>11, <1>12

LEMMA IdleFair ==
    ASSUME Fair, UNCHANGED vars
    PROVE  Typed' /\ Silent' /\ HeardFit'
BY DEF Fair, Typed, Silent, HeardFit, Heard, IsConnected, vars, Guests

LEMMA NextFair == Fair /\ [Next]_vars => Fair'
<1> SUFFICES ASSUME Fair, [Next]_vars PROVE Fair'
  OBVIOUS
<1>1. Counting'
  BY NextCounts DEF Fair
<1>2. Typed' /\ Silent' /\ HeardFit'
  <2>1. CASE \E g \in Guests, incoming \in GUEST_INCOMING, outgoing \in GUEST_OUTGOING :
                Connects(g, incoming, outgoing)
    BY <2>1, ConnectsFair
  <2>2. CASE \E g \in Guests : DisconnectedByHost(g) \/ DisconnectedByGuest(g)
    BY <2>2, LeavesFair DEF DisconnectedByHost, DisconnectedByGuest
  <2>3. CASE \E g \in Guests : Ends(g)
    BY <2>3, EndsFair
  <2>4. CASE \E g \in Guests : DisconnectLater(g)
    BY <2>4, DisconnectLaterFair
  <2>5. CASE \E g \in Guests, size \in SIZES : Queue(g, size)
    BY <2>5, QueueFair
  <2>6. CASE \E g \in Guests, sample \in SAMPLES : Acknowledged(g, sample)
    BY <2>6, AcknowledgedFair
  <2>7. CASE \E seconds \in SECONDS : Throttle(seconds)
    BY <2>7, ThrottleFair
  <2>8. CASE UNCHANGED vars
    BY <2>8, IdleFair
  <2> QED BY <2>1, <2>2, <2>3, <2>4, <2>5, <2>6, <2>7, <2>8 DEF Next
<1> QED BY <1>1, <1>2 DEF Fair

\* Taken together, the guests were told to send no more than the host takes
\* in, and each of them no more than it can send.
THEOREM SharesAlwaysFit == Spec => []SharesFit
<1>1. Init => Fair
  BY InitFair
<1>2. Fair /\ [Next]_vars => Fair'
  BY NextFair
<1>3. Fair => SharesFit
  BY FairFits
<1> QED BY <1>1, <1>2, <1>3, PTL DEF Spec

-----------------------------------------------------------------------------
(* What is left for the guests that are not limited.                       *)

Takes(seconds) == [g \in Guests |-> Mod(net[g].incoming * seconds)]

\* The guests that a walk has not limited.
Others(w) == Connected \ DOMAIN w.limits

\* What the limited guests can take is off the bandwidth and off the data,
\* and the data is still that of the others; a limited guest's share of its
\* data is what it can take.
Reduced(w, seconds) ==
    /\ w \in LimitRecord /\ DOMAIN w.limits \subseteq Connected
    /\ w.remaining = Cardinality(Others(w))
    /\ SumFunctionOnSet(total, Others(w)) <= w.data
    /\ w.bandwidth + SumFunctionOnSet(Takes(seconds), DOMAIN w.limits)
          = StartOfWalk(seconds).bandwidth
    /\ w.data + SumFunctionOnSet(Takes(seconds), DOMAIN w.limits) = StartOfWalk(seconds).data
    /\ \A g \in DOMAIN w.limits :
          w.limits[g] > 1 =>
             w.limits[g] * total[g] <= PEER_SEGMENT_THROTTLE_SCALE * Takes(seconds)[g]

\* At the throttle t the others get what is left of the bandwidth at the most.
InProportion(w, t) ==
    t * SumFunctionOnSet(total, Others(w)) <= PEER_SEGMENT_THROTTLE_SCALE * w.bandwidth

LEMMA TakesIs ==
    ASSUME Typed, NEW seconds \in SECONDS
    PROVE  /\ \A g \in Guests : /\ Takes(seconds)[g] = Mod(net[g].incoming * seconds)
                                /\ Takes(seconds)[g] \in Nat
                                /\ Takes(seconds)[g] <= net[g].incoming * seconds
           /\ \A B \in SUBSET Guests : Numeric(Takes(seconds), B)
<1>1. ASSUME NEW g \in Guests
      PROVE  /\ Takes(seconds)[g] = Mod(net[g].incoming * seconds)
             /\ Takes(seconds)[g] \in Nat
             /\ Takes(seconds)[g] <= net[g].incoming * seconds
  <2>1. Takes(seconds)[g] = Mod(net[g].incoming * seconds)
    BY DEF Takes
  <2> QED BY <2>1, TakesLemma
<1> QED BY <1>1 DEF Numeric

\* One guest of a round.
LEMMA LimitOneKeeps ==
    ASSUME Typed, NEW seconds \in SECONDS, NEW t \in Nat, t <= PEER_SEGMENT_THROTTLE_SCALE,
           NEW w, Reduced(w, seconds), InProportion(w, t), NEW g \in Guests,
           ~Passed(w, g, t, seconds)
    PROVE  LET v == LimitOne(w, g, t, seconds)
           IN  /\ Reduced(v, seconds) /\ InProportion(v, t) /\ v.again
               /\ v.remaining < w.remaining
<1>1. w \in LimitRecord
  BY DEF Reduced
<1>2. PICK v : v = LimitOne(w, g, t, seconds)
  OBVIOUS
<1>3. Narrowed(v, w, g, seconds)
  BY <1>1, <1>2, LimitOneIs
<1>4. g \in Connected /\ g \notin DOMAIN w.limits /\ Exceeds(t, g, seconds)
  BY DEF Passed, Connected
<1>5. PICK n \in Nat : n = Takes(seconds)[g] /\ n = Mod(net[g].incoming * seconds)
  BY TakesIs
<1>6. PICK a \in Nat : a = total[g]
  BY TotalLemma
<1>7. PICK s \in Nat : s = PEER_SEGMENT_THROTTLE_SCALE /\ s > 0
  BY WordLemma
<1>8. n <= a /\ s * n <= t * a
  <2>1. LET takes == Mod(net[g].incoming * seconds)
        IN  takes <= total[g] /\ PEER_SEGMENT_THROTTLE_SCALE * takes <= t * total[g]
    BY <1>4, ExceedsLemma
  <2> QED BY <1>5, <1>6, <1>7, <2>1
<1>9. PICK D \in SUBSET Connected, E \in SUBSET Connected :
         D = DOMAIN w.limits /\ E = DOMAIN v.limits /\ E = D \cup {g} /\ g \notin D
  BY <1>3, <1>4 DEF Narrowed, Reduced
<1>10. PICK R \in SUBSET Connected : R = Connected \ D
  OBVIOUS
<1>11. Others(w) = R /\ Others(v) = R \ {g} /\ g \in R
  BY <1>4, <1>9, <1>10 DEF Others
<1>12. /\ IsFiniteSet(R) /\ Numeric(total, R) /\ IsFiniteSet(D)
       /\ Numeric(Takes(seconds), D \cup {g}) /\ Numeric(Takes(seconds), D)
       /\ IsFiniteSet(R \ {g}) /\ \A h \in R : total[h] \in Nat
  <2>1. /\ R \in SUBSET Guests /\ D \in SUBSET Guests /\ D \cup {g} \in SUBSET Guests
        /\ R \ {g} \in SUBSET Guests
    BY DEF Connected
  <2> QED BY <2>1, TotalLemma, TakesIs
<1>13. PICK b \in Nat, d \in Nat : b = w.bandwidth /\ d = w.data /\ b \in Word /\ d \in Word
  BY <1>1, LimitFields
<1>14. PICK x \in Nat, y \in Nat :
          /\ x = SumFunctionOnSet(total, R) /\ y = SumFunctionOnSet(total, R \ {g})
          /\ x = a + y
  <2>1. SumFunctionOnSet(total, R) = total[g] + SumFunctionOnSet(total, R \ {g})
    BY <1>11, <1>12, SumTake
  <2>2. SumFunctionOnSet(total, R) \in Nat /\ SumFunctionOnSet(total, R \ {g}) \in Nat
    BY <1>12, SumOfFewer
  <2> QED BY <1>6, <2>1, <2>2
<1>15. PICK z \in Int :
          /\ z = SumFunctionOnSet(Takes(seconds), D)
          /\ SumFunctionOnSet(Takes(seconds), E) = z + n
  <2>1. SumFunctionOnSet(Takes(seconds), D \cup {g})
           = SumFunctionOnSet(Takes(seconds), D) + Takes(seconds)[g]
    BY <1>9, <1>12, SumPut
  <2> QED BY <1>5, <1>9, <1>12, <2>1, SumIsInt
<1>16. x <= d /\ t * x <= s * b
  BY <1>7, <1>11, <1>13, <1>14 DEF Reduced, InProportion
<1>17. t * x = t * a + t * y /\ t * a \in Nat /\ t * y \in Nat
  BY <1>14
<1>18. s * n + t * y <= s * b /\ s * n \in Nat
  BY <1>7, <1>8, <1>16, <1>17
<1>19. n <= b
  <2> SUFFICES ASSUME n > b PROVE FALSE
    OBVIOUS
  <2>1. s * n > s * b
    BY <1>7
  <2> QED BY <1>7, <1>17, <1>18, <2>1
<1>20. n <= d
  BY <1>8, <1>14, <1>16
<1>21. v.bandwidth = b - n /\ v.data = d - n
  <2>1. Mod(b + DATA_MODULUS - n) = b - n /\ Mod(d + DATA_MODULUS - n) = d - n
    BY <1>13, <1>19, <1>20, ModIs
  <2> QED BY <1>3, <1>5, <1>13, <2>1 DEF Narrowed
<1>22. s * (b - n) = s * b - s * n
  BY <1>7
<1>23. t * y <= s * (b - n)
  BY <1>7, <1>17, <1>18, <1>22
<1>24. y <= d - n
  BY <1>8, <1>14, <1>16
<1>25. PICK r \in Nat : w.remaining = r + 1 /\ v.remaining = r /\ r = Cardinality(R \ {g})
  <2>1. Cardinality(R) \in Nat /\ Cardinality(R \ {g}) \in Nat
        /\ Cardinality(R) = Cardinality(R \ {g}) + 1
    BY <1>11, <1>12, SmallerSet
  <2>2. w.remaining = Cardinality(R) /\ v.remaining = w.remaining - 1
    BY <1>3, <1>11 DEF Reduced, Narrowed
  <2> QED BY <2>1, <2>2
<1>26. \A h \in E : v.limits[h] > 1 =>
           v.limits[h] * total[h] <= PEER_SEGMENT_THROTTLE_SCALE * Takes(seconds)[h]
  <2> SUFFICES ASSUME NEW h \in E, v.limits[h] > 1
               PROVE  v.limits[h] * total[h] <= PEER_SEGMENT_THROTTLE_SCALE * Takes(seconds)[h]
    OBVIOUS
  <2>1. CASE h = g
    BY <1>3, <1>5, <2>1 DEF Narrowed
  <2>2. CASE h # g
    <3>1. h \in DOMAIN w.limits /\ v.limits[h] = w.limits[h]
      BY <1>3, <1>9, <2>2 DEF Narrowed
    <3> QED BY <3>1 DEF Reduced
  <2> QED BY <2>1, <2>2
<1>27. PICK B \in Int, A \in Int :
          /\ B = StartOfWalk(seconds).bandwidth /\ A = StartOfWalk(seconds).data
          /\ b + z = B /\ d + z = A
  BY <1>9, <1>13, <1>15 DEF Reduced
<1>28. (b - n) + (z + n) = B /\ (d - n) + (z + n) = A
  BY <1>13, <1>15, <1>27
<1>29. v \in LimitRecord /\ v.again
  BY <1>3 DEF Narrowed
<1>30. Reduced(v, seconds)
  <2>1. v.remaining = Cardinality(Others(v))
    BY <1>11, <1>25
  <2>2. SumFunctionOnSet(total, Others(v)) <= v.data
    BY <1>11, <1>14, <1>21, <1>24
  <2>3. /\ v.bandwidth + SumFunctionOnSet(Takes(seconds), DOMAIN v.limits)
              = StartOfWalk(seconds).bandwidth
        /\ v.data + SumFunctionOnSet(Takes(seconds), DOMAIN v.limits)
              = StartOfWalk(seconds).data
    BY <1>9, <1>15, <1>21, <1>27, <1>28
  <2> QED BY <1>9, <1>26, <1>29, <2>1, <2>2, <2>3 DEF Reduced
<1>31. InProportion(v, t)
  BY <1>7, <1>11, <1>14, <1>21, <1>23 DEF InProportion
<1>32. v.remaining < w.remaining
  BY <1>25
<1> QED BY <1>2, <1>29, <1>30, <1>31, <1>32

LEMMA ReducedInProportion ==
    ASSUME Typed, NEW seconds \in SECONDS, NEW w, Reduced(w, seconds)
    PROVE  InProportion(w, ThrottleFor(w))
<1>1. w \in LimitRecord
  BY DEF Reduced
<1>2. PICK b \in Nat, d \in Nat : b = w.bandwidth /\ d = w.data
  BY <1>1, LimitFields
<1>3. PICK s \in Nat : s = PEER_SEGMENT_THROTTLE_SCALE
  BY WordLemma
<1>4. PICK t \in Nat : /\ t = ThrottleFor(w)
                       /\ d <= b => t = s
                       /\ d > b => t * d <= s * b
  <2>1. LET u == ThrottleFor(w)
        IN  /\ u \in Word /\ u \in Nat /\ u <= PEER_SEGMENT_THROTTLE_SCALE
            /\ w.data <= w.bandwidth => u = PEER_SEGMENT_THROTTLE_SCALE
            /\ w.data > w.bandwidth => u * w.data <= PEER_SEGMENT_THROTTLE_SCALE * w.bandwidth
    BY <1>1, ThrottleForIs
  <2> QED BY <1>2, <1>3, <2>1
<1>5. PICK x \in Nat : x = SumFunctionOnSet(total, Others(w)) /\ x <= d
  <2>1. Others(w) \in SUBSET Guests
    BY DEF Others, Connected
  <2>2. IsFiniteSet(Others(w)) /\ \A h \in Others(w) : total[h] \in Nat
    BY <2>1, TotalLemma
  <2>3. SumFunctionOnSet(total, Others(w)) \in Nat
    BY <2>2, SumOfFewer
  <2> QED BY <1>2, <2>3 DEF Reduced
<1>6. t * x <= t * d
  BY <1>4, <1>5
<1>7. t * d <= s * b
  <2>1. CASE d <= b
    <3>1. s * d <= s * b
      BY <1>2, <1>3, <2>1
    <3> QED BY <1>4, <2>1, <3>1
  <2>2. CASE d > b
    BY <1>4, <2>2
  <2> QED BY <2>1, <2>2
<1>8. t * x <= s * b
  BY <1>2, <1>3, <1>4, <1>5, <1>6, <1>7
<1>9. t * SumFunctionOnSet(total, Others(w)) <= PEER_SEGMENT_THROTTLE_SCALE * w.bandwidth
  BY <1>2, <1>3, <1>5, <1>8
<1>10. t = ThrottleFor(w)
  BY <1>4
<1> QED BY <1>9, <1>10 DEF InProportion

\* A pass over the slots from w, after n of them.
PassOf(v, w, t, seconds, n) ==
    /\ Reduced(v, seconds) /\ InProportion(v, t)
    /\ v.again => v.remaining < w.remaining
    /\ ~v.again => v = w /\ \A i \in 1..n : Passed(w, Slots[i], t, seconds)

LEMMA LimitWalkKeeps ==
    ASSUME Typed, NEW seconds \in SECONDS, NEW t \in Nat, t <= PEER_SEGMENT_THROTTLE_SCALE,
           NEW w, Reduced(w, seconds), InProportion(w, t), ~w.again
    PROVE  PassOf(LimitWalk(w, t, seconds)[Len(Slots)], w, t, seconds, Len(Slots))
<1>1. PICK N \in Nat : N = Len(Slots) /\ \A i \in 1..N : Slots[i] \in Guests
  BY SlotsLemma
<1>2. PICK f : f = LimitWalk(w, t, seconds)
  OBVIOUS
<1>3. w \in LimitRecord
  BY DEF Reduced
<1>4. f = [n \in 0..N |-> IF n = 0 THEN w ELSE LimitOne(f[n - 1], Slots[n], t, seconds)]
  <2>1. LET h == LimitWalk(w, t, seconds)
        IN  h = [n \in 0..Len(Slots) |->
                    IF n = 0 THEN w ELSE LimitOne(h[n - 1], Slots[n], t, seconds)]
    BY <1>3, LimitWalkIs
  <2> QED BY <1>1, <1>2, <2>1
<1>5. PassOf(f[0], w, t, seconds, 0)
  <2>1. f[0] = w
    BY <1>1, <1>4
  <2>2. 1..0 = {}
    OBVIOUS
  <2> QED BY <2>1, <2>2 DEF PassOf
<1>6. ASSUME NEW n \in Nat, n + 1 \in 0..N, PassOf(f[n], w, t, seconds, n)
      PROVE  PassOf(f[n + 1], w, t, seconds, n + 1)
  <2>1. n + 1 \in 1..N /\ (n + 1) - 1 = n /\ n + 1 # 0
    BY <1>1, <1>6
  <2>2. PICK g \in Guests : g = Slots[n + 1]
    BY <1>1, <2>1
  <2>3. PICK v : v = f[n + 1]
    OBVIOUS
  <2>4. PICK u : u = f[n]
    OBVIOUS
  <2>5. v = LimitOne(u, g, t, seconds)
    BY <1>4, <1>6, <2>1, <2>2, <2>3, <2>4
  <2>6. PassOf(u, w, t, seconds, n)
    BY <1>6, <2>4
  <2>7. u \in LimitRecord /\ Reduced(u, seconds) /\ InProportion(u, t)
    BY <2>6 DEF PassOf, Reduced
  <2>8. CASE Passed(u, g, t, seconds)
    <3>1. v = u
      <4>1. LET x == LimitOne(u, g, t, seconds)
            IN  /\ Passed(u, g, t, seconds) => x = u
                /\ ~Passed(u, g, t, seconds) => Narrowed(x, u, g, seconds)
        BY <2>7, LimitOneIs
      <4> QED BY <2>5, <2>8, <4>1
    <3>2. ASSUME ~u.again, NEW i \in 1..(n + 1) PROVE Passed(w, Slots[i], t, seconds)
      <4>1. CASE i = n + 1
        <5>1. u = w
          BY <2>6, <3>2 DEF PassOf
        <5> QED BY <2>2, <2>8, <4>1, <5>1
      <4>2. CASE i # n + 1
        <5>1. i \in 1..n
          BY <4>2
        <5> QED BY <2>6, <3>2, <5>1 DEF PassOf
      <4> QED BY <4>1, <4>2
    <3>3. (u.again => u.remaining < w.remaining) /\ (~u.again => u = w)
      BY <2>6 DEF PassOf
    <3> QED BY <2>3, <2>7, <3>1, <3>2, <3>3 DEF PassOf
  <2>9. CASE ~Passed(u, g, t, seconds)
    <3>1. /\ Reduced(v, seconds) /\ InProportion(v, t) /\ v.again
          /\ v.remaining < u.remaining
      <4>1. LET x == LimitOne(u, g, t, seconds)
            IN  /\ Reduced(x, seconds) /\ InProportion(x, t) /\ x.again
                /\ x.remaining < u.remaining
        BY <2>7, <2>9, LimitOneKeeps
      <4> QED BY <2>5, <4>1
    <3>2. v.remaining < w.remaining
      <4>1. u.remaining < w.remaining \/ u = w
        BY <2>6 DEF PassOf
      <4>2. u.remaining \in Int /\ v.remaining \in Int /\ w.remaining \in Int
        <5>1. v \in LimitRecord
          BY <3>1 DEF Reduced
        <5> QED BY <1>3, <2>7, <5>1, LimitFields
      <4> QED BY <3>1, <4>1, <4>2
    <3> QED BY <2>3, <3>1, <3>2 DEF PassOf
  <2> QED BY <2>8, <2>9
<1>7. \A n \in Nat : n \in 0..N => PassOf(f[n], w, t, seconds, n)
  <2> DEFINE Good == {n \in Nat : n \in 0..N => PassOf(f[n], w, t, seconds, n)}
  <2>1. 0 \in Good
    BY <1>5
  <2>2. ASSUME NEW n \in Good PROVE n + 1 \in Good
    <3>1. n + 1 \in 0..N => n \in 0..N
      BY <1>1
    <3> QED BY <1>6, <2>2, <3>1
  <2>3. \A n \in Good : n \in Nat => n + 1 \in Good
    BY <2>2
  <2> HIDE DEF Good
  <2>4. Nat \subseteq Good
    BY <2>1, <2>3, NatSetInduction
  <2> QED BY <2>4 DEF Good
<1> QED BY <1>1, <1>2, <1>7

-----------------------------------------------------------------------------
(* The rounds.                                                             *)

\* At the throttle that is left no guest is sent more than it can take.
Fitting(w, seconds) ==
    \A g \in Others(w) : net[g].incoming = 0 \/ ~Exceeds(ThrottleFor(w), g, seconds)

LEMMA LimitPeersKeeps ==
    ASSUME Typed, NEW seconds \in SECONDS, NEW w, Reduced(w, seconds), Continues(w)
    PROVE  LET v == LimitPeers(w, seconds)
           IN  /\ Reduced(v, seconds)
               /\ v.again => v.remaining < w.remaining
               /\ ~v.again => Fitting(v, seconds)
<1>1. w \in LimitRecord
  BY DEF Reduced
<1>2. PICK t \in Nat : t = ThrottleFor(w) /\ t <= PEER_SEGMENT_THROTTLE_SCALE
  BY <1>1, ThrottleForIs
<1>3. PICK u \in LimitRecord :
         /\ u = [w EXCEPT !.again = FALSE]
         /\ ~u.again /\ u.limits = w.limits
         /\ u.remaining = w.remaining /\ u.bandwidth = w.bandwidth /\ u.data = w.data
  <2>1. LET x == [w EXCEPT !.again = FALSE]
        IN  /\ x \in LimitRecord /\ ~x.again /\ x.limits = w.limits
            /\ x.remaining = w.remaining /\ x.bandwidth = w.bandwidth /\ x.data = w.data
    BY <1>1, LimitStarts
  <2> QED BY <2>1
<1>4. Reduced(u, seconds)
  BY <1>3 DEF Reduced, Others
<1>5. InProportion(u, t)
  <2>1. InProportion(w, t)
    BY <1>2, ReducedInProportion
  <2> QED BY <1>3, <2>1 DEF InProportion, Others
<1>6. PICK v : v = LimitPeers(w, seconds)
  OBVIOUS
<1>7. v = LimitWalk(u, t, seconds)[Len(Slots)]
  BY <1>2, <1>3, <1>6 DEF LimitPeers
<1>8. PassOf(v, u, t, seconds, Len(Slots))
  BY <1>2, <1>3, <1>4, <1>5, <1>7, LimitWalkKeeps
<1>9. ASSUME ~v.again PROVE Fitting(v, seconds)
  <2>1. v = u /\ \A i \in 1..Len(Slots) : Passed(u, Slots[i], t, seconds)
    BY <1>8, <1>9 DEF PassOf
  <2>2. ThrottleFor(v) = t
    BY <1>2, <1>3, <2>1 DEF ThrottleFor
  <2>3. ASSUME NEW g \in Others(v)
        PROVE  net[g].incoming = 0 \/ ~Exceeds(t, g, seconds)
    <3>1. g \in Guests /\ IsConnected(g) /\ g \notin DOMAIN u.limits
      BY <2>1 DEF Others, Connected
    <3>2. PICK i \in 1..Len(Slots) : Slots[i] = g
      BY <3>1, SlotsLemma
    <3>3. Passed(u, g, t, seconds)
      BY <2>1, <3>2
    <3> QED BY <3>1, <3>3 DEF Passed
  <2> QED BY <2>2, <2>3 DEF Fitting
<1>10. Reduced(v, seconds) /\ (v.again => v.remaining < w.remaining)
  BY <1>3, <1>8 DEF PassOf
<1> QED BY <1>6, <1>9, <1>10

\* What is sent to the guests that are connected does not wrap.
TotalsFit == SumFunctionOnSet(total, Connected) < DATA_MODULUS

LEMMA FewGuests == Cardinality(Connected) \in Nat /\ Cardinality(Connected) <= Len(Slots)
<1>1. PICK n \in Nat : n = Len(Slots)
  BY SlotsLemma
<1>2. Slots \in Seq(ToSet(Slots))
  BY ThrottleAssumption
<1>3. Slots \in Surjection(1..n, Guests)
  BY <1>1, <1>2 DEF Surjection, Guests, ToSet
<1>4. IsFiniteSet(1..n) /\ Cardinality(1..n) = n
  <2>1. IsFiniteSet(1..n) /\ Cardinality(1..n) = IF 1 > n THEN 0 ELSE n - 1 + 1
    BY FS_Interval
  <2> QED BY <2>1
<1>5. IsFiniteSet(Guests) /\ Cardinality(Guests) <= n
  BY <1>3, <1>4, FS_Surjection
<1>6. Connected \in SUBSET Guests
  BY DEF Connected
<1>7. Cardinality(Connected) \in Nat /\ Cardinality(Guests) \in Nat
      /\ Cardinality(Connected) <= Cardinality(Guests)
  BY <1>5, <1>6, FS_Subset, FS_CardinalityType
<1> QED BY <1>1, <1>5, <1>7

LEMMA StartIsReduced ==
    ASSUME Typed, Counting, NEW seconds \in SECONDS, TotalsFit
    PROVE  LET w == StartOfWalk(seconds)
           IN  /\ Reduced(w, seconds) /\ w.remaining <= Len(Slots)
               /\ ~w.again => Fitting(w, seconds)
<1>1. PICK w \in LimitRecord : w = StartOfWalk(seconds)
  BY StartOfWalkTypes
<1>2. connected_peers = Cardinality(Connected) /\ bandwidth_limited_peers = Cardinality(Narrow)
  BY DEF Counting, PeersCounted, Connected, Narrow
<1>3. w.limits = <<>> /\ w.remaining = Cardinality(Connected)
      /\ (w.again <=> bandwidth_limited_peers > 0)
  BY <1>1, <1>2 DEF StartOfWalk
<1>4. DOMAIN w.limits = {}
  BY <1>3, NoLimitation
<1>5. Others(w) = Connected
  BY <1>4 DEF Others
<1>6. PICK x \in Nat : x = SumFunctionOnSet(total, Connected) /\ x < DATA_MODULUS
  <2>1. Connected \in SUBSET Guests
    BY DEF Connected
  <2>2. IsFiniteSet(Connected) /\ \A h \in Connected : total[h] \in Nat
    BY <2>1, TotalLemma
  <2>3. SumFunctionOnSet(total, Connected) \in Nat
    BY <2>2, SumOfFewer
  <2> QED BY <2>3 DEF TotalsFit
<1>7. x <= w.data
  <2>1. CASE HOST_OUTGOING = 0
    <3>1. w.data = DATA_MODULUS - 1
      BY <1>1, <2>1 DEF StartOfWalk
    <3> QED BY <1>6, <3>1, WordLemma
  <2>2. CASE HOST_OUTGOING # 0
    <3>1. w.data = Mod(x)
      BY <1>1, <1>6, <2>2 DEF StartOfWalk, Connected
    <3>2. x \in Word
      BY <1>6, WordLemma
    <3> QED BY <1>6, <3>1, <3>2, ModIs
  <2> QED BY <2>1, <2>2
<1>8. PICK b \in Nat, d \in Nat : b = w.bandwidth /\ d = w.data
  BY LimitFields
<1>9. SumFunctionOnSet(Takes(seconds), DOMAIN w.limits) = 0
  BY <1>4, SumEmpty
<1>10. /\ w.bandwidth + SumFunctionOnSet(Takes(seconds), DOMAIN w.limits) = w.bandwidth
       /\ w.data + SumFunctionOnSet(Takes(seconds), DOMAIN w.limits) = w.data
  BY <1>8, <1>9
<1>11. Reduced(w, seconds)
  BY <1>1, <1>3, <1>4, <1>5, <1>6, <1>7, <1>10 DEF Reduced
<1>12. ASSUME ~w.again PROVE Fitting(w, seconds)
  <2>1. Cardinality(Narrow) = 0
    BY <1>2, <1>3, <1>12, CountsAreNumbers
  <2>2. Narrow = {}
    BY <2>1, CountsAreNumbers, FS_EmptySet
  <2>3. \A g \in Connected : net[g].incoming = 0
    BY <2>2 DEF Narrow, Connected
  <2> QED BY <1>5, <2>3 DEF Fitting
<1> QED BY <1>1, <1>3, <1>11, <1>12, FewGuests

\* After n rounds.
RoundOf(w, seconds, n) ==
    /\ Reduced(w, seconds)
    /\ Continues(w) => w.remaining <= Len(Slots) - n
    /\ ~w.again => Fitting(w, seconds)

\* The rounds end, and then every guest gets what it can take at the most.
LEMMA EndIsReduced ==
    ASSUME Typed, Counting, NEW seconds \in SECONDS, TotalsFit
    PROVE  Reduced(EndOfWalk(seconds), seconds) /\ Fitting(EndOfWalk(seconds), seconds)
<1>1. PICK N \in Nat : N = Len(Slots)
  BY SlotsLemma
<1>2. PICK f : f = LimitRounds(seconds)
  OBVIOUS
<1>3. f = [n \in 0..(N + 1) |->
              IF n = 0 THEN StartOfWalk(seconds) ELSE LimitPeers(f[n - 1], seconds)]
  <2>1. LET h == LimitRounds(seconds)
        IN  h = [n \in 0..(Len(Slots) + 1) |->
                    IF n = 0 THEN StartOfWalk(seconds) ELSE LimitPeers(h[n - 1], seconds)]
    BY LimitRoundsAre
  <2> QED BY <1>1, <1>2, <2>1
<1>4. RoundOf(f[0], seconds, 0)
  <2>1. f[0] = StartOfWalk(seconds)
    BY <1>1, <1>3
  <2>2. PICK w : w = StartOfWalk(seconds)
    OBVIOUS
  <2>3. Reduced(w, seconds) /\ w.remaining <= Len(Slots) /\ (~w.again => Fitting(w, seconds))
    BY <2>2, StartIsReduced
  <2>4. w.remaining <= Len(Slots) - 0
    BY <1>1, <2>3
  <2> QED BY <2>1, <2>2, <2>3, <2>4 DEF RoundOf
<1>5. ASSUME NEW n \in Nat, n + 1 \in 0..(N + 1), RoundOf(f[n], seconds, n)
      PROVE  RoundOf(f[n + 1], seconds, n + 1)
  <2>1. (n + 1) - 1 = n /\ n + 1 # 0
    OBVIOUS
  <2>2. PICK w, v : w = f[n] /\ v = f[n + 1]
    OBVIOUS
  <2>3. v = LimitPeers(w, seconds)
    BY <1>3, <1>5, <2>1, <2>2
  <2>4. RoundOf(w, seconds, n)
    BY <1>5, <2>2
  <2>5. CASE ~Continues(w)
    <3>1. v = w
      BY <2>3, <2>5 DEF LimitPeers
    <3> QED BY <2>2, <2>4, <2>5, <3>1 DEF RoundOf
  <2>6. CASE Continues(w)
    <3>1. Reduced(w, seconds) /\ w.remaining <= N - n
      BY <1>1, <2>4, <2>6 DEF RoundOf
    <3>2. /\ Reduced(v, seconds)
          /\ v.again => v.remaining < w.remaining
          /\ ~v.again => Fitting(v, seconds)
      <4>1. LET x == LimitPeers(w, seconds)
            IN  /\ Reduced(x, seconds)
                /\ x.again => x.remaining < w.remaining
                /\ ~x.again => Fitting(x, seconds)
        BY <2>6, <3>1, LimitPeersKeeps
      <4> QED BY <2>3, <4>1
    <3>3. w.remaining \in Int /\ v.remaining \in Int
      <4>1. w \in LimitRecord /\ v \in LimitRecord
        BY <3>1, <3>2 DEF Reduced
      <4> QED BY <4>1, LimitFields
    <3>4. Continues(v) => v.remaining <= N - (n + 1)
      BY <1>1, <3>1, <3>2, <3>3 DEF Continues
    <3> QED BY <1>1, <2>2, <3>2, <3>4 DEF RoundOf
  <2> QED BY <2>5, <2>6
<1>6. \A n \in Nat : n \in 0..(N + 1) => RoundOf(f[n], seconds, n)
  <2> DEFINE Good == {n \in Nat : n \in 0..(N + 1) => RoundOf(f[n], seconds, n)}
  <2>1. 0 \in Good
    BY <1>4
  <2>2. ASSUME NEW n \in Good PROVE n + 1 \in Good
    <3>1. n + 1 \in 0..(N + 1) => n \in 0..(N + 1)
      BY <1>1
    <3> QED BY <1>5, <2>2, <3>1
  <2>3. \A n \in Good : n \in Nat => n + 1 \in Good
    BY <2>2
  <2> HIDE DEF Good
  <2>4. Nat \subseteq Good
    BY <2>1, <2>3, NatSetInduction
  <2> QED BY <2>4 DEF Good
<1>7. PICK e : e = EndOfWalk(seconds)
  OBVIOUS
<1>8. RoundOf(e, seconds, N + 1)
  <2>1. N + 1 \in Nat /\ N + 1 \in 0..(N + 1)
    BY <1>1
  <2>2. e = f[N + 1]
    BY <1>1, <1>2, <1>7 DEF EndOfWalk
  <2> QED BY <1>6, <2>1, <2>2
<1>9. e \in LimitRecord /\ Reduced(e, seconds)
  BY <1>8 DEF RoundOf, Reduced
<1>10. ~Continues(e)
  <2> SUFFICES ASSUME Continues(e) PROVE FALSE
    OBVIOUS
  <2>1. e.remaining <= N - (N + 1) /\ e.remaining > 0 /\ e.remaining \in Int
    BY <1>1, <1>8, <1>9, LimitFields DEF RoundOf, Continues
  <2> QED BY <1>1, <2>1
<1>11. CASE ~e.again
  BY <1>7, <1>8, <1>9, <1>11 DEF RoundOf
<1>12. CASE e.again
  <2>1. Others(e) \in SUBSET Guests
    BY DEF Others, Connected
  <2>2. IsFiniteSet(Others(e)) /\ Cardinality(Others(e)) \in Nat
    BY <2>1, SendsLemma
  <2>3. Cardinality(Others(e)) = 0
    BY <1>9, <1>10, <1>12, <2>2 DEF Continues, Reduced
  <2>4. Others(e) = {}
    BY <2>2, <2>3, FS_EmptySet
  <2> QED BY <1>7, <1>9, <2>4 DEF Fitting
<1> QED BY <1>11, <1>12

-----------------------------------------------------------------------------
(* What the throttle leaves each guest.                                    *)

\* What is sent to the guests that are connected is small enough for its
\* product with the scale not to wrap.
ScaledTotalsFit ==
    PEER_SEGMENT_THROTTLE_SCALE * SumFunctionOnSet(total, Connected) < DATA_MODULUS

LEMMA ConnectedTotal ==
    ASSUME Typed
    PROVE  /\ SumFunctionOnSet(total, Connected) \in Nat
           /\ \A g \in Connected : total[g] <= SumFunctionOnSet(total, Connected)
           /\ ScaledTotalsFit => TotalsFit
<1>1. PICK C \in SUBSET Guests : C = Connected
  BY DEF Connected
<1>2. IsFiniteSet(C) /\ Numeric(total, C) /\ \A h \in C : total[h] \in Nat
  BY <1>1, TotalLemma
<1>3. PICK x \in Nat : x = SumFunctionOnSet(total, C)
  BY <1>2, SumOfFewer
<1>4. ASSUME NEW g \in C PROVE total[g] <= x
  <2>1. x = total[g] + SumFunctionOnSet(total, C \ {g})
    BY <1>2, <1>3, SumTake
  <2>2. C \ {g} \in SUBSET C
    OBVIOUS
  <2>3. SumFunctionOnSet(total, C \ {g}) \in Nat
    BY <1>2, <2>2, SumOfFewer
  <2>4. total[g] \in Nat
    BY <1>2
  <2> QED BY <2>1, <2>3, <2>4
<1>5. PICK s \in Nat : s = PEER_SEGMENT_THROTTLE_SCALE /\ s > 0
  BY WordLemma
<1>6. x <= s * x
  BY <1>5
<1>7. ScaledTotalsFit => TotalsFit
  <2> SUFFICES ASSUME ScaledTotalsFit PROVE TotalsFit
    OBVIOUS
  <2>1. s * x < DATA_MODULUS
    BY <1>1, <1>3, <1>5 DEF ScaledTotalsFit
  <2>2. x < DATA_MODULUS
    BY <1>3, <1>5, <1>6, <2>1, WordLemma
  <2> QED BY <1>1, <1>3, <2>2 DEF TotalsFit
<1> QED BY <1>1, <1>3, <1>4, <1>7

\* Taking off what the limited guests can take never wraps.
LEMMA NothingWraps ==
    ASSUME Typed, Counting, NEW seconds \in SECONDS, TotalsFit
    PROVE  /\ EndOfWalk(seconds).bandwidth <= StartOfWalk(seconds).bandwidth
           /\ EndOfWalk(seconds).data <= StartOfWalk(seconds).data
<1>1. PICK e : e = EndOfWalk(seconds)
  OBVIOUS
<1>2. Reduced(e, seconds) /\ e \in LimitRecord
  BY <1>1, EndIsReduced DEF Reduced
<1>3. PICK b \in Nat, d \in Nat : b = e.bandwidth /\ d = e.data
  BY <1>2, LimitFields
<1>4. PICK z \in Nat : z = SumFunctionOnSet(Takes(seconds), DOMAIN e.limits)
  <2>1. DOMAIN e.limits \in SUBSET Guests
    BY <1>2, LimitFields
  <2>2. IsFiniteSet(DOMAIN e.limits) /\ \A h \in DOMAIN e.limits : Takes(seconds)[h] \in Nat
    BY <2>1, TotalLemma, TakesIs
  <2> QED BY <2>2, SumOfFewer
<1>5. b + z = StartOfWalk(seconds).bandwidth /\ d + z = StartOfWalk(seconds).data
  BY <1>2, <1>3, <1>4 DEF Reduced
<1> QED BY <1>1, <1>3, <1>4, <1>5

\* No guest gets more than it can take, and all of them no more than the host
\* may send; the guests in C are those whose limit is more than 1, and h their
\* shares.
LEMMA ThrottleFits ==
    ASSUME Typed, Counting, NEW seconds \in SECONDS, ScaledTotalsFit,
           NEW limits, limits = Limits(EndOfWalk(seconds)),
           NEW C \in SUBSET Connected, \A g \in C : limits[g] > 1,
           NEW h,
           \A g \in C : h[g] = (limits[g] * total[g]) \div PEER_SEGMENT_THROTTLE_SCALE
    PROVE  /\ SumFunctionOnSet(h, C) <= StartOfWalk(seconds).bandwidth
           /\ \A g \in C : net[g].incoming # 0 => h[g] <= net[g].incoming * seconds
<1>1. TotalsFit
  BY ConnectedTotal
<1>2. PICK e \in LimitRecord : e = EndOfWalk(seconds)
  BY EndOfWalkTypes
<1>3. Reduced(e, seconds) /\ Fitting(e, seconds)
  BY <1>1, <1>2, EndIsReduced
<1>4. PICK t \in Nat : t = ThrottleFor(e) /\ t <= PEER_SEGMENT_THROTTLE_SCALE
  BY ThrottleForIs
<1>5. PICK s \in Nat : s = PEER_SEGMENT_THROTTLE_SCALE /\ s > 0
  BY WordLemma
<1>6. PICK D \in SUBSET Connected : D = DOMAIN e.limits
  BY <1>3 DEF Reduced
<1>7. /\ \A g \in C \cap D : limits[g] = e.limits[g] /\ limits[g] \in Nat
      /\ \A g \in C \ D : limits[g] = t
  <2>1. limits = [g \in Connected |-> IF g \in D THEN e.limits[g] ELSE t]
    BY <1>2, <1>4, <1>6 DEF Limits, Connected
  <2>2. \A g \in D : e.limits[g] \in Nat
    BY <1>6, LimitFields, LimitationsLemma, WordLemma
  <2> QED BY <2>1, <2>2
<1>8. PICK T : T = Takes(seconds)
  OBVIOUS
<1>9. \A g \in Guests : /\ T[g] = Mod(net[g].incoming * seconds)
                        /\ T[g] \in Nat /\ T[g] <= net[g].incoming * seconds
                        /\ net[g].incoming * seconds \in Nat
                        /\ total[g] \in Nat
  BY <1>8, TakesIs, TakesLemma, TotalLemma
<1>10. C \in SUBSET Guests /\ D \in SUBSET Guests
  BY DEF Connected
<1>11. ASSUME NEW g \in C \cap D PROVE h[g] \in Nat /\ h[g] <= T[g]
  <2>1. PICK l \in Nat, a \in Nat, k \in Nat : l = limits[g] /\ a = total[g] /\ k = T[g]
    BY <1>7, <1>9, <1>10
  <2>2. l > 1 /\ l = e.limits[g]
    BY <1>7, <2>1
  <2>3. l * a <= s * k
    BY <1>3, <1>5, <1>6, <1>8, <2>1, <2>2 DEF Reduced
  <2>4. PICK n \in Nat : n = l * a
    OBVIOUS
  <2>5. PICK q \in Nat : q = n \div s /\ s * q <= n
    BY <1>5, QuotientLemma
  <2>6. s * q <= s * k
    BY <1>5, <2>3, <2>4, <2>5
  <2>7. q <= k
    <3> SUFFICES ASSUME q > k PROVE FALSE
      OBVIOUS
    <3>1. s * q > s * k
      BY <1>5
    <3> QED BY <1>5, <2>6, <3>1
  <2>8. h[g] = q
    BY <1>5, <2>1, <2>4, <2>5
  <2> QED BY <2>1, <2>7, <2>8
<1>12. ASSUME NEW g \in C \ D
       PROVE  /\ h[g] \in Nat /\ s * h[g] <= t * total[g]
              /\ net[g].incoming # 0 => h[g] <= T[g]
  <2>1. PICK a \in Nat, k \in Nat : a = total[g] /\ k = T[g]
    BY <1>9, <1>10
  <2>2. PICK n \in Nat : n = t * a
    OBVIOUS
  <2>3. PICK q \in Nat : q = n \div s /\ s * q <= n
    BY <1>5, QuotientLemma
  <2>4. h[g] = q
    BY <1>5, <1>7, <2>1, <2>2, <2>3
  <2>5. ASSUME net[g].incoming # 0 PROVE q <= k
    <3>1. ~Exceeds(t, g, seconds)
      <4>1. g \in Others(e)
        BY <1>6 DEF Others
      <4> QED BY <1>3, <1>4, <2>5, <4>1 DEF Fitting
    <3>2. n < DATA_MODULUS
      <4>1. PICK x \in Nat : x = SumFunctionOnSet(total, Connected) /\ a <= x
        BY <2>1, ConnectedTotal
      <4>2. s * x < DATA_MODULUS
        BY <1>5, <4>1 DEF ScaledTotalsFit
      <4>3. t * a <= s * a
        BY <1>4, <1>5
      <4>4. s * a <= s * x
        BY <1>5, <4>1
      <4>5. s * a \in Nat /\ s * x \in Nat
        BY <1>5, <4>1
      <4> QED BY <2>2, <4>2, <4>3, <4>4, <4>5, WordLemma
    <3>3. Mod(n) = n
      BY <3>2, WordLemma, ModIs
    <3>4. q > k => Exceeds(t, g, seconds)
      <4>1. k = Mod(net[g].incoming * seconds)
        BY <1>9, <1>10, <2>1
      <4> QED BY <1>5, <2>1, <2>2, <2>3, <3>3, <4>1 DEF Exceeds
    <3> QED BY <3>1, <3>4
  <2> QED BY <2>1, <2>2, <2>3, <2>4, <2>5
<1>13. \A g \in C : net[g].incoming # 0 => h[g] <= net[g].incoming * seconds
  <2> SUFFICES ASSUME NEW g \in C, net[g].incoming # 0 PROVE h[g] <= net[g].incoming * seconds
    OBVIOUS
  <2>1. h[g] \in Nat /\ h[g] <= T[g]
    <3>1. CASE g \in D
      BY <1>11, <3>1
    <3>2. CASE g \notin D
      BY <1>12, <3>2
    <3> QED BY <3>1, <3>2
  <2> QED BY <1>9, <1>10, <2>1
<1>14. PICK K \in SUBSET C, R \in SUBSET C : K = C \cap D /\ R = C \ D /\ R = C \ K
  OBVIOUS
<1>15. /\ IsFiniteSet(C) /\ Numeric(h, C) /\ IsFiniteSet(K) /\ IsFiniteSet(R)
       /\ Numeric(h, K) /\ Numeric(T, K) /\ Numeric(h, R) /\ Numeric(total, R)
       /\ IsFiniteSet(D) /\ \A g \in D : T[g] \in Nat
  <2>1. \A g \in C : h[g] \in Nat
    BY <1>11, <1>12
  <2>2. K \in SUBSET Guests /\ R \in SUBSET Guests
    BY <1>10
  <2> QED BY <1>8, <1>9, <1>10, <2>1, <2>2, TotalLemma, TakesIs DEF Numeric
<1>16. SumFunctionOnSet(h, C) = SumFunctionOnSet(h, K) + SumFunctionOnSet(h, R)
  BY <1>14, <1>15, SumSplits
<1>17. PICK z \in Nat : z = SumFunctionOnSet(T, D) /\ SumFunctionOnSet(h, K) <= z
  <2>1. \A g \in K : h[g] <= T[g]
    BY <1>11, <1>14
  <2>2. SumFunctionOnSet(h, K) <= SumFunctionOnSet(T, K)
    BY <1>15, <2>1, SumBelow
  <2>3. K \in SUBSET D
    BY <1>14
  <2>4. /\ SumFunctionOnSet(T, D) \in Nat /\ SumFunctionOnSet(T, K) \in Nat
        /\ SumFunctionOnSet(T, K) <= SumFunctionOnSet(T, D)
    BY <1>15, <2>3, SumOfFewer
  <2>5. SumFunctionOnSet(h, K) \in Int
    BY <1>15, SumIsInt
  <2> QED BY <2>2, <2>4, <2>5
<1>18. PICK b \in Nat : b = e.bandwidth
  BY LimitFields
<1>19. SumFunctionOnSet(h, R) <= b
  <2>1. \A g \in R : s * h[g] <= t * total[g]
    BY <1>12, <1>14
  <2>2. PICK x \in Int, y \in Int :
           /\ x = SumFunctionOnSet(h, R) /\ y = SumFunctionOnSet(total, R)
           /\ s * x <= t * y
    <3>1. s * SumFunctionOnSet(h, R) <= t * SumFunctionOnSet(total, R)
      <4>1. s \in Int /\ t \in Int
        BY <1>4, <1>5
      <4> QED BY <1>15, <2>1, <4>1, SumInProportion
    <3>2. SumFunctionOnSet(h, R) \in Int /\ SumFunctionOnSet(total, R) \in Int
      BY <1>15, SumIsInt
    <3> QED BY <3>1, <3>2
  <2>3. PICK O \in SUBSET Guests : O = Others(e) /\ R \in SUBSET O
    BY ZenonT(30), <1>6, <1>14 DEF Others, Connected
  <2>4. PICK w \in Nat : w = SumFunctionOnSet(total, O) /\ y <= w
    <3>1. IsFiniteSet(O) /\ \A g \in O : total[g] \in Nat
      BY <2>3, TotalLemma
    <3> QED BY <2>2, <2>3, <3>1, SumOfFewer
  <2>5. t * y <= t * w
    BY <2>2, <2>4
  <2>6. t * w <= s * b
    <3>1. InProportion(e, t)
      BY <1>3, <1>4, ReducedInProportion
    <3> QED BY <1>5, <1>18, <2>3, <2>4, <3>1 DEF InProportion
  <2>7. s * x <= s * b
    <3>1. s * x \in Int /\ t * y \in Int /\ t * w \in Int /\ s * b \in Int
      BY <1>5, <1>18, <2>2, <2>4
    <3> QED BY <2>2, <2>5, <2>6, <3>1
  <2>8. x <= b
    <3> SUFFICES ASSUME x > b PROVE FALSE
      BY <1>18, <2>2
    <3>1. s * x > s * b
      BY <1>5, <1>18, <2>2
    <3>2. s * x \in Int /\ s * b \in Int
      BY <1>5, <1>18, <2>2
    <3> QED BY <2>7, <3>1, <3>2
  <2> QED BY <2>2, <2>8
<1>20. b + z = StartOfWalk(seconds).bandwidth
  BY <1>3, <1>6, <1>8, <1>17, <1>18 DEF Reduced
<1>21. SumFunctionOnSet(h, C) <= b + z
  <2>1. SumFunctionOnSet(h, K) \in Int /\ SumFunctionOnSet(h, R) \in Int
    BY <1>15, SumIsInt
  <2> QED BY <1>16, <1>17, <1>18, <1>19, <2>1
<1> QED BY <1>13, <1>20, <1>21

\* Only the throttle leaves something to compare.
LEMMA OnlyTheThrottle ==
    ASSUME [Next]_vars,
           ~(\E seconds \in SECONDS : Throttle(seconds))
    PROVE  (UNCHANGED <<state, net, last>>) \/ ~last'.fresh
<1>1. last' = Nothing \/ UNCHANGED <<state, net, last>>
  BY DEF Next, vars, Connects, DisconnectedByHost, DisconnectedByGuest, Leaves, Ends, Reset,
         DisconnectLater, Queue, Acknowledged
<1>2. Nothing.fresh = FALSE
  BY DEF Nothing
<1> QED BY <1>1, <1>2

\* What the throttle does to the limits, and what is kept of it.
LEMMA ThrottleIs ==
    ASSUME Fair, NEW seconds \in SECONDS, Throttle(seconds)
    PROVE  /\ last'.fresh /\ last'.seconds = seconds /\ last'.total = total
           /\ last'.bandwidth = StartOfWalk(seconds).bandwidth
           /\ last'.left = EndOfWalk(seconds).bandwidth
           /\ last'.data = StartOfWalk(seconds).data
           /\ last'.behind = EndOfWalk(seconds).data
           /\ Connected' = Connected
           /\ \A g \in Connected :
                 LET x == Limits(EndOfWalk(seconds))[g]
                 IN  /\ net'[g].limit = x /\ net'[g].incoming = net[g].incoming
                     /\ net'[g].throttle <= net'[g].limit
<1>1. Typed /\ Counting
  BY DEF Fair
<1>2. PICK limits : limits = Limits(EndOfWalk(seconds))
  OBVIOUS
<1>3. DOMAIN limits = Connected /\ \A g \in Connected : limits[g] \in Word
  BY <1>1, <1>2, LimitsTypes
<1>4. /\ net' = [g \in Guests |->
                   IF g \in DOMAIN limits THEN Limited(net[g], limits[g]) ELSE net[g]]
      /\ state' = state
  BY <1>2 DEF Throttle
<1>5. ASSUME NEW g \in Connected
      PROVE  /\ net'[g].limit = limits[g] /\ net'[g].incoming = net[g].incoming
             /\ net'[g].throttle <= net'[g].limit
  <2>1. g \in Guests
    BY DEF Connected
  <2>2. net'[g] = Limited(net[g], limits[g])
    BY <1>3, <1>4, <2>1
  <2>3. PICK n \in Net, x \in Word : n = net[g] /\ x = limits[g]
    BY <1>1, <1>3, <2>1 DEF Typed
  <2>4. /\ Limited(n, x).limit = x /\ Limited(n, x).incoming = n.incoming
        /\ Limited(n, x).throttle = Smaller(n.throttle, x) /\ n.throttle \in Word
    BY <2>3, NetFields
  <2>5. Smaller(n.throttle, x) <= x
    BY <2>3, <2>4, WordLemma DEF Smaller
  <2> QED BY <2>2, <2>3, <2>4, <2>5
<1>6. last' = [fresh |-> TRUE, seconds |-> seconds, bandwidth |-> StartOfWalk(seconds).bandwidth,
               left |-> EndOfWalk(seconds).bandwidth, data |-> StartOfWalk(seconds).data,
               behind |-> EndOfWalk(seconds).data, total |-> total]
  BY DEF Throttle
<1>7. Connected' = Connected
  BY <1>4 DEF Connected, IsConnected, Guests
<1> QED BY <1>2, <1>5, <1>6, <1>7

LEMMA UnderflowsNot ==
    ASSUME Fair, TotalsFit, NothingUnderflows, [Next]_vars
    PROVE  NothingUnderflows'
<1>1. CASE \E seconds \in SECONDS : Throttle(seconds)
  <2>1. PICK seconds \in SECONDS : Throttle(seconds)
    BY <1>1
  <2>2. /\ last'.left = EndOfWalk(seconds).bandwidth
        /\ last'.bandwidth = StartOfWalk(seconds).bandwidth
        /\ last'.behind = EndOfWalk(seconds).data
        /\ last'.data = StartOfWalk(seconds).data
    BY <2>1, ThrottleIs
  <2>3. /\ EndOfWalk(seconds).bandwidth <= StartOfWalk(seconds).bandwidth
        /\ EndOfWalk(seconds).data <= StartOfWalk(seconds).data
    BY NothingWraps DEF Fair
  <2> QED BY <2>2, <2>3 DEF NothingUnderflows
<1>2. CASE ~(\E seconds \in SECONDS : Throttle(seconds))
  <2>1. UNCHANGED <<state, net, last>> \/ ~last'.fresh
    BY <1>2, OnlyTheThrottle
  <2> QED BY <2>1 DEF NothingUnderflows
<1> QED BY <1>1, <1>2

\* The guests whose shares count, and the shares.
Counted == {g \in Guests : IsConnected(g) /\ net[g].limit > 1}

Share == [g \in Counted |-> (net[g].limit * last.total[g]) \div PEER_SEGMENT_THROTTLE_SCALE]

SharesAreLimited ==
    (last.fresh /\ HOST_OUTGOING # 0) =>
       /\ SumFunctionOnSet(Share, Counted) <= last.bandwidth
       /\ \A g \in Counted : /\ net[g].throttle <= net[g].limit
                             /\ net[g].incoming # 0 =>
                                   Share[g] <= net[g].incoming * last.seconds

LEMMA LimitedToFit == SharesAreLimited => ThrottledToFit
<1> SUFFICES ASSUME SharesAreLimited, last.fresh, HOST_OUTGOING # 0
             PROVE  /\ SumFunction(Share) <= last.bandwidth
                    /\ \A g \in Counted :
                          /\ net[g].throttle <= net[g].limit
                          /\ net[g].incoming # 0 =>
                                (net[g].limit * last.total[g]) \div PEER_SEGMENT_THROTTLE_SCALE
                                   <= net[g].incoming * last.seconds
  BY DEF ThrottledToFit, Counted, Share
<1>1. DOMAIN Share = Counted
  BY DEF Share
<1>2. SumFunction(Share) = SumFunctionOnSet(Share, Counted)
  BY <1>1 DEF SumFunction
<1>3. \A g \in Counted :
         Share[g] = (net[g].limit * last.total[g]) \div PEER_SEGMENT_THROTTLE_SCALE
  BY DEF Share
<1> QED BY <1>2, <1>3 DEF SharesAreLimited

LEMMA StaysLimited ==
    ASSUME Fair, ScaledTotalsFit, SharesAreLimited, [Next]_vars
    PROVE  SharesAreLimited'
<1>1. CASE \E seconds \in SECONDS : Throttle(seconds)
  <2>1. PICK seconds \in SECONDS : Throttle(seconds)
    BY <1>1
  <2>2. PICK limits : limits = Limits(EndOfWalk(seconds))
    OBVIOUS
  <2>3. /\ last'.seconds = seconds /\ last'.total = total
        /\ last'.bandwidth = StartOfWalk(seconds).bandwidth
        /\ Connected' = Connected
    BY <2>1, ThrottleIs
  <2>4. \A g \in Connected :
           /\ net'[g].limit = limits[g] /\ net'[g].incoming = net[g].incoming
           /\ net'[g].throttle <= net'[g].limit
    BY <2>1, <2>2, ThrottleIs
  <2>5. PICK C \in SUBSET Connected : C = Counted' /\ \A g \in C : limits[g] > 1
    <3>1. Counted' = {g \in Connected' : net'[g].limit > 1}
      BY DEF Counted, Connected, Guests
    <3> QED BY <2>3, <2>4, <3>1
  <2>6. PICK h : /\ h = Share'
                 /\ \A g \in C : h[g] = (limits[g] * total[g]) \div PEER_SEGMENT_THROTTLE_SCALE
    <3>1. \A g \in Counted' :
             Share'[g] = (net'[g].limit * last'.total[g]) \div PEER_SEGMENT_THROTTLE_SCALE
      BY DEF Share
    <3> QED BY <2>3, <2>4, <2>5, <3>1
  <2>7. /\ SumFunctionOnSet(h, C) <= StartOfWalk(seconds).bandwidth
        /\ \A g \in C : net[g].incoming # 0 => h[g] <= net[g].incoming * seconds
    BY <2>2, <2>5, <2>6, ThrottleFits DEF Fair
  <2>8. SumFunctionOnSet(Share', Counted') <= last'.bandwidth
    BY <2>3, <2>5, <2>6, <2>7
  <2>9. \A g \in Counted' : /\ net'[g].throttle <= net'[g].limit
                            /\ net'[g].incoming # 0 =>
                                  Share'[g] <= net'[g].incoming * last'.seconds
    BY <2>3, <2>4, <2>5, <2>6, <2>7
  <2> QED BY <2>8, <2>9 DEF SharesAreLimited
<1>2. CASE ~(\E seconds \in SECONDS : Throttle(seconds))
  <2>1. UNCHANGED <<state, net, last>> \/ ~last'.fresh
    BY <1>2, OnlyTheThrottle
  <2>2. CASE UNCHANGED <<state, net, last>>
    <3>1. Counted' = Counted
      BY <2>2 DEF Counted, IsConnected, Guests
    <3>2. Share' = Share
      BY <2>2, <3>1 DEF Share
    <3> QED BY <2>2, <3>1, <3>2 DEF SharesAreLimited
  <2>3. CASE ~last'.fresh
    BY <2>3 DEF SharesAreLimited
  <2> QED BY <2>1, <2>2, <2>3
<1> QED BY <1>1, <1>2

\* As long as what is sent to the guests together does not wrap, the throttle
\* never takes more off the bandwidth or off the data than there is.
THEOREM NothingEverUnderflows == Spec /\ []TotalsFit => []NothingUnderflows
<1>1. Init => Fair
  BY InitFair
<1>2. Init => NothingUnderflows
  BY DEF Init, Nothing, NothingUnderflows
<1>3. Fair /\ [Next]_vars => Fair'
  BY NextFair
<1>4. Fair /\ TotalsFit /\ NothingUnderflows /\ [Next]_vars => NothingUnderflows'
  BY UnderflowsNot
<1> QED BY <1>1, <1>2, <1>3, <1>4, PTL DEF Spec

\* As long as the product of what is sent and the scale does not wrap either,
\* the throttle leaves every guest no more than it can take, and all of them
\* together no more than the host may send.
THEOREM AlwaysThrottledToFit == Spec /\ []ScaledTotalsFit => []ThrottledToFit
<1>1. Init => Fair
  BY InitFair
<1>2. Init => SharesAreLimited
  BY DEF Init, Nothing, SharesAreLimited
<1>3. Fair /\ [Next]_vars => Fair'
  BY NextFair
<1>4. Fair /\ ScaledTotalsFit /\ SharesAreLimited /\ [Next]_vars => SharesAreLimited'
  BY StaysLimited
<1>5. SharesAreLimited => ThrottledToFit
  BY LimitedToFit
<1> QED BY <1>1, <1>2, <1>3, <1>4, <1>5, PTL DEF Spec
=============================================================================
