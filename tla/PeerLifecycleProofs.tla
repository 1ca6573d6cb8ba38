-------------------------- MODULE PeerLifecycleProofs --------------------------
(***************************************************************************)
(* The slots of the hosts and the counters that go by them, for any hosts, *)
(* slots, ways to disconnect and bounds, and whatever is lost, repeated,   *)
(* reordered or late; and, while each guest asks for one connection only,  *)
(* that both ends of it agree, and that nobody hears of its end before an  *)
(* application asks for that.                                              *)
(***************************************************************************)
EXTENDS PeerLifecycle, Induction

-----------------------------------------------------------------------------
(* Types, when n connections have been asked for.                          *)

Types == {"CONNECT", "VERIFY_CONNECT", "PING", "DISCONNECT", "ACKNOWLEDGE"}

\* A CONNECT bears the number of a connection.
Control(n) ==
    {c \in [type : Types, rsn : Nat, connect_id : 0..n, outgoing_peer_id : Nat,
            acknowledge : BOOLEAN] :
        c.type = "CONNECT" => c.connect_id # 0}

Answers == [rsn : Nat, type : Types]

Datagrams(n) == [from : HOSTS, to : HOSTS \cup {Nowhere}, slot : Nat,
                 commands : Seq(Control(n))]

\* A slot belongs to a connection unless it is free.
Peer(n) ==
    {p \in [state : States, address : HOSTS \cup {Nowhere}, connect_id : 0..n,
            outgoing_peer_id : Nat, number : Nat, outgoing : Seq(Control(n)),
            sent : Seq(Control(n)), acknowledgements : Seq(Answers),
            needs_dispatch : BOOLEAN] :
        p.state = "DISCONNECTED" <=> p.connect_id = 0}

Host(h, n) == [peers : [Slots(h) -> Peer(n)], queue : Seq(Slots(h)), connected : Int]

-----------------------------------------------------------------------------
(* The counter.                                                            *)

\* The slots that connected_peers_ is to count.
CountedSlots(h, host) == {s \in Slots(h) : Counted(host, s)}

\* The counter is ahead of the slots by x.
Ahead(h, host, x) == host.connected = Cardinality(CountedSlots(h, host)) + x

Tallied(h, n, x) == {host \in Host(h, n) : Ahead(h, host, x)}

\* The inductive invariant.  Only DisconnectNow puts the counter ahead.
Inv ==
    /\ connects \in Seq(HOSTS)
    /\ DOMAIN hosts = HOSTS
    /\ \A h \in HOSTS : \E x \in Nat :
          /\ hosts[h] \in Tallied(h, Len(connects), x)
          /\ "now" \notin Ways[h] => x = 0
    /\ DOMAIN network \subseteq Datagrams(Len(connects))

-----------------------------------------------------------------------------
(* Commands and peers.                                                     *)

LEMMA PeerFields ==
    ASSUME NEW n \in Nat, NEW p \in Peer(n)
    PROVE  /\ p.state \in States /\ p.address \in HOSTS \cup {Nowhere}
           /\ p.connect_id \in 0..n /\ p.outgoing_peer_id \in Nat /\ p.number \in Nat
           /\ p.outgoing \in Seq(Control(n)) /\ p.sent \in Seq(Control(n))
           /\ p.acknowledgements \in Seq(Answers) /\ p.needs_dispatch \in BOOLEAN
           /\ p.state = "DISCONNECTED" <=> p.connect_id = 0
  BY DEF Peer

LEMMA ControlFields ==
    ASSUME NEW n \in Nat, NEW c \in Control(n)
    PROVE  /\ c.type \in Types /\ c.rsn \in Nat /\ c.connect_id \in 0..n
           /\ c.outgoing_peer_id \in Nat /\ c.acknowledge \in BOOLEAN
           /\ c.type = "CONNECT" => c.connect_id # 0
  BY DEF Control

LEMMA EmptyPeerLemma ==
    ASSUME NEW n \in Nat PROVE EmptyPeer \in Peer(n)
  BY DEF EmptyPeer, Peer, States, Nobody

\* The state of a peer that is not free is replaced.
LEMMA StateUpdate ==
    ASSUME NEW n \in Nat, NEW p \in Peer(n), NEW st \in States,
           p.state # "DISCONNECTED", st # "DISCONNECTED"
    PROVE  \E q \in Peer(n) : q = [p EXCEPT !.state = st] /\ q.state = st
<1>1. PICK q : q = [p EXCEPT !.state = st]
  OBVIOUS
<1>2. q \in Peer(n) /\ q.state = st
  BY <1>1 DEF Peer
<1> QED BY <1>1, <1>2

LEMMA CommandLemma ==
    ASSUME NEW n \in Nat, NEW p \in Peer(n), NEW type \in Types, NEW id \in 0..n,
           NEW slot \in Nat, NEW acknowledge \in BOOLEAN, type = "CONNECT" => id # 0
    PROVE  Command(p, type, id, slot, acknowledge) \in Control(n)
  BY DEF Peer, Command, Control

LEMMA QueueLemma ==
    ASSUME NEW n \in Nat, NEW p \in Peer(n), NEW type \in Types, NEW id \in 0..n,
           NEW slot \in Nat, type = "CONNECT" => id # 0
    PROVE  LET q == QueueOutgoingCommand(p, type, id, slot)
           IN  q \in Peer(n) /\ q.state = p.state
<1> DEFINE c == Command(p, type, id, slot, TRUE)
           k == p.number + 1
           o == Append(p.outgoing, c)
           q == QueueOutgoingCommand(p, type, id, slot)
<1>1. c \in Control(n)
  BY CommandLemma
<1> HIDE DEF c
<1>2. k \in Nat /\ o \in Seq(Control(n))
  BY <1>1, PeerFields
<1>3. q = [p EXCEPT !.number = k, !.outgoing = o]
  BY DEF QueueOutgoingCommand, c
<1> HIDE DEF k, o, q
<1>4. q \in Peer(n) /\ q.state = p.state
  BY <1>2, <1>3 DEF Peer
<1> QED BY <1>4 DEF q

LEMMA ResetLemma ==
    ASSUME NEW n \in Nat, NEW p \in Peer(n)
    PROVE  Reset(p) \in Peer(n) /\ Reset(p).state = "DISCONNECTED"
<1>1. PICK e \in Peer(n) : e = EmptyPeer
  BY EmptyPeerLemma
<1>2. PICK q : q = [e EXCEPT !.outgoing = p.outgoing, !.sent = p.sent]
  OBVIOUS
<1>3. e.state = "DISCONNECTED"
  BY <1>1 DEF EmptyPeer
<1>4. p.outgoing \in Seq(Control(n)) /\ p.sent \in Seq(Control(n))
  BY PeerFields
<1>5. q \in Peer(n) /\ q.state = "DISCONNECTED"
  BY <1>2, <1>3, <1>4 DEF Peer
<1> QED BY <1>1, <1>2, <1>5 DEF Reset

LEMMA EmptySequence == \A S : <<>> \in Seq(S)
  OBVIOUS

LEMMA ResetQueuesLemma ==
    ASSUME NEW n \in Nat, NEW p \in Peer(n)
    PROVE  LET q == ResetPeerQueues(p)
           IN  q \in Peer(n) /\ q.state = p.state
<1>1. PICK o : o = <<>> /\ o \in Seq(Control(n)) /\ o \in Seq(Answers)
  BY EmptySequence
<1>2. PICK q : q = [p EXCEPT !.outgoing = o, !.sent = o, !.acknowledgements = o,
                             !.needs_dispatch = FALSE]
  OBVIOUS
<1>3. q \in Peer(n) /\ q.state = p.state
  BY <1>1, <1>2 DEF Peer
<1> QED BY <1>1, <1>2, <1>3 DEF ResetPeerQueues

\* What is left of the sent list is made of what was there.
LEMMA RemovalLemma ==
    ASSUME NEW S, NEW p, p.sent \in Seq(S), NEW rsn
    PROVE  \E s \in Seq(S) : RemoveSentReliableCommand(p, rsn) \in {p, [p EXCEPT !.sent = s]}
<1>1. CASE Matching(p, rsn) = {}
  BY <1>1 DEF RemoveSentReliableCommand
<1>2. CASE Matching(p, rsn) # {}
  <2> DEFINE k == Min(Matching(p, rsn))
             s == RemoveAt(p.sent, k)
             q == RemoveSentReliableCommand(p, rsn)
  <2>1. Matching(p, rsn) \subseteq 1..Len(p.sent)
    BY DEF Matching
  <2>2. k \in 1..Len(p.sent)
    <3>1. Matching(p, rsn) \in SUBSET Nat
      BY <2>1
    <3> QED BY <1>2, <2>1, <3>1, MinOfSet
  <2>3. s \in Seq(S)
    <3> HIDE DEF k
    <3>1. SubSeq(p.sent, 1, k - 1) \in Seq(S)
      BY <2>1, <2>2
    <3>2. SubSeq(p.sent, k + 1, Len(p.sent)) \in Seq(S)
      BY <2>1, <2>2
    <3> QED BY <3>1, <3>2 DEF RemoveAt
  <2>4. q = [p EXCEPT !.sent = s]
    BY <1>2 DEF RemoveSentReliableCommand
  <2> HIDE DEF s, q, k
  <2> QED BY <2>3, <2>4 DEF q
<1> QED BY <1>1, <1>2

LEMMA RemoveLemma ==
    ASSUME NEW n \in Nat, NEW p \in Peer(n), NEW rsn
    PROVE  LET q == RemoveSentReliableCommand(p, rsn)
           IN  q \in Peer(n) /\ q.state = p.state
<1>1. PICK s \in Seq(Control(n)) : RemoveSentReliableCommand(p, rsn) \in {p, [p EXCEPT !.sent = s]}
  BY PeerFields, RemovalLemma
<1>2. PICK q : q = [p EXCEPT !.sent = s]
  OBVIOUS
<1>3. q \in Peer(n) /\ q.state = p.state
  BY <1>2 DEF Peer
<1> QED BY <1>1, <1>2, <1>3

\* A timeout puts commands in front of the outgoing list.
LEMMA ExpirationsLemma ==
    ASSUME NEW C, NEW p, p.sent \in Seq(C), p.outgoing \in Seq(C), NEW expired
    PROVE  Expirations(p, expired)[Len(p.sent)] \in Seq(C)
<1> DEFINE S == Seq(C)
           N == Len(p.sent)
           step == [v \in S \X (1..N) |->
                       IF v[2] \in expired THEN Expire(v[1], p.sent[v[2]]) ELSE v[1]]
<1>1. p.sent \in S /\ p.outgoing \in S /\ N \in Nat
  OBVIOUS
<1>2. ASSUME NEW o \in S, NEW i \in 1..N PROVE Expire(o, p.sent[i]) \in S
  <2>1. p.sent[i] \in C
    BY <1>1
  <2> QED BY <2>1 DEF Expire
<1>3. step \in [S \X (1..N) -> S]
  <2>1. ASSUME NEW v \in S \X (1..N) PROVE step[v] \in S
    <3>1. v[1] \in S /\ v[2] \in 1..N
      OBVIOUS
    <3> HIDE DEF S, N
    <3> QED BY <1>2, <3>1
  <2> QED BY <2>1
<1>4. PICK f \in [0..N -> S] :
         f[0] = p.outgoing /\ \A i \in 1..N : f[i] = step[<<f[i - 1], i>>]
  <2>1. PICK o \in S : o = p.outgoing
    BY <1>1
  <2>2. step \in Steps(S, N)
    BY <1>3 DEF Steps
  <2> HIDE DEF step, S, N
  <2>3. \E f : Recursion(f, N, S, o, step)
    BY <1>1, <2>2, RecursionExists
  <2> QED BY <2>1, <2>3 DEF Recursion
<1>5. f = [i \in 0..N |-> IF i = 0 THEN p.outgoing
                          ELSE IF i \in expired THEN Expire(f[i - 1], p.sent[i])
                          ELSE f[i - 1]]
  <2>1. ASSUME NEW i \in 1..N
        PROVE  f[i] = IF i \in expired THEN Expire(f[i - 1], p.sent[i]) ELSE f[i - 1]
    <3>1. i - 1 \in 0..N
      BY <1>1
    <3>2. <<f[i - 1], i>> \in S \X (1..N)
      <4> HIDE DEF S, N
      <4> QED BY <3>1
    <3>3. f[i] = step[<<f[i - 1], i>>]
      BY <1>4
    <3> HIDE DEF S, N
    <3> QED BY <3>2, <3>3
  <2>2. ASSUME NEW i \in 0..N
        PROVE  f[i] = IF i = 0 THEN p.outgoing
                      ELSE IF i \in expired THEN Expire(f[i - 1], p.sent[i])
                      ELSE f[i - 1]
    <3>1. i = 0 \/ i \in 1..N
      BY <1>1
    <3> QED BY <1>4, <2>1, <3>1
  <2> HIDE DEF step, S, N
  <2> QED BY <2>2
<1>6. PICK g : /\ g = Expirations(p, expired)
               /\ g = [i \in 0..N |-> IF i = 0 THEN p.outgoing
                          ELSE IF i \in expired THEN Expire(g[i - 1], p.sent[i])
                          ELSE g[i - 1]]
  <2> HIDE DEF step, S
  <2> QED BY <1>5 DEF Expirations
<1>7. g[0] \in S
  BY <1>1, <1>6
<1>8. ASSUME NEW i \in 1..N, g[i - 1] \in S PROVE g[i] \in S
  <2>1. i \in 0..N /\ i # 0
    BY <1>1
  <2>2. g[i] = IF i \in expired THEN Expire(g[i - 1], p.sent[i]) ELSE g[i - 1]
    <3> HIDE DEF S, N
    <3> QED BY <1>6, <2>1
  <2> QED BY <1>2, <1>8, <2>2
<1>9. g[N] \in S
  <2>1. \A i \in 0..N : g[i] \in S
    <3> HIDE DEF S, N
    <3> QED BY <1>1, <1>7, <1>8, BoundedInduction
  <2> QED BY <1>1, <2>1
<1> QED BY <1>6, <1>9

LEMMA TimeoutLemma ==
    ASSUME NEW n \in Nat, NEW p \in Peer(n), NEW expired
    PROVE  LET q == Timeout(p, expired) IN q \in Peer(n) /\ q.state = p.state
<1>1. PICK o \in Seq(Control(n)) : o = Expirations(p, expired)[Len(p.sent)]
  BY PeerFields, ExpirationsLemma
<1>2. PICK q : q = [p EXCEPT !.outgoing = o]
  OBVIOUS
<1>3. q \in Peer(n) /\ q.state = p.state
  BY <1>2 DEF Peer
<1> QED BY <1>1, <1>2, <1>3 DEF Timeout

LEMMA LoadLemma ==
    ASSUME NEW n \in Nat, NEW p \in Peer(n)
    PROVE  LET q == LoadReliableCommands(p) IN q \in Peer(n) /\ q.state = p.state
<1>1. PICK s \in Seq(Control(n)) : s = p.sent \o p.outgoing
  <2>1. PICK a \in Seq(Control(n)), b \in Seq(Control(n)) : a = p.sent /\ b = p.outgoing
    BY PeerFields
  <2>2. a \o b \in Seq(Control(n))
    OBVIOUS
  <2> QED BY <2>1, <2>2
<1>2. PICK o \in Seq(Control(n)) : o = <<>>
  BY EmptySequence
<1>3. PICK q : q = [p EXCEPT !.sent = s, !.outgoing = o]
  OBVIOUS
<1>4. q \in Peer(n) /\ q.state = p.state
  BY <1>3 DEF Peer
<1> QED BY <1>1, <1>2, <1>3, <1>4 DEF LoadReliableCommands

LEMMA SetupConnectedLemma ==
    ASSUME NEW n \in Nat, NEW p \in Peer(n), NEW s \in Nat, NEW from \in HOSTS,
           NEW c \in Control(n), c.type = "CONNECT"
    PROVE  LET q == SetupConnectedPeer(p, s, from, c)
           IN  q \in Peer(n) /\ q.state = "ACKNOWLEDGING_CONNECT"
<1>1. PICK id \in 0..n, slot \in Nat, st \in States :
         /\ id = c.connect_id /\ slot = c.outgoing_peer_id /\ id # 0
         /\ st = "ACKNOWLEDGING_CONNECT"
  BY ControlFields DEF States
<1>2. PICK r : r = [p EXCEPT !.state = st, !.address = from, !.connect_id = id,
                             !.outgoing_peer_id = slot]
  OBVIOUS
<1>3. r \in Peer(n) /\ r.state = st
  BY <1>1, <1>2 DEF Peer
<1>4. SetupConnectedPeer(p, s, from, c) =
         QueueOutgoingCommand(r, "VERIFY_CONNECT", id, s)
  BY <1>1, <1>2 DEF SetupConnectedPeer, Answering
<1>5. "VERIFY_CONNECT" \in Types
  BY DEF Types
<1>6. PICK q : q = QueueOutgoingCommand(r, "VERIFY_CONNECT", id, s)
  OBVIOUS
<1>7. q \in Peer(n) /\ q.state = r.state
  BY <1>3, <1>5, <1>6, QueueLemma
<1> QED BY <1>1, <1>3, <1>4, <1>6, <1>7

-----------------------------------------------------------------------------
(* Hosts.                                                                  *)

LEMMA SlotsLemma ==
    ASSUME NEW h \in HOSTS
    PROVE  /\ PEER_COUNT[h] \in Nat /\ Slots(h) = 1..PEER_COUNT[h] /\ Slots(h) \subseteq Nat
           /\ IsFiniteSet(Slots(h)) /\ Cardinality(Slots(h)) = PEER_COUNT[h]
           /\ Nobody \notin Slots(h)
<1>1. PEER_COUNT[h] \in Nat
  BY LifecycleAssumption
<1>2. Slots(h) = 1..PEER_COUNT[h] /\ Slots(h) \subseteq Nat /\ Nobody \notin Slots(h)
  BY DEF Slots, Nobody
<1>3. IsFiniteSet(1..PEER_COUNT[h]) /\ Cardinality(1..PEER_COUNT[h]) = PEER_COUNT[h]
  <2>1. PICK k \in Nat : k = PEER_COUNT[h]
    BY <1>1
  <2>2. 1 \in Int /\ k \in Int
    OBVIOUS
  <2>3. IsFiniteSet(1..k) /\ Cardinality(1..k) = IF 1 > k THEN 0 ELSE k - 1 + 1
    BY <2>2, FS_Interval
  <2> QED BY <2>1, <2>3
<1> QED BY <1>1, <1>2, <1>3

LEMMA HostFields ==
    ASSUME NEW h, NEW n \in Nat, NEW host \in Host(h, n)
    PROVE  /\ host.peers \in [Slots(h) -> Peer(n)] /\ host.queue \in Seq(Slots(h))
           /\ host.connected \in Int
  BY DEF Host

LEMMA CountedLemma ==
    ASSUME NEW h \in HOSTS, NEW host
    PROVE  /\ CountedSlots(h, host) \subseteq Slots(h)
           /\ IsFiniteSet(CountedSlots(h, host))
           /\ Cardinality(CountedSlots(h, host)) \in Nat
           /\ Cardinality(CountedSlots(h, host)) <= PEER_COUNT[h]
<1>1. CountedSlots(h, host) \subseteq Slots(h)
  BY DEF CountedSlots
<1>2. IsFiniteSet(CountedSlots(h, host))
  BY <1>1, SlotsLemma, FS_Subset
<1>3. Cardinality(CountedSlots(h, host)) <= Cardinality(Slots(h))
  BY <1>1, SlotsLemma, FS_Subset
<1> QED BY <1>1, <1>2, <1>3, SlotsLemma, FS_CardinalityType

\* A host whose parts are replaced is one.
LEMMA HostUpdate ==
    ASSUME NEW h, NEW n \in Nat, NEW ps \in [Slots(h) -> Peer(n)],
           NEW qu \in Seq(Slots(h)), NEW k \in Int
    PROVE  LET q == [peers |-> ps, queue |-> qu, connected |-> k]
           IN  q \in Host(h, n) /\ q.peers = ps /\ q.queue = qu /\ q.connected = k
  BY DEF Host

\* Which slots are counted after the state of one has changed.
LEMMA OneSlot ==
    ASSUME NEW h \in HOSTS, NEW n \in Nat, NEW host \in Host(h, n), NEW s \in Slots(h),
           NEW p \in Peer(n), NEW q \in Host(h, n), q.peers = [host.peers EXCEPT ![s] = p]
    PROVE  /\ CountedSlots(h, q) = IF p.state \in CountedStates
                                   THEN CountedSlots(h, host) \cup {s}
                                   ELSE CountedSlots(h, host) \ {s}
           /\ q.peers[s] = p
           /\ Cardinality(CountedSlots(h, q)) = Cardinality(CountedSlots(h, host)) +
                 (IF p.state \in CountedStates
                  THEN IF Counted(host, s) THEN 0 ELSE 1
                  ELSE IF Counted(host, s) THEN 0 - 1 ELSE 0)
<1> DEFINE C == CountedSlots(h, host)
           D == CountedSlots(h, q)
<1>1. q.peers[s] = p /\ \A t \in Slots(h) : t # s => q.peers[t] = host.peers[t]
  BY HostFields
<1>2. s \in C <=> Counted(host, s)
  BY DEF CountedSlots
<1>3. D = IF p.state \in CountedStates THEN C \cup {s} ELSE C \ {s}
  BY <1>1 DEF CountedSlots, Counted
<1>4. IsFiniteSet(C) /\ Cardinality(C) \in Nat
  BY CountedLemma
<1> HIDE DEF C, D
<1>5. CASE p.state \in CountedStates /\ s \in C
  BY <1>1, <1>2, <1>3, <1>4, <1>5 DEF C, D
<1>6. CASE p.state \in CountedStates /\ s \notin C
  <2>1. D = C \cup {s} /\ Cardinality(D) = Cardinality(C) + 1
    BY <1>3, <1>4, <1>6, FS_AddElement
  <2> QED BY <1>1, <1>2, <1>6, <2>1 DEF C, D
<1>7. CASE p.state \notin CountedStates /\ s \in C
  <2>1. D = C \ {s} /\ Cardinality(D) = Cardinality(C) - 1
    BY <1>3, <1>4, <1>7, FS_RemoveElement
  <2> QED BY <1>1, <1>2, <1>4, <1>7, <2>1 DEF C, D
<1>8. CASE p.state \notin CountedStates /\ s \notin C
  <2>1. D = C \ {s} /\ C \ {s} = C
    BY <1>3, <1>8
  <2>2. Cardinality(D) = Cardinality(C) + 0
    BY <1>4, <2>1
  <2> QED BY <1>1, <1>2, <1>8, <2>1, <2>2 DEF C, D
<1> QED BY <1>5, <1>6, <1>7, <1>8

\* The host q is host with p in the slot s, whatever its queue and its counter.
Puts(host, q, s, p) == q.peers = [host.peers EXCEPT ![s] = p]

\* Two peers that differ in their states, and in needs_dispatch_, at most.
OnlyState(p, q) ==
    /\ q.address = p.address /\ q.connect_id = p.connect_id
    /\ q.outgoing_peer_id = p.outgoing_peer_id /\ q.number = p.number
    /\ q.outgoing = p.outgoing /\ q.sent = p.sent
    /\ q.acknowledgements = p.acknowledgements

\* A peer is replaced by one that counts as much.
LEMMA UpdateLemma ==
    ASSUME NEW h \in HOSTS, NEW n \in Nat, NEW x \in Nat, NEW host \in Tallied(h, n, x),
           NEW s \in Slots(h), NEW p \in Peer(n),
           p.state \in CountedStates <=> Counted(host, s)
    PROVE  LET q == UpdatePeer(host, s, p)
           IN  q \in Tallied(h, n, x) /\ q.peers[s] = p /\ Puts(host, q, s, p)
<1>1. /\ host \in Host(h, n) /\ Ahead(h, host, x)
      /\ host.peers \in [Slots(h) -> Peer(n)] /\ host.queue \in Seq(Slots(h))
      /\ host.connected \in Int
  BY HostFields DEF Tallied
<1>2. PICK ps \in [Slots(h) -> Peer(n)] : ps = [host.peers EXCEPT ![s] = p]
  BY <1>1
<1>3. PICK q : q = [peers |-> ps, queue |-> host.queue, connected |-> host.connected]
  OBVIOUS
<1>4. UpdatePeer(host, s, p) = q
  BY <1>1, <1>2, <1>3 DEF UpdatePeer, Host
<1>5. q \in Host(h, n) /\ q.peers = ps /\ q.connected = host.connected
  BY <1>1, <1>3, HostUpdate
<1>6. /\ Cardinality(CountedSlots(h, q)) = Cardinality(CountedSlots(h, host))
      /\ q.peers[s] = p
  BY <1>1, <1>2, <1>5, OneSlot, CountedLemma
<1>7. Ahead(h, q, x)
  BY <1>1, <1>5, <1>6 DEF Ahead
<1> QED BY <1>2, <1>4, <1>5, <1>6, <1>7 DEF Tallied, Puts

\* A peer is replaced by any other and the counter follows.
Recounted(host, s, p) ==
    host.connected + (IF p.state \in CountedStates
                      THEN IF Counted(host, s) THEN 0 ELSE 1
                      ELSE IF Counted(host, s) THEN 0 - 1 ELSE 0)

Replaced(host, s, p, queue) ==
    [peers |-> [host.peers EXCEPT ![s] = p], queue |-> queue,
     connected |-> Recounted(host, s, p)]

LEMMA RecountLemma ==
    ASSUME NEW h \in HOSTS, NEW n \in Nat, NEW x \in Nat, NEW host \in Tallied(h, n, x),
           NEW s \in Slots(h), NEW p \in Peer(n), NEW qu \in Seq(Slots(h))
    PROVE  /\ Replaced(host, s, p, qu) \in Tallied(h, n, x)
           /\ Replaced(host, s, p, qu).peers = [host.peers EXCEPT ![s] = p]
           /\ Replaced(host, s, p, qu).peers[s] = p
<1> DEFINE q == Replaced(host, s, p, qu)
<1>1. /\ host \in Host(h, n) /\ Ahead(h, host, x)
      /\ host.peers \in [Slots(h) -> Peer(n)] /\ host.connected \in Int
  BY HostFields DEF Tallied
<1>2. PICK ps \in [Slots(h) -> Peer(n)] : ps = [host.peers EXCEPT ![s] = p]
  BY <1>1
<1>3. PICK k \in Int : k = Recounted(host, s, p)
  BY <1>1 DEF Recounted
<1>4. q = [peers |-> ps, queue |-> qu, connected |-> k]
  BY <1>2, <1>3 DEF Replaced
<1> HIDE DEF q
<1>5. q \in Host(h, n) /\ q.peers = ps /\ q.connected = k
  BY <1>4, HostUpdate
<1>6. /\ q.peers[s] = p
      /\ Cardinality(CountedSlots(h, q)) = Cardinality(CountedSlots(h, host)) +
            (IF p.state \in CountedStates
             THEN IF Counted(host, s) THEN 0 ELSE 1
             ELSE IF Counted(host, s) THEN 0 - 1 ELSE 0)
  BY <1>1, <1>2, <1>5, OneSlot
<1>7. Ahead(h, q, x)
  BY <1>1, <1>3, <1>5, <1>6, CountedLemma DEF Ahead, Recounted
<1> QED BY <1>2, <1>5, <1>6, <1>7 DEF Tallied, q

LEMMA StateOfRecord ==
    ASSUME NEW ps, NEW qu, NEW k, NEW s \in DOMAIN ps, NEW st, NEW p,
           p = [ps[s] EXCEPT !.state = st]
    PROVE  [[peers |-> ps, queue |-> qu, connected |-> k] EXCEPT !.peers[s].state = st]
              = [peers |-> [ps EXCEPT ![s] = p], queue |-> qu, connected |-> k]
  OBVIOUS

LEMMA ChangeStateLemma ==
    ASSUME NEW h \in HOSTS, NEW n \in Nat, NEW x \in Nat, NEW host \in Tallied(h, n, x),
           NEW s \in Slots(h), NEW st \in States, st # "DISCONNECTED",
           host.peers[s].state # "DISCONNECTED"
    PROVE  LET q == ChangeState(host, s, st)
           IN  /\ q \in Tallied(h, n, x) /\ q.peers[s].state = st
               /\ \E p \in Peer(n) : /\ p.state = st /\ OnlyState(host.peers[s], p)
                                    /\ Puts(host, q, s, p)
<1>1. /\ host \in Host(h, n) /\ host.peers \in [Slots(h) -> Peer(n)]
      /\ host.queue \in Seq(Slots(h)) /\ host.connected \in Int
      /\ host.peers[s] \in Peer(n)
  BY HostFields DEF Tallied
<1>2. PICK p \in Peer(n) : p = [host.peers[s] EXCEPT !.state = st] /\ p.state = st
  <2>1. PICK o \in Peer(n) : o = host.peers[s] /\ o.state # "DISCONNECTED"
    BY <1>1
  <2> QED BY <2>1, StateUpdate
<1>3. PICK q : q = Replaced(host, s, p, host.queue)
  OBVIOUS
<1>4. ASSUME NEW k
      PROVE  [[peers |-> host.peers, queue |-> host.queue, connected |-> k]
                 EXCEPT !.peers[s].state = st]
                = [peers |-> [host.peers EXCEPT ![s] = p], queue |-> host.queue, connected |-> k]
  <2>1. PICK ps, qu : ps = host.peers /\ qu = host.queue
    OBVIOUS
  <2>2. s \in DOMAIN ps /\ p = [ps[s] EXCEPT !.state = st]
    BY <1>1, <1>2, <2>1
  <2>3. [[peers |-> ps, queue |-> qu, connected |-> k] EXCEPT !.peers[s].state = st]
           = [peers |-> [ps EXCEPT ![s] = p], queue |-> qu, connected |-> k]
    BY <2>2, StateOfRecord
  <2> QED BY <2>1, <2>3
<1>5. ChangeState(host, s, st) = q
  <2>1. CASE st \in CountedStates
    <3>1. ChangeState(host, s, st) = [MergePeer(host, s) EXCEPT !.peers[s].state = st]
      BY <2>1 DEF ChangeState
    <3>2. MergePeer(host, s) = [peers |-> host.peers, queue |-> host.queue,
                                connected |-> Recounted(host, s, p)]
      BY <1>1, <1>2, <2>1 DEF MergePeer, Recounted, Host
    <3> QED BY <1>3, <1>4, <3>1, <3>2 DEF Replaced
  <2>2. CASE st \notin CountedStates
    <3>1. ChangeState(host, s, st) = [PurgePeer(host, s) EXCEPT !.peers[s].state = st]
      BY <2>2 DEF ChangeState
    <3>2. PurgePeer(host, s) = [peers |-> host.peers, queue |-> host.queue,
                                connected |-> Recounted(host, s, p)]
      BY <1>1, <1>2, <2>2 DEF PurgePeer, Recounted, Host
    <3> QED BY <1>3, <1>4, <3>1, <3>2 DEF Replaced
  <2> QED BY <2>1, <2>2
<1>6. q \in Tallied(h, n, x) /\ q.peers = [host.peers EXCEPT ![s] = p] /\ q.peers[s] = p
  BY <1>1, <1>3, RecountLemma
<1>7. OnlyState(host.peers[s], p)
  BY <1>1, <1>2 DEF OnlyState, Peer
<1> QED BY <1>2, <1>5, <1>6, <1>7 DEF Puts

LEMMA DispatchStateLemma ==
    ASSUME NEW h \in HOSTS, NEW n \in Nat, NEW x \in Nat, NEW host \in Tallied(h, n, x),
           NEW s \in Slots(h), NEW st \in States, st # "DISCONNECTED",
           host.peers[s].state # "DISCONNECTED"
    PROVE  LET q == DispatchState(host, s, st)
           IN  /\ q \in Tallied(h, n, x) /\ q.peers[s].state = st
               /\ \E p \in Peer(n) : /\ p.state = st /\ OnlyState(host.peers[s], p)
                                    /\ Puts(host, q, s, p)
<1>1. PICK r : r = ChangeState(host, s, st)
  OBVIOUS
<1>4. /\ r \in Tallied(h, n, x) /\ r.peers[s].state = st
      /\ \E p \in Peer(n) : /\ p.state = st /\ OnlyState(host.peers[s], p)
                           /\ Puts(host, r, s, p)
  BY <1>1, ChangeStateLemma
<1>2. CASE host.peers[s].needs_dispatch
  BY <1>1, <1>2, <1>4 DEF DispatchState
<1>5. PICK a \in Peer(n) : /\ a.state = st /\ OnlyState(host.peers[s], a)
                          /\ r.peers = [host.peers EXCEPT ![s] = a]
  BY <1>4 DEF Puts
<1>6. host.peers \in [Slots(h) -> Peer(n)]
  BY HostFields DEF Tallied
<1>7. r.peers[s] = a
  BY <1>5, <1>6
<1>3. CASE ~host.peers[s].needs_dispatch
  <2>1. /\ r \in Host(h, n) /\ r.peers \in [Slots(h) -> Peer(n)]
        /\ r.queue \in Seq(Slots(h)) /\ r.connected \in Int /\ r.peers[s] \in Peer(n)
    BY <1>4, HostFields DEF Tallied
  <2>2. PICK p \in Peer(n) : /\ p = [r.peers[s] EXCEPT !.needs_dispatch = TRUE]
                            /\ p.state = st /\ OnlyState(host.peers[s], p)
    <3>2. PICK p : p = [a EXCEPT !.needs_dispatch = TRUE]
      OBVIOUS
    <3>3. p \in Peer(n) /\ p.state = st
      BY <1>5, <3>2 DEF Peer
    <3>4. OnlyState(host.peers[s], p)
      BY <1>5, <3>2 DEF OnlyState, Peer
    <3> QED BY <1>7, <3>2, <3>3, <3>4
  <2>4. PICK qu \in Seq(Slots(h)) : qu = Append(r.queue, s)
    <3>1. PICK o \in Seq(Slots(h)) : o = r.queue
      BY <2>1
    <3>2. Append(o, s) \in Seq(Slots(h))
      OBVIOUS
    <3> QED BY <3>1, <3>2
  <2>5. Recounted(r, s, p) = r.connected
    BY <1>4, <2>1, <2>2 DEF Recounted, Counted
  <2>6. PICK q : q = Replaced(r, s, p, qu)
    OBVIOUS
  <2>7. DispatchState(host, s, st) = q
    <3>1. DispatchState(host, s, st) =
             [r EXCEPT !.peers[s].needs_dispatch = TRUE, !.queue = Append(@, s)]
      BY <1>1, <1>3 DEF DispatchState
    <3>2. r = [peers |-> r.peers, queue |-> r.queue, connected |-> r.connected]
      BY <2>1 DEF Host
    <3> QED BY <2>1, <2>2, <2>4, <2>5, <2>6, <3>1, <3>2, ZenonT(30) DEF Replaced
  <2>8. q \in Tallied(h, n, x) /\ q.peers = [r.peers EXCEPT ![s] = p] /\ q.peers[s] = p
    BY <1>4, <2>6, RecountLemma
  <2>9. q.peers = [host.peers EXCEPT ![s] = p]
    BY <1>5, <1>6, <2>8
  <2> QED BY <2>2, <2>7, <2>8, <2>9 DEF Puts
<1> QED BY <1>2, <1>3

\* A peer that asks the other end to close.
Leaving(p) == QueueOutgoingCommand(ResetPeerQueues(p), "DISCONNECT", 0, Nobody)

LEMMA DisconnectConnectedLemma ==
    ASSUME NEW h \in HOSTS, NEW n \in Nat, NEW x \in Nat, NEW host \in Tallied(h, n, x),
           NEW s \in Slots(h), host.peers[s].state # "DISCONNECTED"
    PROVE  LET q == DisconnectConnected(host, s)
           IN  /\ q \in Tallied(h, n, x) /\ q.peers[s].state = "DISCONNECTING"
               /\ \E p \in Peer(n) : /\ p.state = "DISCONNECTING" /\ OnlyState(Leaving(host.peers[s]), p)
                                    /\ Puts(host, q, s, p)
<1>1. /\ host \in Host(h, n) /\ host.peers \in [Slots(h) -> Peer(n)]
      /\ host.queue \in Seq(Slots(h)) /\ host.connected \in Int
      /\ host.peers[s] \in Peer(n)
  BY HostFields DEF Tallied
<1>2. PICK a \in Peer(n) : a = ResetPeerQueues(host.peers[s])
                           /\ a.state = host.peers[s].state
  BY <1>1, ResetQueuesLemma
<1>3. "DISCONNECT" \in Types /\ 0 \in 0..n /\ Nobody \in Nat
  BY DEF Types, Nobody
<1>4. PICK b \in Peer(n) : b = QueueOutgoingCommand(a, "DISCONNECT", 0, Nobody)
                           /\ b.state = a.state
  BY <1>3, QueueLemma
<1>5. "DISCONNECTING" \in States
  BY DEF States
<1>6. PICK p \in Peer(n) : p = [b EXCEPT !.state = "DISCONNECTING"]
                           /\ p.state = "DISCONNECTING"
  BY <1>2, <1>4, <1>5, StateUpdate
<1>7. PICK q : q = Replaced(host, s, p, host.queue)
  OBVIOUS
<1>8. p.state \notin CountedStates
  BY <1>6 DEF CountedStates
<1>9. PurgePeer(host, s) = [peers |-> host.peers, queue |-> host.queue,
                            connected |-> Recounted(host, s, p)]
  BY <1>1, <1>8 DEF PurgePeer, Recounted, Host
<1>10. DisconnectConnected(host, s) = UpdatePeer(PurgePeer(host, s), s, p)
  BY <1>2, <1>4, <1>6 DEF DisconnectConnected
<1>11. DisconnectConnected(host, s) = q
  BY <1>7, <1>9, <1>10 DEF UpdatePeer, Replaced
<1>12. /\ q \in Tallied(h, n, x) /\ q.peers = [host.peers EXCEPT ![s] = p]
       /\ q.peers[s] = p
  BY <1>1, <1>7, RecountLemma
<1>13. OnlyState(Leaving(host.peers[s]), p)
  <2>1. OnlyState(b, p)
    BY <1>4, <1>6 DEF OnlyState, Peer
  <2> QED BY <1>2, <1>4, <2>1 DEF Leaving
<1> QED BY <1>6, <1>11, <1>12, <1>13 DEF Puts

-----------------------------------------------------------------------------
(* The walk over the commands of a datagram.                               *)

Tidings(n) == [type : {"NONE", "CONNECT", "DISCONNECT", "RECEIVE_ACK"}, connect_id : 0..n]

Walk(h, n, x) == [host : Tallied(h, n, x), slot : Slots(h) \cup {Nobody},
                  event : Tidings(n), over : BOOLEAN]

\* The walk has found its peer.
HasPeer(h, walk) == walk.slot \in Slots(h)

LEMMA WalkFields ==
    ASSUME NEW h \in HOSTS, NEW n \in Nat, NEW x \in Nat, NEW walk \in Walk(h, n, x)
    PROVE  /\ walk.host \in Tallied(h, n, x) /\ walk.host \in Host(h, n)
           /\ walk.event \in Tidings(n) /\ walk.over \in BOOLEAN
           /\ walk.slot \in Slots(h) \cup {Nobody}
           /\ HasPeer(h, walk) <=> walk.slot # Nobody
           /\ HasPeer(h, walk) => PeerOf(walk) \in Peer(n)
           /\ PeerOf(walk) = walk.host.peers[walk.slot]
<1>1. /\ walk.host \in Tallied(h, n, x) /\ walk.host \in Host(h, n)
      /\ walk.event \in Tidings(n) /\ walk.over \in BOOLEAN
      /\ walk.slot \in Slots(h) \cup {Nobody}
  BY DEF Walk, Tallied
<1>2. HasPeer(h, walk) <=> walk.slot # Nobody
  BY <1>1, SlotsLemma DEF HasPeer
<1>3. HasPeer(h, walk) => PeerOf(walk) \in Peer(n)
  BY <1>1, HostFields DEF HasPeer, PeerOf
<1>4. PeerOf(walk) = walk.host.peers[walk.slot]
  BY DEF PeerOf
<1> QED BY <1>1, <1>2, <1>3, <1>4

\* The walk goes on with another host, and perhaps ends.
LEMMA WalkUpdate ==
    ASSUME NEW h, NEW n \in Nat, NEW x \in Nat, NEW walk \in Walk(h, n, x),
           NEW host \in Tallied(h, n, x), NEW over \in BOOLEAN, NEW event \in Tidings(n),
           NEW q, q = [walk EXCEPT !.host = host, !.event = event, !.over = over]
    PROVE  q \in Walk(h, n, x) /\ q.host = host /\ q.slot = walk.slot
  BY DEF Walk

LEMMA TellsLemma ==
    ASSUME NEW h \in HOSTS, NEW n \in Nat, NEW x \in Nat, NEW walk \in Walk(h, n, x),
           HasPeer(h, walk), NEW type \in {"CONNECT", "DISCONNECT", "RECEIVE_ACK"}
    PROVE  LET q == Tells(walk, type)
           IN  q \in Walk(h, n, x) /\ q.host = walk.host /\ q.slot = walk.slot
<1>1. PICK id \in 0..n : id = PeerOf(walk).connect_id
  BY WalkFields, PeerFields
<1>2. PICK e : e = [type |-> type, connect_id |-> id]
  OBVIOUS
<1>3. e \in Tidings(n)
  BY <1>2 DEF Tidings
<1>4. PICK q : q = [walk EXCEPT !.event = e]
  OBVIOUS
<1>5. q \in Walk(h, n, x) /\ q.host = walk.host /\ q.slot = walk.slot
  BY <1>3, <1>4 DEF Walk
<1> QED BY <1>1, <1>2, <1>4, <1>5 DEF Tells

LEMMA AcknowledgementsLemma ==
    ASSUME NEW n \in Nat, NEW p \in Peer(n), NEW a \in Seq(Answers)
    PROVE  \E q \in Peer(n) : q = [p EXCEPT !.acknowledgements = a] /\ q.state = p.state
<1>1. PICK q : q = [p EXCEPT !.acknowledgements = a]
  OBVIOUS
<1>2. q \in Peer(n) /\ q.state = p.state
  BY <1>1 DEF Peer
<1> QED BY <1>1, <1>2

LEMMA QueueAcknowledgementLemma ==
    ASSUME NEW h \in HOSTS, NEW n \in Nat, NEW x \in Nat, NEW walk \in Walk(h, n, x),
           HasPeer(h, walk), NEW c \in Control(n)
    PROVE  QueueAcknowledgement(walk, c) \in Walk(h, n, x)
<1> DEFINE e == [rsn |-> c.rsn, type |-> c.type]
           q == [walk EXCEPT !.host.peers[walk.slot].acknowledgements = Append(@, e)]
<1>1. QueueAcknowledgement(walk, c) \in {walk, q}
  BY DEF QueueAcknowledgement
<1>2. e \in Answers
  BY ControlFields DEF Answers
<1>3. PICK host \in Tallied(h, n, x), s \in Slots(h), p \in Peer(n) :
         host = walk.host /\ s = walk.slot /\ p = host.peers[s]
  BY WalkFields, SlotsLemma DEF HasPeer
<1>4. PICK a : a = Append(p.acknowledgements, e)
  OBVIOUS
<1>5. a \in Seq(Answers)
  BY <1>2, <1>4, PeerFields
<1>6. PICK o \in Peer(n) : o = [p EXCEPT !.acknowledgements = a] /\ o.state = p.state
  BY <1>5, AcknowledgementsLemma
<1>7. PICK m : m = UpdatePeer(host, s, o)
  OBVIOUS
<1>11. o.state \in CountedStates <=> Counted(host, s)
  BY <1>3, <1>6 DEF Counted
<1>8. m \in Tallied(h, n, x)
  BY <1>7, <1>11, UpdateLemma
<1>9. q = [walk EXCEPT !.host = m]
  BY <1>3, <1>4, <1>6, <1>7 DEF UpdatePeer
<1>10. q \in Walk(h, n, x)
  <2> HIDE DEF q
  <2> QED BY <1>8, <1>9 DEF Walk
<1> QED BY <1>1, <1>10

LEMMA NotifyConnectLemma ==
    ASSUME NEW h \in HOSTS, NEW n \in Nat, NEW x \in Nat, NEW walk \in Walk(h, n, x),
           HasPeer(h, walk), PeerOf(walk).state # "DISCONNECTED"
    PROVE  NotifyConnect(walk) \in Walk(h, n, x) /\ NotifyConnect(walk).slot = walk.slot
<1>1. PICK host \in Tallied(h, n, x), s \in Slots(h) :
         host = walk.host /\ s = walk.slot /\ host.peers[s].state # "DISCONNECTED"
  BY WalkFields DEF HasPeer
<1>2. "CONNECTED" \in States
  BY DEF States
<1>3. PICK m : m = ChangeState(host, s, "CONNECTED")
  OBVIOUS
<1>4. m \in Tallied(h, n, x)
  BY <1>1, <1>2, <1>3, ChangeStateLemma
<1>5. PICK v : v = [walk EXCEPT !.host = m]
  OBVIOUS
<1>6. v \in Walk(h, n, x) /\ v.slot = walk.slot
  BY <1>4, <1>5 DEF Walk
<1>7. HasPeer(h, v) /\ "CONNECT" \in {"CONNECT", "DISCONNECT", "RECEIVE_ACK"}
  BY <1>6 DEF HasPeer
<1>8. Tells(v, "CONNECT") \in Walk(h, n, x) /\ Tells(v, "CONNECT").slot = v.slot
  BY <1>6, <1>7, TellsLemma
<1> QED BY <1>1, <1>3, <1>5, <1>6, <1>8 DEF NotifyConnect

LEMMA NotifyDisconnectLemma ==
    ASSUME NEW h \in HOSTS, NEW n \in Nat, NEW x \in Nat, NEW walk \in Walk(h, n, x),
           HasPeer(h, walk), PeerOf(walk).state = "DISCONNECTING"
    PROVE  NotifyDisconnect(walk) \in Walk(h, n, x)
<1>1. PICK v : v = Tells(walk, "DISCONNECT")
  OBVIOUS
<1>2. v \in Walk(h, n, x) /\ v.host = walk.host /\ v.slot = walk.slot
  BY <1>1, TellsLemma
<1>3. PICK host \in Tallied(h, n, x), s \in Slots(h), p \in Peer(n) :
         /\ host = walk.host /\ s = walk.slot /\ p = host.peers[s] /\ p = PeerOf(walk)
         /\ p.state = "DISCONNECTING"
  BY WalkFields DEF HasPeer
<1>4. PICK o \in Peer(n) : o = Reset(p) /\ o.state = "DISCONNECTED"
  BY ResetLemma
<1>5. o.state \in CountedStates <=> Counted(host, s)
  BY <1>3, <1>4 DEF Counted, CountedStates
<1>6. PICK m : m = UpdatePeer(host, s, o)
  OBVIOUS
<1>7. m \in Tallied(h, n, x)
  BY <1>5, <1>6, UpdateLemma
<1>8. PICK q : q = [v EXCEPT !.host = m]
  OBVIOUS
<1>9. q \in Walk(h, n, x)
  BY <1>2, <1>7, <1>8 DEF Walk
<1> QED BY <1>1, <1>2, <1>3, <1>4, <1>6, <1>8, <1>9 DEF NotifyDisconnect

\* What HandleAcknowledge has done before it looks at the state of the peer.
LEMMA RemovedFromWalk ==
    ASSUME NEW h \in HOSTS, NEW n \in Nat, NEW x \in Nat, NEW walk \in Walk(h, n, x),
           HasPeer(h, walk), NEW rsn
    PROVE  LET q == [Tells(walk, "RECEIVE_ACK") EXCEPT
                        !.host = UpdatePeer(@, walk.slot,
                                            RemoveSentReliableCommand(PeerOf(walk), rsn))]
           IN  /\ q \in Walk(h, n, x) /\ q.slot = walk.slot
               /\ PeerOf(q).state = PeerOf(walk).state
<1>1. PICK v : v = Tells(walk, "RECEIVE_ACK")
  OBVIOUS
<1>2. v \in Walk(h, n, x) /\ v.host = walk.host /\ v.slot = walk.slot
  BY <1>1, TellsLemma
<1>3. PICK host \in Tallied(h, n, x), s \in Slots(h), p \in Peer(n) :
         host = walk.host /\ s = walk.slot /\ p = host.peers[s] /\ p = PeerOf(walk)
  BY WalkFields DEF HasPeer
<1>4. PICK o \in Peer(n) : o = RemoveSentReliableCommand(p, rsn) /\ o.state = p.state
  BY RemoveLemma
<1>5. o.state \in CountedStates <=> Counted(host, s)
  BY <1>3, <1>4 DEF Counted
<1>6. PICK m : m = UpdatePeer(host, s, o)
  OBVIOUS
<1>7. m \in Tallied(h, n, x) /\ m.peers[s] = o
  BY <1>5, <1>6, UpdateLemma
<1>8. PICK q : q = [v EXCEPT !.host = m]
  OBVIOUS
<1>9. q \in Walk(h, n, x) /\ q.host = m /\ q.slot = walk.slot
  BY <1>2, <1>7, <1>8 DEF Walk
<1>10. PeerOf(q).state = PeerOf(walk).state
  BY <1>3, <1>4, <1>7, <1>9 DEF PeerOf
<1> QED BY <1>1, <1>2, <1>3, <1>4, <1>6, <1>8, <1>9, <1>10

LEMMA HandleAcknowledgeLemma ==
    ASSUME NEW h \in HOSTS, NEW n \in Nat, NEW x \in Nat, NEW walk \in Walk(h, n, x),
           HasPeer(h, walk), NEW c \in Control(n)
    PROVE  HandleAcknowledge(walk, c) \in Walk(h, n, x)
<1>1. PICK removed : removed =
         [Tells(walk, "RECEIVE_ACK") EXCEPT
             !.host = UpdatePeer(@, walk.slot,
                                 RemoveSentReliableCommand(PeerOf(walk), c.rsn))]
  OBVIOUS
<1>2. /\ removed \in Walk(h, n, x) /\ removed.slot = walk.slot
      /\ PeerOf(removed).state = PeerOf(walk).state
  BY <1>1, RemovedFromWalk
<1>3. HasPeer(h, removed)
  BY <1>2 DEF HasPeer
<1>4. Tells(walk, "RECEIVE_ACK") \in Walk(h, n, x)
  BY TellsLemma
<1>5. [removed EXCEPT !.over = TRUE] \in Walk(h, n, x)
  BY <1>2 DEF Walk
<1>6. ASSUME PeerOf(walk).state = "ACKNOWLEDGING_CONNECT"
      PROVE  NotifyConnect(removed) \in Walk(h, n, x)
  <2>1. PeerOf(removed).state # "DISCONNECTED"
    BY <1>2, <1>6
  <2> QED BY <1>2, <1>3, <2>1, NotifyConnectLemma
<1>7. ASSUME PeerOf(walk).state = "DISCONNECTING"
      PROVE  NotifyDisconnect(removed) \in Walk(h, n, x)
  BY <1>2, <1>3, <1>7, NotifyDisconnectLemma
<1>8. ASSUME PeerOf(walk).state = "DISCONNECT_LATER"
      PROVE  [removed EXCEPT !.host = DisconnectConnected(@, walk.slot)] \in Walk(h, n, x)
  <2>1. PICK host \in Tallied(h, n, x), s \in Slots(h) :
           /\ host = removed.host /\ s = walk.slot /\ host.peers[s].state # "DISCONNECTED"
    BY <1>2, <1>3, <1>8, WalkFields DEF HasPeer
  <2>2. PICK m : m = DisconnectConnected(host, s)
    OBVIOUS
  <2>3. m \in Tallied(h, n, x)
    BY <2>1, <2>2, DisconnectConnectedLemma
  <2>4. PICK q : q = [removed EXCEPT !.host = m]
    OBVIOUS
  <2>5. q \in Walk(h, n, x)
    BY <1>2, <2>3, <2>4 DEF Walk
  <2> QED BY <2>1, <2>2, <2>4, <2>5
<1>9. \/ HandleAcknowledge(walk, c) = Tells(walk, "RECEIVE_ACK")
      \/ HandleAcknowledge(walk, c) = [removed EXCEPT !.over = TRUE]
      \/ /\ PeerOf(walk).state = "ACKNOWLEDGING_CONNECT"
         /\ HandleAcknowledge(walk, c) = NotifyConnect(removed)
      \/ /\ PeerOf(walk).state = "DISCONNECTING"
         /\ HandleAcknowledge(walk, c) = NotifyDisconnect(removed)
      \/ /\ PeerOf(walk).state = "DISCONNECT_LATER"
         /\ HandleAcknowledge(walk, c) =
               [removed EXCEPT !.host = DisconnectConnected(@, walk.slot)]
      \/ HandleAcknowledge(walk, c) = removed
  BY <1>1 DEF HandleAcknowledge
<1> QED BY <1>2, <1>4, <1>5, <1>6, <1>7, <1>8, <1>9

LEMMA HandleConnectLemma ==
    ASSUME NEW h \in HOSTS, NEW n \in Nat, NEW x \in Nat, NEW walk \in Walk(h, n, x),
           NEW from \in HOSTS, NEW c \in Control(n), c.type = "CONNECT"
    PROVE  HandleConnect(walk, h, from, c) \in Walk(h, n, x)
<1> DEFINE peers    == walk.host.peers
           Same(t)  == /\ peers[t].state = "CONNECTING" /\ peers[t].address = from
                       /\ peers[t].connect_id = c.connect_id
           settling == {t \in Slots(h) : peers[t].state = "DISCONNECTED" \/ Same(t)}
           slot     == Min(settling)
           q == [walk EXCEPT !.slot = slot,
                             !.host = UpdatePeer(@, slot,
                                 SetupConnectedPeer(peers[slot], slot, from, c))]
<1>1. CASE walk.slot # Nobody \/ settling = {} \/ (settling # {} /\ Same(slot))
  <2>1. HandleConnect(walk, h, from, c) = [walk EXCEPT !.over = TRUE]
    BY <1>1 DEF HandleConnect
  <2> QED BY <2>1 DEF Walk
<1>2. CASE ~(walk.slot # Nobody \/ settling = {} \/ (settling # {} /\ Same(slot)))
  <2>1. HandleConnect(walk, h, from, c) = q
    BY <1>2 DEF HandleConnect
  <2>2. settling \in SUBSET Nat /\ settling # {}
    BY <1>2, SlotsLemma
  <2>3. slot \in settling /\ ~Same(slot)
    <3>1. ~Same(slot)
      BY <1>2
    <3>2. slot \in settling
      <4> HIDE DEF settling
      <4> QED BY <2>2, MinOfSet
    <3> QED BY <3>1, <3>2
  <2>4. slot \in Slots(h) /\ slot \in Nat /\ peers[slot].state = "DISCONNECTED"
    <3> HIDE DEF slot
    <3> QED BY <2>3, SlotsLemma
  <2>5. PICK s \in Slots(h) : s = slot /\ s \in Nat
    BY <2>4
  <2>6. PICK host \in Tallied(h, n, x), p \in Peer(n) :
           host = walk.host /\ p = host.peers[s] /\ p.state = "DISCONNECTED"
    <3>1. walk.host \in Tallied(h, n, x) /\ peers[s] \in Peer(n)
      BY WalkFields, HostFields
    <3> QED BY <2>4, <2>5, <3>1
  <2>7. PICK o : o = SetupConnectedPeer(p, s, from, c)
    OBVIOUS
  <2>8. o \in Peer(n) /\ o.state = "ACKNOWLEDGING_CONNECT"
    BY <2>5, <2>7, SetupConnectedLemma
  <2>9. o.state \in CountedStates <=> Counted(host, s)
    BY <2>6, <2>8 DEF Counted, CountedStates
  <2>10. PICK m : m = UpdatePeer(host, s, o)
    OBVIOUS
  <2>11. m \in Tallied(h, n, x)
    BY <2>8, <2>9, <2>10, UpdateLemma
  <2>12. q = [walk EXCEPT !.slot = s, !.host = m]
    BY <2>5, <2>6, <2>7, <2>10
  <2>13. q \in Walk(h, n, x)
    <3> HIDE DEF q
    <3> QED BY <2>11, <2>12 DEF Walk
  <2> QED BY <2>1, <2>13
<1> QED BY <1>1, <1>2

LEMMA HandleVerifyConnectLemma ==
    ASSUME NEW h \in HOSTS, NEW n \in Nat, NEW x \in Nat, NEW walk \in Walk(h, n, x),
           HasPeer(h, walk), NEW c \in Control(n)
    PROVE  LET q == HandleVerifyConnect(walk, c)
           IN  q \in Walk(h, n, x) /\ q.slot = walk.slot
<1>1. PICK host \in Tallied(h, n, x), s \in Slots(h), p \in Peer(n) :
         host = walk.host /\ s = walk.slot /\ p = host.peers[s] /\ p = PeerOf(walk)
  BY WalkFields DEF HasPeer
<1>2. CASE p.state # "CONNECTING"
  <2>1. HandleVerifyConnect(walk, c) = walk
    BY <1>1, <1>2 DEF HandleVerifyConnect
  <2> QED BY <2>1
<1>3. CASE p.state = "CONNECTING" /\ c.connect_id # p.connect_id
  <2>1. PICK m : m = DispatchState(host, s, "ZOMBIE")
    OBVIOUS
  <2>2. "ZOMBIE" \in States /\ host.peers[s].state # "DISCONNECTED"
    BY <1>1, <1>3 DEF States
  <2>3. m \in Tallied(h, n, x)
    BY <2>1, <2>2, DispatchStateLemma
  <2>4. PICK q : q = [walk EXCEPT !.host = m, !.over = TRUE]
    OBVIOUS
  <2>5. q \in Walk(h, n, x) /\ q.slot = walk.slot
    BY <2>3, <2>4 DEF Walk
  <2>6. HandleVerifyConnect(walk, c) = q
    BY <1>1, <1>3, <2>1, <2>4 DEF HandleVerifyConnect
  <2> QED BY <2>5, <2>6
<1>4. CASE p.state = "CONNECTING" /\ c.connect_id = p.connect_id
  <2>1. PICK r \in Peer(n) : r = RemoveSentReliableCommand(p, 1) /\ r.state = p.state
    BY RemoveLemma
  <2>2. PICK k \in Nat : k = c.outgoing_peer_id
    BY ControlFields
  <2>3. PICK o : o = [r EXCEPT !.outgoing_peer_id = k]
    OBVIOUS
  <2>4. o \in Peer(n) /\ o.state = p.state
    BY <2>1, <2>3 DEF Peer
  <2>5. o.state \in CountedStates <=> Counted(host, s)
    BY <1>1, <2>4 DEF Counted
  <2>6. PICK m : m = UpdatePeer(host, s, o)
    OBVIOUS
  <2>7. m \in Tallied(h, n, x) /\ m.peers[s] = o
    BY <2>4, <2>5, <2>6, UpdateLemma
  <2>8. PICK v : v = [walk EXCEPT !.host = m]
    OBVIOUS
  <2>9. v \in Walk(h, n, x) /\ v.host = m /\ v.slot = walk.slot
    BY <2>7, <2>8 DEF Walk
  <2>10. HasPeer(h, v) /\ PeerOf(v).state # "DISCONNECTED"
    BY <1>1, <1>4, <2>4, <2>7, <2>9 DEF HasPeer, PeerOf
  <2>11. NotifyConnect(v) \in Walk(h, n, x) /\ NotifyConnect(v).slot = v.slot
    BY <2>9, <2>10, NotifyConnectLemma
  <2>12. HandleVerifyConnect(walk, c) = NotifyConnect(v)
    BY <1>1, <1>4, <2>1, <2>2, <2>3, <2>6, <2>8 DEF HandleVerifyConnect
  <2> QED BY <2>9, <2>11, <2>12
<1> QED BY <1>2, <1>3, <1>4

LEMMA HandleDisconnectLemma ==
    ASSUME NEW h \in HOSTS, NEW n \in Nat, NEW x \in Nat, NEW walk \in Walk(h, n, x),
           HasPeer(h, walk), NEW c \in Control(n)
    PROVE  LET q == HandleDisconnect(walk, c)
           IN  q \in Walk(h, n, x) /\ q.slot = walk.slot
<1>1. PICK host \in Tallied(h, n, x), s \in Slots(h), p \in Peer(n) :
         host = walk.host /\ s = walk.slot /\ p = host.peers[s] /\ p = PeerOf(walk)
  BY WalkFields DEF HasPeer
<1>2. PICK o \in Peer(n) : o = ResetPeerQueues(p) /\ o.state = p.state
  BY ResetQueuesLemma
<1>3. o.state \in CountedStates <=> Counted(host, s)
  BY <1>1, <1>2 DEF Counted
<1>4. PICK queues : queues = UpdatePeer(host, s, o)
  OBVIOUS
<1>5. queues \in Tallied(h, n, x) /\ queues.peers[s] = o
  BY <1>3, <1>4, UpdateLemma
<1>6. "ZOMBIE" \in States /\ "ACKNOWLEDGING_DISCONNECT" \in States
  BY DEF States
<1>7. ASSUME p.state # "DISCONNECTED"
      PROVE  /\ DispatchState(queues, s, "ZOMBIE") \in Tallied(h, n, x)
             /\ ChangeState(queues, s, "ACKNOWLEDGING_DISCONNECT") \in Tallied(h, n, x)
  <2>1. queues.peers[s].state # "DISCONNECTED"
    BY <1>2, <1>5, <1>7
  <2>2. DispatchState(queues, s, "ZOMBIE") \in Tallied(h, n, x)
    BY <1>5, <1>6, <2>1, DispatchStateLemma
  <2>3. ChangeState(queues, s, "ACKNOWLEDGING_DISCONNECT") \in Tallied(h, n, x)
    BY <1>5, <1>6, <2>1, ChangeStateLemma
  <2> QED BY <2>2, <2>3
<1>8. ASSUME p.state = "ACKNOWLEDGING_CONNECT"
      PROVE  UpdatePeer(queues, s, Reset(o)) \in Tallied(h, n, x)
  <2>1. PICK r \in Peer(n) : r = Reset(o) /\ r.state = "DISCONNECTED"
    BY ResetLemma
  <2>2. r.state \in CountedStates <=> Counted(queues, s)
    BY <1>2, <1>5, <1>8, <2>1 DEF Counted, CountedStates
  <2>3. UpdatePeer(queues, s, r) \in Tallied(h, n, x)
    BY <1>5, <2>2, UpdateLemma
  <2> QED BY <2>1, <2>3
<1>9. PICK m : HandleDisconnect(walk, c) = [walk EXCEPT !.host = m] /\
         \/ p.state # "DISCONNECTED" /\ m = DispatchState(queues, s, "ZOMBIE")
         \/ /\ p.state = "ACKNOWLEDGING_CONNECT"
            /\ m = UpdatePeer(queues, s, Reset(o))
         \/ /\ p.state # "DISCONNECTED"
            /\ m = ChangeState(queues, s, "ACKNOWLEDGING_DISCONNECT")
         \/ m = walk.host
  BY <1>1, <1>2, <1>4, <1>5 DEF HandleDisconnect, Counted, CountedStates
<1>10. m \in Tallied(h, n, x)
  BY <1>1, <1>7, <1>8, <1>9
<1>11. [walk EXCEPT !.host = m] \in Walk(h, n, x) /\ [walk EXCEPT !.host = m].slot = walk.slot
  BY <1>10 DEF Walk
<1> QED BY <1>9, <1>11

LEMMA HandleCommandLemma ==
    ASSUME NEW h \in HOSTS, NEW n \in Nat, NEW x \in Nat, NEW walk \in Walk(h, n, x),
           NEW from \in HOSTS, NEW c \in Control(n)
    PROVE  HandleCommand(walk, h, from, c) \in Walk(h, n, x)
<1>1. [walk EXCEPT !.over = TRUE] \in Walk(h, n, x)
  BY DEF Walk
<1>2. walk.slot # Nobody <=> HasPeer(h, walk)
  BY WalkFields
<1>3. ASSUME c.type = "CONNECT" PROVE HandleConnect(walk, h, from, c) \in Walk(h, n, x)
  BY <1>3, HandleConnectLemma
<1>4. ASSUME HasPeer(h, walk)
      PROVE  /\ HandleAcknowledge(walk, c) \in Walk(h, n, x)
             /\ QueueAcknowledgement(walk, c) \in Walk(h, n, x)
  BY <1>4, HandleAcknowledgeLemma, QueueAcknowledgementLemma
<1>5. ASSUME HasPeer(h, walk)
      PROVE  QueueAcknowledgement(HandleVerifyConnect(walk, c), c) \in Walk(h, n, x)
  <2>1. PICK v : v = HandleVerifyConnect(walk, c)
    OBVIOUS
  <2>2. v \in Walk(h, n, x) /\ v.slot = walk.slot
    BY <1>5, <2>1, HandleVerifyConnectLemma
  <2>3. HasPeer(h, v)
    BY <1>5, <2>2 DEF HasPeer
  <2> QED BY <2>1, <2>2, <2>3, QueueAcknowledgementLemma
<1>6. ASSUME HasPeer(h, walk)
      PROVE  QueueAcknowledgement(HandleDisconnect(walk, c), c) \in Walk(h, n, x)
  <2>1. PICK v : v = HandleDisconnect(walk, c)
    OBVIOUS
  <2>2. v \in Walk(h, n, x) /\ v.slot = walk.slot
    BY <1>6, <2>1, HandleDisconnectLemma
  <2>3. HasPeer(h, v)
    BY <1>6, <2>2 DEF HasPeer
  <2> QED BY <2>1, <2>2, <2>3, QueueAcknowledgementLemma
<1> QED BY <1>1, <1>2, <1>3, <1>4, <1>5, <1>6 DEF HandleCommand

LEMMA DatagramFields ==
    ASSUME NEW n \in Nat, NEW d \in Datagrams(n)
    PROVE  /\ d.from \in HOSTS /\ d.slot \in Nat /\ d.commands \in Seq(Control(n))
           /\ Len(d.commands) \in Nat /\ \A i \in 1..Len(d.commands) : d.commands[i] \in Control(n)
<1>1. d.from \in HOSTS /\ d.slot \in Nat /\ d.commands \in Seq(Control(n))
  BY DEF Datagrams
<1> QED BY <1>1

\* The walk takes the commands of the datagram one by one.
LEMMA WalksLemma ==
    ASSUME NEW h \in HOSTS, NEW n \in Nat, NEW x \in Nat, hosts[h] \in Tallied(h, n, x),
           NEW d \in Datagrams(n), d.slot \in Slots(h) \cup {Nobody}
    PROVE  LET w == Walks(h, d)
           IN  /\ w[0] = Arrived(h, d)
               /\ \A i \in 0..Len(d.commands) : w[i] \in Walk(h, n, x)
               /\ \A i \in 1..Len(d.commands) :
                     w[i] = HandleCommand(w[i - 1], h, d.from, d.commands[i])
<1> DEFINE S == Walk(h, n, x)
           N == Len(d.commands)
           step == [v \in S \X (1..N) |-> HandleCommand(v[1], h, d.from, d.commands[v[2]])]
<1>1. N \in Nat /\ \A i \in 1..N : d.commands[i] \in Control(n)
  BY DatagramFields
<1>2. ASSUME NEW w \in S, NEW i \in 1..N
      PROVE  HandleCommand(w, h, d.from, d.commands[i]) \in S
  <2>1. d.from \in HOSTS /\ d.commands[i] \in Control(n)
    BY <1>1, DatagramFields
  <2> QED BY <2>1, HandleCommandLemma
<1>3. step \in Steps(S, N)
  <2>1. ASSUME NEW v \in S \X (1..N) PROVE step[v] \in S
    <3>1. v[1] \in S /\ v[2] \in 1..N
      OBVIOUS
    <3> HIDE DEF S, N
    <3> QED BY <1>2, <3>1
  <2> HIDE DEF S, N
  <2> QED BY <2>1 DEF Steps
<1>4. PICK a \in S : a = Arrived(h, d)
  <2>1. NoEvent \in Tidings(n)
    BY DEF NoEvent, Tidings
  <2>2. Arrived(h, d) \in S
    BY <2>1 DEF Arrived, Walk
  <2> QED BY <2>2
<1>5. PICK f : Recursion(f, N, S, a, step)
  <2> HIDE DEF step, S, N
  <2> QED BY <1>1, <1>3, RecursionExists
<1>6. f = [i \in 0..N |-> IF i = 0 THEN Arrived(h, d)
                          ELSE HandleCommand(f[i - 1], h, d.from, d.commands[i])]
  <2>1. f \in [0..N -> S] /\ f[0] = a /\ \A i \in 1..N : f[i] = step[<<f[i - 1], i>>]
    <3> HIDE DEF step, S, N
    <3> QED BY <1>5 DEF Recursion
  <2>2. ASSUME NEW i \in 1..N
        PROVE  f[i] = HandleCommand(f[i - 1], h, d.from, d.commands[i])
    <3>1. i - 1 \in 0..N
      BY <1>1
    <3>2. <<f[i - 1], i>> \in S \X (1..N)
      <4> HIDE DEF S, N
      <4> QED BY <2>1, <3>1
    <3>3. f[i] = step[<<f[i - 1], i>>]
      BY <2>1
    <3> HIDE DEF S, N
    <3> QED BY <3>2, <3>3
  <2>3. ASSUME NEW i \in 0..N
        PROVE  f[i] = IF i = 0 THEN Arrived(h, d)
                      ELSE HandleCommand(f[i - 1], h, d.from, d.commands[i])
    <3>1. i = 0 \/ i \in 1..N
      BY <1>1
    <3> QED BY <1>4, <2>1, <2>2, <3>1
  <2> HIDE DEF step, S, N
  <2> QED BY <2>1, <2>3
<1>7. PICK g : /\ g = Walks(h, d)
               /\ g = [i \in 0..N |-> IF i = 0 THEN Arrived(h, d)
                          ELSE HandleCommand(g[i - 1], h, d.from, d.commands[i])]
  <2> HIDE DEF step, S
  <2> QED BY <1>6 DEF Walks
<1>8. g[0] \in S
  BY <1>1, <1>4, <1>7
<1>9. ASSUME NEW i \in 1..N
      PROVE  g[i] = HandleCommand(g[i - 1], h, d.from, d.commands[i])
  <2>1. i \in 0..N /\ i # 0
    BY <1>1
  <2> HIDE DEF S, N
  <2> QED BY <1>7, <2>1
<1>10. ASSUME NEW i \in 1..N, g[i - 1] \in S PROVE g[i] \in S
  BY <1>2, <1>9, <1>10
<1>11. \A i \in 0..N : g[i] \in S
  <2> HIDE DEF S, N
  <2> QED BY <1>1, <1>8, <1>10, BoundedInduction
<1>12. g[0] = Arrived(h, d)
  BY <1>1, <1>7
<1> QED BY <1>7, <1>9, <1>11, <1>12

\* PeerPod::ReceiveIncomingCommands, whatever the datagram carries.
LEMMA ReceivedLemma ==
    ASSUME NEW h \in HOSTS, NEW n \in Nat, NEW x \in Nat, hosts[h] \in Tallied(h, n, x),
           NEW d \in Datagrams(n), d.slot \in Slots(h) \cup {Nobody}
    PROVE  Received(h, d) \in Walk(h, n, x) /\ Received(h, d).host \in Tallied(h, n, x)
<1>1. PICK k \in Nat : k = Len(d.commands) /\ k \in 0..k
  BY DatagramFields
<1>2. PICK w : w = Walks(h, d)
  OBVIOUS
<1>3. w[k] \in Walk(h, n, x)
  BY <1>1, <1>2, WalksLemma
<1>4. Received(h, d) \in Walk(h, n, x)
  BY <1>1, <1>2, <1>3 DEF Received
<1> QED BY <1>4 DEF Walk

-----------------------------------------------------------------------------
(* The network.                                                            *)

LEMMA BagLemma ==
    ASSUME NEW B, NEW e
    PROVE  /\ DOMAIN (B (+) SetToBag({e})) = DOMAIN B \cup {e}
           /\ DOMAIN (B (-) SetToBag({e})) \subseteq DOMAIN B
  BY DEF (+), (-), SetToBag

\* What was asked for earlier is no less so later.
LEMMA Monotone ==
    ASSUME NEW n \in Nat
    PROVE  /\ Datagrams(n) \subseteq Datagrams(n + 1)
           /\ Peer(n) \subseteq Peer(n + 1)
           /\ \A h \in HOSTS, x \in Nat : Tallied(h, n, x) \subseteq Tallied(h, n + 1, x)
<1>1. Control(n) \subseteq Control(n + 1)
  BY DEF Control
<1>2. Seq(Control(n)) \subseteq Seq(Control(n + 1))
  BY <1>1
<1>3. Datagrams(n) \subseteq Datagrams(n + 1)
  BY <1>2 DEF Datagrams
<1>4. Peer(n) \subseteq Peer(n + 1)
  <2>1. 0..n \subseteq 0..(n + 1)
    OBVIOUS
  <2> QED BY <1>2, <2>1 DEF Peer
<1>5. ASSUME NEW h \in HOSTS PROVE Host(h, n) \subseteq Host(h, n + 1)
  BY <1>4 DEF Host
<1> QED BY <1>3, <1>4, <1>5 DEF Tallied

-----------------------------------------------------------------------------
(* The steps.                                                              *)

\* A host is replaced.
LEMMA HostStep ==
    ASSUME Inv, NEW h \in HOSTS, NEW x \in Nat, NEW m \in Tallied(h, Len(connects), x),
           "now" \notin Ways[h] => x = 0,
           hosts' = [hosts EXCEPT ![h] = m], connects' = connects,
           DOMAIN network' \subseteq Datagrams(Len(connects))
    PROVE  Inv'
<1>1. /\ connects \in Seq(HOSTS) /\ DOMAIN hosts = HOSTS
      /\ \A g \in HOSTS : \E y \in Nat :
            /\ hosts[g] \in Tallied(g, Len(connects), y)
            /\ "now" \notin Ways[g] => y = 0
  BY DEF Inv
<1>2. DOMAIN hosts' = HOSTS
  BY <1>1
<1>3. ASSUME NEW g \in HOSTS
      PROVE  \E y \in Nat : /\ hosts'[g] \in Tallied(g, Len(connects), y)
                            /\ "now" \notin Ways[g] => y = 0
  <2>1. CASE g = h
    <3>1. hosts'[g] = m
      BY <1>1, <2>1
    <3> QED BY <2>1, <3>1
  <2>2. CASE g # h
    <3>1. hosts'[g] = hosts[g]
      BY <1>1, <2>2
    <3> QED BY <1>1, <3>1
  <2> QED BY <2>1, <2>2
<1> QED BY <1>1, <1>2, <1>3 DEF Inv

LEMMA SendAcknowledgementsLemma ==
    ASSUME NEW h \in HOSTS, NEW n \in Nat, NEW x \in Nat, NEW host \in Tallied(h, n, x),
           NEW s \in Slots(h), host.peers[s].state # "DISCONNECTED"
    PROVE  SendAcknowledgements(host, s) \in Tallied(h, n, x)
<1>1. PICK p \in Peer(n) : p = host.peers[s]
  BY HostFields DEF Tallied
<1>2. PICK a \in Seq(Answers) : a = <<>>
  BY EmptySequence
<1>3. PICK o \in Peer(n) : o = [p EXCEPT !.acknowledgements = a] /\ o.state = p.state
  BY AcknowledgementsLemma
<1>4. o.state \in CountedStates <=> Counted(host, s)
  BY <1>1, <1>3 DEF Counted
<1>5. PICK sent : sent = UpdatePeer(host, s, o)
  OBVIOUS
<1>6. sent \in Tallied(h, n, x) /\ sent.peers[s] = o
  BY <1>4, <1>5, UpdateLemma
<1>7. "ZOMBIE" \in States /\ sent.peers[s].state # "DISCONNECTED"
  BY <1>1, <1>3, <1>6 DEF States
<1>8. DispatchState(sent, s, "ZOMBIE") \in Tallied(h, n, x)
  BY <1>6, <1>7, DispatchStateLemma
<1> QED BY <1>1, <1>2, <1>3, <1>5, <1>6, <1>8 DEF SendAcknowledgements

LEMMA SendOutgoingInv ==
    ASSUME Inv, NEW h \in HOSTS, NEW s \in Slots(h),
           NEW expired, NEW ping \in BOOLEAN, SendOutgoingCommands(h, s, expired, ping)
    PROVE  Inv'
<1> DEFINE n == Len(connects)
<1>1. /\ n \in Nat /\ connects' = connects
      /\ DOMAIN network \subseteq Datagrams(n) /\ DOMAIN hosts = HOSTS
  <2>1. connects' = connects
    BY DEF SendOutgoingCommands
  <2> QED BY <2>1 DEF Inv
<1>2. PICK x \in Nat : hosts[h] \in Tallied(h, n, x) /\ ("now" \notin Ways[h] => x = 0)
  BY DEF Inv
<1> HIDE DEF n
<1>3. PICK host \in Tallied(h, n, x), p \in Peer(n) :
         host = hosts[h] /\ p = host.peers[s] /\ p.state # "DISCONNECTED"
  <2>1. hosts[h].peers[s] \in Peer(n)
    BY <1>1, <1>2, HostFields DEF Tallied
  <2> QED BY <1>2, <2>1 DEF SendOutgoingCommands, Sendable
<1>4. PICK answered : answered = SendAcknowledgements(host, s)
  OBVIOUS
<1>5. answered \in Tallied(h, n, x)
  BY <1>1, <1>3, <1>4, SendAcknowledgementsLemma
<1>6. PICK a \in Peer(n) : a = answered.peers[s]
  BY <1>1, <1>5, HostFields DEF Tallied
<1>7. PICK timed : timed = Timeout(a, expired)
  OBVIOUS
<1>8. timed \in Peer(n) /\ timed.state = a.state
  BY <1>1, <1>7, TimeoutLemma
<1>9. PICK queued \in Peer(n) :
         /\ queued = IF ping THEN QueueOutgoingCommand(timed, "PING", 0, Nobody) ELSE timed
         /\ queued.state = timed.state
  <2>1. PICK q : q = QueueOutgoingCommand(timed, "PING", 0, Nobody)
    OBVIOUS
  <2>2. "PING" \in Types /\ 0 \in 0..n /\ Nobody \in Nat
    BY <1>1 DEF Types, Nobody
  <2>3. q \in Peer(n) /\ q.state = timed.state
    BY SMTT(30), <1>1, <1>8, <2>1, <2>2, QueueLemma
  <2> QED BY <1>8, <2>1, <2>3
<1>10. PICK loaded : loaded = LoadReliableCommands(queued)
  OBVIOUS
<1>11. loaded \in Peer(n) /\ loaded.state = a.state
  BY <1>1, <1>8, <1>9, <1>10, LoadLemma
<1>12. PICK m : m = UpdatePeer(answered, s, loaded)
  OBVIOUS
<1>13. m \in Tallied(h, n, x)
  <2>1. loaded.state \in CountedStates <=> Counted(answered, s)
    BY <1>6, <1>11 DEF Counted
  <2> QED BY <1>1, <1>5, <1>11, <1>12, <2>1, UpdateLemma
<1>14. PICK acks : acks = [i \in DOMAIN p.acknowledgements |-> Acknowledge(p.acknowledgements[i].rsn)]
  OBVIOUS
<1>15. acks \in Seq(Control(n))
  <2>1. PICK k \in Nat : DOMAIN p.acknowledgements = 1..k
    BY <1>1, PeerFields
  <2>2. ASSUME NEW i \in 1..k PROVE Acknowledge(p.acknowledgements[i].rsn) \in Control(n)
    <3>1. p.acknowledgements[i] \in Answers
      BY <1>1, <2>1, PeerFields
    <3>2. p.acknowledgements[i].rsn \in Nat
      BY <3>1 DEF Answers
    <3> QED BY <1>1, <3>2 DEF Acknowledge, Control, Types, Nobody
  <2> QED BY <1>14, <2>1, <2>2
<1>16. PICK d : d = Datagram(h, p, acks \o queued.outgoing)
  OBVIOUS
<1>17. d \in Datagrams(n)
  <2>1. PICK c \in Seq(Control(n)) : c = acks \o queued.outgoing
    <3>1. PICK o \in Seq(Control(n)) : o = queued.outgoing
      BY <1>1, PeerFields
    <3>2. acks \o o \in Seq(Control(n))
      BY <1>15
    <3> QED BY <3>1, <3>2
  <2>2. p.address \in HOSTS \cup {Nowhere} /\ p.outgoing_peer_id \in Nat
    BY <1>1, PeerFields
  <2> QED BY <1>16, <2>1, <2>2 DEF Datagram, Datagrams
<1>18. hosts' = [hosts EXCEPT ![h] = m] /\ network' = network (+) SetToBag({d})
  BY <1>3, <1>4, <1>6, <1>7, <1>9, <1>10, <1>12, <1>14, <1>16 DEF SendOutgoingCommands
<1>19. DOMAIN network' \subseteq Datagrams(n)
  <2>1. PICK B : B = network (+) SetToBag({d})
    OBVIOUS
  <2>2. DOMAIN B = DOMAIN network \cup {d}
    BY <2>1, BagLemma
  <2> QED BY <1>1, <1>17, <1>18, <2>1, <2>2
<1> QED BY <1>1, <1>2, <1>13, <1>18, <1>19, HostStep DEF n

\* A peer that is reset behind the counter's back puts it ahead by one.
LEMMA BehindTheCounter ==
    ASSUME NEW h \in HOSTS, NEW n \in Nat, NEW x \in Nat, NEW host \in Tallied(h, n, x),
           NEW s \in Slots(h), NEW p \in Peer(n), p.state = "DISCONNECTED"
    PROVE  \E y \in Nat : UpdatePeer(host, s, p) \in Tallied(h, n, y)
<1>1. /\ host \in Host(h, n) /\ Ahead(h, host, x)
      /\ host.peers \in [Slots(h) -> Peer(n)] /\ host.queue \in Seq(Slots(h))
      /\ host.connected \in Int
  BY HostFields DEF Tallied
<1>2. PICK ps \in [Slots(h) -> Peer(n)] : ps = [host.peers EXCEPT ![s] = p]
  BY <1>1
<1>3. PICK q : q = [peers |-> ps, queue |-> host.queue, connected |-> host.connected]
  OBVIOUS
<1>4. UpdatePeer(host, s, p) = q
  BY <1>1, <1>2, <1>3 DEF UpdatePeer, Host
<1>5. q \in Host(h, n) /\ q.peers = ps /\ q.connected = host.connected
  BY <1>1, <1>3, HostUpdate
<1>6. Cardinality(CountedSlots(h, q)) = Cardinality(CountedSlots(h, host)) +
         (IF p.state \in CountedStates
          THEN IF Counted(host, s) THEN 0 ELSE 1
          ELSE IF Counted(host, s) THEN 0 - 1 ELSE 0)
  BY <1>1, <1>2, <1>5, OneSlot
<1>7. PICK y \in Nat : Ahead(h, q, y)
  <2>1. p.state \notin CountedStates
    BY DEF CountedStates
  <2>2. CASE Counted(host, s)
    <3>1. Ahead(h, q, x + 1)
      BY <1>1, <1>5, <1>6, <2>1, <2>2, CountedLemma DEF Ahead
    <3> QED BY <3>1
  <2>3. CASE ~Counted(host, s)
    <3>1. Ahead(h, q, x)
      BY <1>1, <1>5, <1>6, <2>1, <2>3, CountedLemma DEF Ahead
    <3> QED BY <3>1
  <2> QED BY <2>2, <2>3
<1> QED BY <1>4, <1>5, <1>7 DEF Tallied

LEMMA FlushedLemma ==
    ASSUME NEW h \in HOSTS, NEW s, NEW n \in Nat, NEW p \in Peer(n),
           NEW B, DOMAIN B \subseteq Datagrams(n)
    PROVE  DOMAIN (B (+) Flushed(h, s, p)) \subseteq Datagrams(n)
<1>1. PICK c \in Control(n) : c = Command(p, "DISCONNECT", 0, Nobody, FALSE)
  <2>1. "DISCONNECT" \in Types /\ 0 \in 0..n /\ Nobody \in Nat
    BY DEF Types, Nobody
  <2> QED BY <2>1, CommandLemma
<1>2. PICK d : d = Datagram(h, p, <<c>>)
  OBVIOUS
<1>3. d \in Datagrams(n)
  BY <1>2, PeerFields DEF Datagram, Datagrams
<1>4. Flushed(h, s, p) = SetToBag({d})
  BY <1>1, <1>2 DEF Flushed
<1>5. PICK C : C = B (+) SetToBag({d})
  OBVIOUS
<1>6. DOMAIN C = DOMAIN B \cup {d}
  BY <1>5, BagLemma
<1> QED BY <1>3, <1>4, <1>5, <1>6

LEMMA DisconnectLaterInv ==
    ASSUME Inv, NEW h \in HOSTS, NEW s \in Slots(h), DisconnectLater(h, s)
    PROVE  Inv'
<1> DEFINE n == Len(connects)
<1>1. /\ n \in Nat /\ connects' = connects
      /\ DOMAIN network \subseteq Datagrams(n) /\ DOMAIN hosts = HOSTS
  BY DEF Inv, DisconnectLater, Asks, bounds
<1>2. PICK x \in Nat : hosts[h] \in Tallied(h, n, x) /\ ("now" \notin Ways[h] => x = 0)
  BY DEF Inv
<1> HIDE DEF n
<1>3. PICK host \in Tallied(h, n, x), p \in Peer(n) : host = hosts[h] /\ p = host.peers[s]
  <2>1. hosts[h].peers[s] \in Peer(n)
    BY <1>1, <1>2, HostFields DEF Tallied
  <2> QED BY <1>2, <2>1
<1>4. CASE /\ Counted(host, s)
           /\ hosts' = [hosts EXCEPT ![h].peers[s].state = "DISCONNECT_LATER"]
           /\ network' = network
  <2>1. "DISCONNECT_LATER" \in States /\ p.state # "DISCONNECTED"
    BY <1>3, <1>4 DEF States, Counted, CountedStates
  <2>2. PICK o \in Peer(n) : o = [p EXCEPT !.state = "DISCONNECT_LATER"]
                             /\ o.state = "DISCONNECT_LATER"
    BY <1>1, <2>1, StateUpdate
  <2>3. o.state \in CountedStates <=> Counted(host, s)
    BY <1>4, <2>2 DEF CountedStates
  <2>4. PICK m : m = UpdatePeer(host, s, o)
    OBVIOUS
  <2>5. m \in Tallied(h, n, x)
    BY <1>1, <2>3, <2>4, UpdateLemma
  <2>6. hosts' = [hosts EXCEPT ![h] = m]
    BY <1>3, <1>4, <2>2, <2>4 DEF UpdatePeer
  <2> QED BY <1>1, <1>2, <1>4, <2>5, <2>6, HostStep DEF n
<1>5. CASE /\ Counted(host, s)
           /\ hosts' = [hosts EXCEPT ![h] = DisconnectConnected(@, s)]
           /\ network' = network
  <2>1. host.peers[s].state # "DISCONNECTED"
    BY <1>5 DEF Counted, CountedStates
  <2>2. PICK m : m = DisconnectConnected(host, s)
    OBVIOUS
  <2>3. m \in Tallied(h, n, x)
    BY <1>1, <2>1, <2>2, DisconnectConnectedLemma
  <2>4. hosts' = [hosts EXCEPT ![h] = m]
    BY <1>3, <1>5, <2>2
  <2> QED BY <1>1, <1>2, <1>5, <2>3, <2>4, HostStep DEF n
<1>6. CASE p.state \in {"CONNECTING", "ACKNOWLEDGING_CONNECT"} /\ DisconnectAtOnce(h, s)
  <2>1. PICK q \in Peer(n) : q = ResetPeerQueues(p) /\ q.state = p.state
    BY <1>1, ResetQueuesLemma
  <2>2. PICK o \in Peer(n) : o = Reset(q) /\ o.state = "DISCONNECTED"
    BY <1>1, ResetLemma
  <2>3. o.state \in CountedStates <=> Counted(host, s)
    BY <1>3, <1>6, <2>2 DEF Counted, CountedStates
  <2>4. PICK m : m = UpdatePeer(host, s, o)
    OBVIOUS
  <2>5. m \in Tallied(h, n, x)
    BY <1>1, <2>3, <2>4, UpdateLemma
  <2>6. hosts' = [hosts EXCEPT ![h] = m] /\ network' = network (+) Flushed(h, s, q)
    BY <1>3, <1>6, <2>1, <2>2, <2>4 DEF DisconnectAtOnce
  <2>7. DOMAIN network' \subseteq Datagrams(n)
    BY <1>1, <2>6, FlushedLemma
  <2> QED BY <1>1, <1>2, <2>5, <2>6, <2>7, HostStep DEF n
<1> QED BY <1>3, <1>4, <1>5, <1>6 DEF DisconnectLater

LEMMA DisconnectNowInv ==
    ASSUME Inv, NEW h \in HOSTS, NEW s \in Slots(h), DisconnectNow(h, s)
    PROVE  Inv'
<1> DEFINE n == Len(connects)
<1>1. /\ n \in Nat /\ connects' = connects /\ "now" \in Ways[h]
      /\ DOMAIN network \subseteq Datagrams(n) /\ DOMAIN hosts = HOSTS
  BY DEF Inv, DisconnectNow, Asks, bounds
<1>2. PICK x \in Nat : hosts[h] \in Tallied(h, n, x)
  BY DEF Inv
<1> HIDE DEF n
<1>3. PICK host \in Tallied(h, n, x), p \in Peer(n) : host = hosts[h] /\ p = host.peers[s]
  <2>1. hosts[h].peers[s] \in Peer(n)
    BY <1>1, <1>2, HostFields DEF Tallied
  <2> QED BY <1>2, <2>1
<1>4. PICK q \in Peer(n) : q = ResetPeerQueues(p)
  BY <1>1, ResetQueuesLemma
<1>5. PICK o \in Peer(n) : o.state = "DISCONNECTED" /\
                           hosts' = [hosts EXCEPT ![h] = UpdatePeer(host, s, o)]
  <2>1. Reset(p) \in Peer(n) /\ Reset(p).state = "DISCONNECTED"
    BY <1>1, ResetLemma
  <2>2. Reset(q) \in Peer(n) /\ Reset(q).state = "DISCONNECTED"
    BY <1>1, ResetLemma
  <2> QED BY <1>3, <1>4, <2>1, <2>2 DEF DisconnectNow, DisconnectAtOnce
<1>6. DOMAIN network' \subseteq Datagrams(n)
  <2>1. DOMAIN (network (+) Flushed(h, s, q)) \subseteq Datagrams(n)
    BY <1>1, FlushedLemma
  <2> QED BY <1>1, <1>3, <1>4, <2>1 DEF DisconnectNow, DisconnectAtOnce
<1>7. PICK m : m = UpdatePeer(host, s, o)
  OBVIOUS
<1>8. PICK y \in Nat : m \in Tallied(h, n, y)
  BY <1>1, <1>5, <1>7, BehindTheCounter
<1> QED BY <1>1, <1>5, <1>6, <1>7, <1>8, HostStep DEF n

LEMMA ReceiveIncomingInv ==
    ASSUME Inv, NEW h \in HOSTS, NEW d \in DOMAIN network, ReceiveIncomingCommands(h, d),
           DOMAIN network' \subseteq DOMAIN network
    PROVE  Inv'
<1> DEFINE n == Len(connects)
<1>1. /\ n \in Nat /\ connects' = connects /\ d \in Datagrams(n)
      /\ DOMAIN network' \subseteq Datagrams(n) /\ DOMAIN hosts = HOSTS
  BY DEF Inv, ReceiveIncomingCommands
<1>2. PICK x \in Nat : hosts[h] \in Tallied(h, n, x) /\ ("now" \notin Ways[h] => x = 0)
  BY DEF Inv
<1> HIDE DEF n
<1>3. CASE d.slot = Nobody \/ EventOccur(h, d)
  <2>1. d.slot \in Slots(h) \cup {Nobody}
    BY <1>3 DEF EventOccur
  <2>2. PICK m : m = Received(h, d).host
    OBVIOUS
  <2>3. m \in Tallied(h, n, x)
    BY <1>1, <1>2, <2>1, <2>2, ReceivedLemma
  <2>4. hosts' = [hosts EXCEPT ![h] = m]
    BY <1>3, <2>2 DEF ReceiveIncomingCommands
  <2> QED BY <1>1, <1>2, <2>3, <2>4, HostStep DEF n
<1>4. CASE ~(d.slot = Nobody \/ EventOccur(h, d))
  <2>1. hosts' = hosts
    BY <1>4 DEF ReceiveIncomingCommands
  <2> QED BY <1>1, <2>1 DEF Inv, n
<1> QED BY <1>3, <1>4

\* The peer that is reported is reset, and the others lose a flag at most.
LEMMA AfterDispatch ==
    ASSUME NEW n \in Nat, NEW p \in Peer(n), NEW flag \in BOOLEAN
    PROVE  /\ \E q \in Peer(n) : q = [p EXCEPT !.needs_dispatch = flag] /\ q.state = p.state
           /\ \E q \in Peer(n) : q = ResetPeerQueues(Reset(p)) /\ q.state = "DISCONNECTED"
<1>1. PICK q : q = [p EXCEPT !.needs_dispatch = flag]
  OBVIOUS
<1>2. q \in Peer(n) /\ q.state = p.state
  BY <1>1 DEF Peer
<1>3. PICK r \in Peer(n) : r = Reset(p) /\ r.state = "DISCONNECTED"
  BY ResetLemma
<1>4. PICK o \in Peer(n) : o = ResetPeerQueues(r) /\ o.state = "DISCONNECTED"
  BY <1>3, ResetQueuesLemma
<1> QED BY <1>1, <1>2, <1>3, <1>4

LEMMA LastPlace ==
    ASSUME NEW S, NEW q \in Seq(S), q # <<>> PROVE Len(q) \in 1..Len(q)
  OBVIOUS

LEMMA DispatchInv ==
    ASSUME Inv, NEW h \in HOSTS, DispatchIncomingCommands(h)
    PROVE  Inv'
<1> DEFINE n       == Len(connects)
           host    == hosts[h]
           zombies == {i \in DOMAIN host.queue : host.peers[host.queue[i]].state = "ZOMBIE"}
           last    == IF zombies = {} THEN Len(host.queue) ELSE Min(zombies)
           taken   == ToSet(SubSeq(host.queue, 1, last))
           s       == host.queue[last]
           After(t) == IF zombies # {} /\ t = s
                       THEN ResetPeerQueues(Reset(host.peers[t]))
                       ELSE [host.peers[t] EXCEPT !.needs_dispatch = @ /\ t \notin taken]
           ps      == [t \in Slots(h) |-> After(t)]
           qu      == SubSeq(host.queue, last + 1, Len(host.queue))
<1>1. /\ n \in Nat /\ connects' = connects
      /\ DOMAIN network' \subseteq Datagrams(n) /\ DOMAIN hosts = HOSTS
  <2>1. UNCHANGED <<network, asked, bounds>>
    BY DEF DispatchIncomingCommands
  <2> QED BY <2>1 DEF Inv, bounds
<1>2. PICK x \in Nat : hosts[h] \in Tallied(h, n, x) /\ ("now" \notin Ways[h] => x = 0)
  BY DEF Inv
<1>3. /\ host.queue # <<>>
      /\ hosts' = [hosts EXCEPT ![h].queue = qu, ![h].peers = ps]
  BY DEF DispatchIncomingCommands
<1> HIDE DEF n
<1>4. /\ host \in Host(h, n) /\ Ahead(h, host, x)
      /\ host.peers \in [Slots(h) -> Peer(n)] /\ host.queue \in Seq(Slots(h))
      /\ host.connected \in Int
  BY <1>1, <1>2, HostFields DEF Tallied
<1>5. last \in 1..Len(host.queue)
  <2>1. CASE zombies = {}
    <3>1. last = Len(host.queue)
      BY <2>1
    <3> HIDE DEF last, zombies, host
    <3> QED BY <1>3, <1>4, <3>1, LastPlace
  <2>2. CASE zombies # {}
    <3>1. zombies \in SUBSET Nat /\ zombies \subseteq 1..Len(host.queue)
      BY <1>4
    <3>2. Min(zombies) \in zombies
      <4> HIDE DEF zombies
      <4> QED BY <2>2, <3>1, MinOfSet
    <3> QED BY <2>2, <3>1, <3>2
  <2> QED BY <2>1, <2>2
<1>6. zombies # {} => host.peers[s].state = "ZOMBIE"
  <2> SUFFICES ASSUME zombies # {} PROVE host.peers[s].state = "ZOMBIE"
    OBVIOUS
  <2>1. zombies \in SUBSET Nat
    BY <1>4
  <2>2. Min(zombies) \in zombies
    <3> HIDE DEF zombies
    <3> QED BY <2>1, MinOfSet
  <2>3. last = Min(zombies)
    OBVIOUS
  <2> HIDE DEF last
  <2> QED BY <2>2, <2>3
<1>7. qu \in Seq(Slots(h))
  <2>1. PICK q \in Seq(Slots(h)) : q = host.queue
    BY <1>4
  <2>2. PICK k \in 1..Len(q) : k = last
    BY <1>5, <2>1
  <2>3. SubSeq(q, k + 1, Len(q)) \in Seq(Slots(h))
    OBVIOUS
  <2> HIDE DEF last
  <2> QED BY <2>1, <2>2, <2>3
<1>8. ASSUME NEW t \in Slots(h)
      PROVE  /\ After(t) \in Peer(n)
             /\ After(t).state \in CountedStates <=> host.peers[t].state \in CountedStates
  <2>1. PICK p \in Peer(n) : p = host.peers[t]
    BY <1>4
  <2>2. PICK flag \in BOOLEAN : flag = (p.needs_dispatch /\ t \notin taken)
    <3> HIDE DEF taken
    <3> QED BY <1>1, PeerFields
  <2> HIDE DEF zombies, taken, s, last, host
  <2>3. CASE zombies # {} /\ t = s
    <3>1. After(t) \in Peer(n) /\ After(t).state = "DISCONNECTED"
      BY <1>1, <2>1, <2>3, AfterDispatch
    <3>2. p.state = "ZOMBIE"
      BY <1>6, <2>1, <2>3
    <3> QED BY <2>1, <3>1, <3>2 DEF CountedStates
  <2>4. CASE ~(zombies # {} /\ t = s)
    <3>1. After(t) = [p EXCEPT !.needs_dispatch = flag]
      BY <2>1, <2>2, <2>4
    <3>2. PICK q \in Peer(n) : q = [p EXCEPT !.needs_dispatch = flag] /\ q.state = p.state
      BY <1>1, AfterDispatch
    <3> QED BY <2>1, <3>1, <3>2
  <2> QED BY <2>3, <2>4
<1>9. ps \in [Slots(h) -> Peer(n)]
  <2> HIDE DEF After
  <2> QED BY <1>8
<1>10. PICK m : m = [peers |-> ps, queue |-> qu, connected |-> host.connected]
  OBVIOUS
<1>11. m \in Host(h, n) /\ m.peers = ps /\ m.connected = host.connected
  <2> HIDE DEF ps, qu, host
  <2> QED BY <1>1, <1>4, <1>7, <1>9, <1>10, HostUpdate
<1>12. CountedSlots(h, m) = CountedSlots(h, host)
  <2>1. \A t \in Slots(h) : m.peers[t] = After(t)
    <3> HIDE DEF After
    <3> QED BY <1>11
  <2> HIDE DEF After, ps, host
  <2> QED BY <1>8, <2>1 DEF CountedSlots, Counted
<1>13. m \in Tallied(h, n, x)
  <2> HIDE DEF host
  <2> QED BY <1>4, <1>11, <1>12 DEF Tallied, Ahead
<1>14. hosts' = [hosts EXCEPT ![h] = m]
  <2>1. host = [peers |-> host.peers, queue |-> host.queue, connected |-> host.connected]
    <3> HIDE DEF host
    <3> QED BY <1>4 DEF Host
  <2>2. [host EXCEPT !.queue = qu, !.peers = ps] = m
    <3> HIDE DEF host, qu, ps
    <3>1. PICK a, b, k : a = host.peers /\ b = host.queue /\ k = host.connected
      OBVIOUS
    <3>2. PICK r : r = [peers |-> a, queue |-> b, connected |-> k]
      OBVIOUS
    <3>3. PICK q : q = [r EXCEPT !.queue = qu]
      OBVIOUS
    <3>4. q = [peers |-> a, queue |-> qu, connected |-> k]
      BY <3>2, <3>3
    <3>5. [q EXCEPT !.peers = ps] = [peers |-> ps, queue |-> qu, connected |-> k]
      BY <3>4
    <3> QED BY <1>10, <2>1, <3>1, <3>2, <3>3, <3>5
  <2>3. hosts' = [hosts EXCEPT ![h] = [host EXCEPT !.queue = qu, !.peers = ps]]
    <3> HIDE DEF qu, ps
    <3> QED BY <1>1, <1>3
  <2> QED BY <2>2, <2>3
<1> QED
  <2> HIDE DEF host, qu, ps, After
  <2> QED BY <1>1, <1>2, <1>13, <1>14, HostStep DEF n

LEMMA ConnectInv ==
    ASSUME Inv, NEW h \in HOSTS, Connect(h)
    PROVE  Inv'
<1> DEFINE n    == Len(connects)
           free == {s \in Slots(h) : hosts[h].peers[s].state = "DISCONNECTED"}
<1>1. /\ n \in Nat /\ connects \in Seq(HOSTS) /\ connects' = Append(connects, h)
      /\ network' = network
      /\ DOMAIN network \subseteq Datagrams(n) /\ DOMAIN hosts = HOSTS
  BY DEF Inv, Connect
<1>2. connects' \in Seq(HOSTS) /\ Len(connects') = n + 1
  BY <1>1
<1>3. PICK x \in Nat : hosts[h] \in Tallied(h, n, x) /\ ("now" \notin Ways[h] => x = 0)
  BY DEF Inv
<1> HIDE DEF n
<1>4. Min(free) \in free
  <2>1. free \in SUBSET Nat /\ free # {}
    BY SlotsLemma DEF Connect
  <2> HIDE DEF free
  <2> QED BY <2>1, MinOfSet
<1>5. PICK s \in Slots(h) : s = Min(free) /\ hosts[h].peers[s].state = "DISCONNECTED"
  BY <1>4
<1>6. PICK host \in Tallied(h, n + 1, x), p \in Peer(n + 1) :
         host = hosts[h] /\ p = host.peers[s] /\ p.state = "DISCONNECTED"
  <2>1. hosts[h] \in Tallied(h, n + 1, x)
    BY <1>1, <1>3, Monotone
  <2>2. hosts[h].peers[s] \in Peer(n + 1)
    BY <1>1, <2>1, HostFields DEF Tallied
  <2> QED BY <1>5, <2>1, <2>2
<1>7. PICK id \in 0..(n + 1) : id = n + 1 /\ id # 0
  BY <1>1
<1>8. PICK r : r = [p EXCEPT !.state = "CONNECTING", !.address = SERVER, !.connect_id = id]
  OBVIOUS
<1>9. r \in Peer(n + 1) /\ r.state = "CONNECTING"
  BY <1>1, <1>7, <1>8, LifecycleAssumption DEF Peer, States
<1>10. PICK q : q = QueueOutgoingCommand(r, "CONNECT", id, s)
  OBVIOUS
<1>11. q \in Peer(n + 1) /\ q.state = "CONNECTING"
  <2>1. "CONNECT" \in Types /\ s \in Nat /\ n + 1 \in Nat
    BY <1>1, SlotsLemma DEF Types
  <2> QED BY <1>7, <1>9, <1>10, <2>1, QueueLemma
<1>12. q.state \in CountedStates <=> Counted(host, s)
  BY <1>6, <1>11 DEF Counted, CountedStates
<1>13. PICK m : m = UpdatePeer(host, s, q)
  OBVIOUS
<1>14. m \in Tallied(h, n + 1, x)
  <2>1. n + 1 \in Nat
    BY <1>1
  <2> QED BY <1>11, <1>12, <1>13, <2>1, UpdateLemma
<1>15. hosts' = [hosts EXCEPT ![h] = m]
  BY <1>5, <1>6, <1>7, <1>8, <1>10, <1>13 DEF Connect, n
<1>16. ASSUME NEW g \in HOSTS
       PROVE  \E y \in Nat : /\ hosts'[g] \in Tallied(g, n + 1, y)
                             /\ "now" \notin Ways[g] => y = 0
  <2>1. CASE g = h
    <3>1. hosts'[g] = m
      BY <1>1, <1>15, <2>1
    <3> QED BY <1>3, <1>14, <2>1, <3>1
  <2>2. CASE g # h
    <3>1. hosts'[g] = hosts[g]
      BY <1>1, <1>15, <2>2
    <3>2. PICK y \in Nat : hosts[g] \in Tallied(g, n, y) /\ ("now" \notin Ways[g] => y = 0)
      BY DEF Inv, n
    <3>3. hosts[g] \in Tallied(g, n + 1, y)
      BY <1>1, <3>2, Monotone
    <3> QED BY <3>1, <3>2, <3>3
  <2> QED BY <2>1, <2>2
<1>17. DOMAIN network' \subseteq Datagrams(n + 1)
  BY <1>1, Monotone
<1>18. DOMAIN hosts' = HOSTS
  BY <1>1, <1>15
<1> QED BY <1>2, <1>16, <1>17, <1>18 DEF Inv

LEMMA InitInv == Init => Inv
<1> SUFFICES ASSUME Init PROVE Inv
  OBVIOUS
<1>1. connects = <<>> /\ connects \in Seq(HOSTS) /\ Len(connects) = 0
  BY DEF Init
<1>2. DOMAIN hosts = HOSTS /\ network = EmptyBag
  BY DEF Init
<1>3. DOMAIN network \subseteq Datagrams(0)
  BY <1>2 DEF EmptyBag, SetToBag
<1>4. ASSUME NEW h \in HOSTS PROVE hosts[h] \in Tallied(h, 0, 0)
  <2>1. PICK p \in Peer(0) : p = EmptyPeer /\ p.state = "DISCONNECTED"
    BY EmptyPeerLemma DEF EmptyPeer
  <2>2. PICK ps \in [Slots(h) -> Peer(0)] : ps = [s \in Slots(h) |-> p]
    OBVIOUS
  <2>3. PICK qu \in Seq(Slots(h)) : qu = <<>>
    BY EmptySequence
  <2>4. PICK m : m = [peers |-> ps, queue |-> qu, connected |-> 0]
    OBVIOUS
  <2>5. hosts[h] = m
    BY <2>1, <2>2, <2>3, <2>4 DEF Init
  <2>6. m \in Host(h, 0) /\ m.peers = ps /\ m.connected = 0
    BY <2>4, HostUpdate
  <2>7. CountedSlots(h, m) = {}
    BY <2>1, <2>2, <2>6 DEF CountedSlots, Counted, CountedStates
  <2>8. Ahead(h, m, 0)
    BY <2>6, <2>7, FS_EmptySet DEF Ahead
  <2> QED BY <2>5, <2>6, <2>8 DEF Tallied
<1> QED BY <1>1, <1>2, <1>3, <1>4 DEF Inv

LEMMA NextInv == Inv /\ [Next]_vars => Inv'
<1> SUFFICES ASSUME Inv, [Next]_vars PROVE Inv'
  OBVIOUS
<1>1. ASSUME NEW h \in HOSTS, Connect(h) PROVE Inv'
  BY <1>1, ConnectInv
<1>2. ASSUME NEW h \in HOSTS, DispatchIncomingCommands(h) PROVE Inv'
  BY <1>2, DispatchInv
<1>3. ASSUME NEW h \in HOSTS, NEW s \in Slots(h), DisconnectLater(h, s) PROVE Inv'
  BY <1>3, DisconnectLaterInv
<1>4. ASSUME NEW h \in HOSTS, NEW s \in Slots(h), DisconnectNow(h, s) PROVE Inv'
  BY <1>4, DisconnectNowInv
<1>5. ASSUME NEW h \in HOSTS, NEW s \in Slots(h), NEW expired, NEW ping \in BOOLEAN,
             SendOutgoingCommands(h, s, expired, ping)
      PROVE  Inv'
  BY <1>5, SendOutgoingInv
<1>6. ASSUME NEW d \in DOMAIN network, Lose(d) PROVE Inv'
  <2>1. PICK B : B = network (-) SetToBag({d}) /\ network' = B
    BY <1>6 DEF Lose
  <2>2. DOMAIN B \subseteq DOMAIN network
    BY <2>1, BagLemma
  <2>3. hosts' = hosts /\ connects' = connects
    BY <1>6 DEF Lose
  <2> QED BY <2>1, <2>2, <2>3 DEF Inv
<1>7. ASSUME NEW d \in DOMAIN network, NEW h \in HOSTS, Receive(h, d) PROVE Inv'
  <2>1. PICK B : B = network (-) SetToBag({d}) /\ network' = B
    BY <1>7 DEF Receive
  <2>2. DOMAIN B \subseteq DOMAIN network
    BY <2>1, BagLemma
  <2> QED BY <1>7, <2>1, <2>2, ReceiveIncomingInv DEF Receive
<1>8. ASSUME NEW d \in DOMAIN network, NEW h \in HOSTS, ReceiveAndKeep(h, d) PROVE Inv'
  <2>1. network' = network /\ ReceiveIncomingCommands(h, d)
    BY <1>8 DEF ReceiveAndKeep
  <2> QED BY <2>1, ReceiveIncomingInv
<1>9. CASE UNCHANGED vars
  BY <1>9 DEF vars, bounds, Inv
<1> QED BY <1>1, <1>2, <1>3, <1>4, <1>5, <1>6, <1>7, <1>8, <1>9 DEF Next

-----------------------------------------------------------------------------
(* Theorems.                                                               *)

\* The invariant: hosts, peers, commands and datagrams are what they should be,
\* a slot is free if and only if it belongs to no connection, and the counter
\* of a host is ahead of its connected slots, by nothing unless DisconnectNow
\* is used.
THEOREM LifecycleInvariant == Spec => []Inv
<1>1. Init => Inv
  BY InitInv
<1>2. Inv /\ [Next]_vars => Inv'
  BY NextInv
<1> QED BY <1>1, <1>2, PTL DEF Spec

\* connected_peers_ is never less than the number of the connected peers,
\* however connections end: PurgePeer takes off no more than MergePeer added.
THEOREM NeverUndercounted == Spec => []NotUndercounted
<1>1. Inv => NotUndercounted
  <2> SUFFICES ASSUME Inv, NEW h \in HOSTS
               PROVE  Cardinality(CountedSlots(h, hosts[h])) <= hosts[h].connected
    BY DEF NotUndercounted, CountedSlots
  <2>1. PICK x \in Nat : Ahead(h, hosts[h], x)
    BY DEF Inv, Tallied
  <2> QED BY <2>1, CountedLemma DEF Ahead
<1> QED BY <1>1, LifecycleInvariant, PTL

\* Where no host uses DisconnectNow, connected_peers_, which BandwidthThrottle
\* and Host trust, is the number of the connected peers: whatever the network
\* does with handshakes and disconnects, however slots are used again.
THEOREM CountersAreRight ==
    ASSUME \A h \in HOSTS : "now" \notin Ways[h]
    PROVE  Spec => []ConnectedPeersCounted
<1>1. Inv => ConnectedPeersCounted
  <2> SUFFICES ASSUME Inv, NEW h \in HOSTS
               PROVE  hosts[h].connected = Cardinality(CountedSlots(h, hosts[h]))
    BY DEF ConnectedPeersCounted, CountedSlots
  <2>1. Ahead(h, hosts[h], 0)
    BY DEF Inv, Tallied
  <2> QED BY <2>1, CountedLemma DEF Ahead
<1> QED BY <1>1, LifecycleInvariant, PTL

\* Then, too, the counter stays between 0 and the number of the slots, the queue
\* holds slots, and a slot belongs to a connection unless it is free.
THEOREM SlotsAreTyped ==
    ASSUME \A h \in HOSTS : "now" \notin Ways[h]
    PROVE  Spec => []TypeOK
<1>1. Inv => TypeOK
  <2> SUFFICES ASSUME Inv, NEW h \in HOSTS
               PROVE  /\ hosts[h].connected \in 0..PEER_COUNT[h]
                      /\ ToSet(hosts[h].queue) \subseteq Slots(h)
                      /\ \A s \in Slots(h) :
                            /\ hosts[h].peers[s].state \in States
                            /\ hosts[h].peers[s].connect_id \in 0..Len(connects)
                            /\ hosts[h].peers[s].state = "DISCONNECTED"
                                  <=> hosts[h].peers[s].connect_id = 0
    BY DEF TypeOK
  <2>1. Ahead(h, hosts[h], 0) /\ hosts[h] \in Host(h, Len(connects)) /\ Len(connects) \in Nat
    BY DEF Inv, Tallied
  <2>2. hosts[h].connected \in 0..PEER_COUNT[h]
    <3>1. PICK k \in Nat : k = Cardinality(CountedSlots(h, hosts[h])) /\ k <= PEER_COUNT[h]
      BY CountedLemma
    <3> QED BY <2>1, <3>1, SlotsLemma DEF Ahead
  <2>3. ToSet(hosts[h].queue) \subseteq Slots(h)
    <3>1. PICK q \in Seq(Slots(h)) : q = hosts[h].queue
      BY <2>1, HostFields
    <3> QED BY <3>1 DEF ToSet
  <2>4. ASSUME NEW s \in Slots(h) PROVE hosts[h].peers[s] \in Peer(Len(connects))
    BY <2>1, HostFields
  <2> QED BY <2>1, <2>2, <2>3, <2>4, PeerFields
<1> QED BY <1>1, LifecycleInvariant, PTL

-----------------------------------------------------------------------------
(* What the peers of a host keep to, whatever the connections are.         *)

\* What a peer keeps from one command to the next.
Core(p) ==
    [state |-> p.state, address |-> p.address, connect_id |-> p.connect_id,
     outgoing_peer_id |-> p.outgoing_peer_id, number |-> p.number]

Cores(n) ==
    [state : States, address : HOSTS \cup {Nowhere}, connect_id : 0..n,
     outgoing_peer_id : Nat, number : Nat]

Free ==
    [state |-> "DISCONNECTED", address |-> Nowhere, connect_id |-> 0,
     outgoing_peer_id |-> Nobody, number |-> 0]

\* Where a peer may always go, unless it is reset.
Closing == {"ZOMBIE", "ACKNOWLEDGING_DISCONNECT", "DISCONNECTING"}

Onward(st) == {st} \cup Closing \cup (IF st \in CountedStates THEN CountedStates ELSE {})

Moved(k, st, m) ==
    [state |-> st, address |-> k.address, connect_id |-> k.connect_id,
     outgoing_peer_id |-> k.outgoing_peer_id, number |-> m]

\* A set of cores that a peer leaves only by being connected or answered.
Closed(K) ==
    /\ Free \in K
    /\ \A k \in K : k.state = "DISCONNECTED" => k = Free
    /\ \A k \in K : k.state # "DISCONNECTED" =>
          /\ k.number # 0
          /\ \A st \in Onward(k.state), m \in Nat \ {0} :
                Moved(k, st, m) \in K

\* PING and DISCONNECT are never the first command of a peer.
Later(n) == {c \in Control(n) : c.type \in {"PING", "DISCONNECT"} /\ c.rsn > 1}

\* Rules for the peers of a host: the cores of each slot, the commands a peer
\* has to send and those it has to acknowledge.
Rules(h, n) ==
    {r \in [cores : [Slots(h) -> SUBSET Cores(n)], commands : SUBSET Control(n),
            answers : SUBSET Answers] :
        /\ \A s \in Slots(h) : Closed(r.cores[s])
        /\ Later(n) \subseteq r.commands}

Abiding(n, r, s) ==
    {p \in Peer(n) : /\ Core(p) \in r.cores[s]
                     /\ p.outgoing \in Seq(r.commands) /\ p.sent \in Seq(r.commands)
                     /\ p.acknowledgements \in Seq(r.answers)}

Housed(h, n, r, host) == \A s \in Slots(h) : host.peers[s] \in Abiding(n, r, s)

LEMMA RulesFields ==
    ASSUME NEW h \in HOSTS, NEW n \in Nat, NEW r \in Rules(h, n), NEW s \in Slots(h)
    PROVE  /\ r.cores[s] \subseteq Cores(n) /\ Closed(r.cores[s])
           /\ r.commands \subseteq Control(n) /\ Later(n) \subseteq r.commands
           /\ r.answers \subseteq Answers
  BY DEF Rules

LEMMA AbidingFields ==
    ASSUME NEW n \in Nat, NEW r, NEW s, NEW p \in Abiding(n, r, s)
    PROVE  /\ p \in Peer(n) /\ Core(p) \in r.cores[s]
           /\ p.outgoing \in Seq(r.commands) /\ p.sent \in Seq(r.commands)
           /\ p.acknowledgements \in Seq(r.answers)
  BY DEF Abiding

\* The peer stays or goes onward and keeps its lists to the rules.
LEMMA GoesOn ==
    ASSUME NEW h \in HOSTS, NEW n \in Nat, NEW r \in Rules(h, n), NEW s \in Slots(h),
           NEW p \in Abiding(n, r, s), NEW q \in Peer(n),
           q.address = p.address, q.connect_id = p.connect_id,
           q.outgoing_peer_id = p.outgoing_peer_id,
           \/ q.state = p.state /\ q.number = p.number
           \/ p.state # "DISCONNECTED" /\ q.state \in Onward(p.state) /\ q.number # 0,
           q.outgoing \in Seq(r.commands), q.sent \in Seq(r.commands),
           q.acknowledgements \in Seq(r.answers)
    PROVE  q \in Abiding(n, r, s)
<1>1. Core(p) \in r.cores[s] /\ q.number \in Nat
  BY AbidingFields, PeerFields
<1>2. CASE q.state = p.state /\ q.number = p.number
  <2>1. Core(q) = Core(p)
    BY <1>2 DEF Core
  <2> QED BY <1>1, <2>1 DEF Abiding
<1>3. CASE p.state # "DISCONNECTED" /\ q.state \in Onward(p.state) /\ q.number # 0
  <2>1. PICK k \in r.cores[s] : k = Core(p)
    BY <1>1
  <2>2. k.state = p.state /\ Closed(r.cores[s])
    BY <2>1, RulesFields DEF Core
  <2>3. Moved(k, q.state, q.number) \in r.cores[s]
    BY <1>1, <1>3, <2>2 DEF Closed
  <2>4. Core(q) = Moved(k, q.state, q.number)
    BY <2>1 DEF Core, Moved
  <2> QED BY <2>3, <2>4 DEF Abiding
<1> QED BY <1>2, <1>3

LEMMA NotFreeIsNumbered ==
    ASSUME NEW h \in HOSTS, NEW n \in Nat, NEW r \in Rules(h, n), NEW s \in Slots(h),
           NEW p \in Abiding(n, r, s)
    PROVE  /\ p.state # "DISCONNECTED" => p.number \in Nat \ {0}
           /\ p.state = "DISCONNECTED" => Core(p) = Free
<1>1. Core(p) \in r.cores[s] /\ Closed(r.cores[s]) /\ p.number \in Nat
  BY AbidingFields, RulesFields, PeerFields
<1>2. Core(p).state = p.state /\ Core(p).number = p.number
  BY DEF Core
<1> QED BY <1>1, <1>2 DEF Closed

LEMMA RemoveAbides ==
    ASSUME NEW h \in HOSTS, NEW n \in Nat, NEW r \in Rules(h, n), NEW s \in Slots(h),
           NEW p \in Abiding(n, r, s), NEW rsn
    PROVE  LET q == RemoveSentReliableCommand(p, rsn)
           IN  q \in Abiding(n, r, s) /\ Core(q) = Core(p)
<1>1. p.sent \in Seq(r.commands) /\ p \in Peer(n)
  BY AbidingFields
<1>2. PICK l \in Seq(r.commands) :
         RemoveSentReliableCommand(p, rsn) \in {p, [p EXCEPT !.sent = l]}
  BY <1>1, RemovalLemma
<1>3. PICK q : q = [p EXCEPT !.sent = l]
  OBVIOUS
<1>4. PICK o \in Seq(Control(n)) : o = l
  BY RulesFields
<1>5. /\ q \in Peer(n) /\ q.sent = l /\ q.outgoing = p.outgoing
      /\ q.acknowledgements = p.acknowledgements /\ Core(q) = Core(p)
  BY <1>1, <1>3, <1>4 DEF Peer, Core
<1>6. q \in Abiding(n, r, s)
  BY <1>5 DEF Abiding
<1> QED BY <1>2, <1>3, <1>5, <1>6

LEMMA TimeoutAbides ==
    ASSUME NEW h \in HOSTS, NEW n \in Nat, NEW r \in Rules(h, n), NEW s \in Slots(h),
           NEW p \in Abiding(n, r, s), NEW expired
    PROVE  LET q == Timeout(p, expired) IN q \in Abiding(n, r, s) /\ Core(q) = Core(p)
<1>1. p.sent \in Seq(r.commands) /\ p.outgoing \in Seq(r.commands) /\ p \in Peer(n)
  BY AbidingFields
<1>2. PICK l \in Seq(r.commands) : l = Expirations(p, expired)[Len(p.sent)]
  BY <1>1, ExpirationsLemma
<1>3. PICK q : q = [p EXCEPT !.outgoing = l]
  OBVIOUS
<1>4. PICK o \in Seq(Control(n)) : o = l
  BY RulesFields
<1>5. /\ q \in Peer(n) /\ q.outgoing = l /\ q.sent = p.sent
      /\ q.acknowledgements = p.acknowledgements /\ Core(q) = Core(p)
  BY <1>1, <1>3, <1>4 DEF Peer, Core
<1>6. q \in Abiding(n, r, s)
  BY <1>5 DEF Abiding
<1> QED BY <1>2, <1>3, <1>5, <1>6 DEF Timeout

LEMMA LoadAbides ==
    ASSUME NEW h \in HOSTS, NEW n \in Nat, NEW r \in Rules(h, n), NEW s \in Slots(h),
           NEW p \in Abiding(n, r, s)
    PROVE  LET q == LoadReliableCommands(p) IN q \in Abiding(n, r, s) /\ Core(q) = Core(p)
<1>1. p.sent \in Seq(r.commands) /\ p.outgoing \in Seq(r.commands) /\ p \in Peer(n)
  BY AbidingFields
<1>2. PICK l \in Seq(r.commands) : l = p.sent \o p.outgoing
  <2>1. PICK a \in Seq(r.commands), b \in Seq(r.commands) : a = p.sent /\ b = p.outgoing
    BY <1>1
  <2>2. a \o b \in Seq(r.commands)
    OBVIOUS
  <2> QED BY <2>1, <2>2
<1>3. PICK none : none = <<>> /\ none \in Seq(r.commands) /\ none \in Seq(Control(n))
  BY EmptySequence
<1>4. PICK q : q = [p EXCEPT !.sent = l, !.outgoing = none]
  OBVIOUS
<1>5. PICK o \in Seq(Control(n)) : o = l
  BY RulesFields
<1>6. /\ q \in Peer(n) /\ q.sent = l /\ q.outgoing = none
      /\ q.acknowledgements = p.acknowledgements /\ Core(q) = Core(p)
  BY <1>1, <1>3, <1>4, <1>5 DEF Peer, Core
<1>7. q \in Abiding(n, r, s)
  BY <1>3, <1>6 DEF Abiding
<1> QED BY <1>2, <1>3, <1>4, <1>6, <1>7 DEF LoadReliableCommands

LEMMA ResetQueuesAbides ==
    ASSUME NEW h \in HOSTS, NEW n \in Nat, NEW r \in Rules(h, n), NEW s \in Slots(h),
           NEW p \in Abiding(n, r, s)
    PROVE  LET q == ResetPeerQueues(p) IN q \in Abiding(n, r, s) /\ Core(q) = Core(p)
<1>1. PICK q : q = ResetPeerQueues(p)
  OBVIOUS
<1>2. p \in Peer(n) /\ q \in Peer(n)
  BY <1>1, AbidingFields, ResetQueuesLemma
<1>3. PICK o : o = <<>> /\ o \in Seq(r.commands) /\ o \in Seq(r.answers)
  BY EmptySequence
<1>4. q.outgoing = o /\ q.sent = o /\ q.acknowledgements = o /\ Core(q) = Core(p)
  BY <1>1, <1>2, <1>3 DEF ResetPeerQueues, Core, Peer
<1>5. q \in Abiding(n, r, s)
  BY <1>2, <1>3, <1>4, AbidingFields DEF Abiding
<1> QED BY <1>1, <1>4, <1>5

LEMMA ResetAbides ==
    ASSUME NEW h \in HOSTS, NEW n \in Nat, NEW r \in Rules(h, n), NEW s \in Slots(h),
           NEW p \in Abiding(n, r, s)
    PROVE  Reset(p) \in Abiding(n, r, s)
<1>1. PICK q : q = Reset(p)
  OBVIOUS
<1>2. p \in Peer(n) /\ q \in Peer(n)
  BY <1>1, AbidingFields, ResetLemma
<1>3. PICK o : o = <<>> /\ o \in Seq(r.answers)
  BY EmptySequence
<1>4. /\ q.outgoing = p.outgoing /\ q.sent = p.sent /\ q.acknowledgements = o
      /\ Core(q) = Free
  BY <1>1, <1>3 DEF Reset, EmptyPeer, Core, Free
<1>5. Free \in r.cores[s]
  BY RulesFields DEF Closed
<1>6. q \in Abiding(n, r, s)
  BY <1>2, <1>3, <1>4, <1>5, AbidingFields DEF Abiding
<1> QED BY <1>1, <1>6

\* A PING or a DISCONNECT is numbered after the command that came first.
LEMMA LaterLemma ==
    ASSUME NEW h \in HOSTS, NEW n \in Nat, NEW r \in Rules(h, n), NEW s \in Slots(h),
           NEW p \in Abiding(n, r, s), p.state # "DISCONNECTED",
           NEW type \in {"PING", "DISCONNECT"}, NEW acknowledge \in BOOLEAN
    PROVE  /\ Command(p, type, 0, Nobody, acknowledge) \in r.commands
           /\ Command(p, type, 0, Nobody, acknowledge).type # "VERIFY_CONNECT"
<1>1. PICK m \in Nat \ {0} : m = p.number
  BY NotFreeIsNumbered
<1>2. p \in Peer(n) /\ type \in Types /\ 0 \in 0..n /\ Nobody \in Nat /\ type # "CONNECT"
  BY AbidingFields DEF Types, Nobody
<1>3. PICK c : c = Command(p, type, 0, Nobody, acknowledge)
  OBVIOUS
<1>4. c \in Control(n)
  BY <1>2, <1>3, CommandLemma
<1>5. c.type = type /\ c.rsn = m + 1
  BY <1>1, <1>3 DEF Command
<1>6. c \in Later(n)
  BY <1>4, <1>5 DEF Later
<1> QED BY <1>3, <1>5, <1>6, RulesFields

LEMMA AppendIn ==
    ASSUME NEW S, NEW o \in Seq(S), NEW c \in S PROVE Append(o, c) \in Seq(S)
  OBVIOUS

LEMMA QueueAbides ==
    ASSUME NEW h \in HOSTS, NEW n \in Nat, NEW r \in Rules(h, n), NEW s \in Slots(h),
           NEW p \in Abiding(n, r, s), p.state # "DISCONNECTED",
           NEW type \in {"PING", "DISCONNECT"}
    PROVE  LET q == QueueOutgoingCommand(p, type, 0, Nobody)
           IN  q \in Abiding(n, r, s) /\ q.state = p.state
<1>1. PICK c \in r.commands : c = Command(p, type, 0, Nobody, TRUE)
  BY LaterLemma
<1>2. PICK q : q = QueueOutgoingCommand(p, type, 0, Nobody)
  OBVIOUS
<1>3. p \in Peer(n) /\ type \in Types /\ 0 \in 0..n /\ Nobody \in Nat /\ type # "CONNECT"
  BY AbidingFields DEF Types, Nobody
<1>4. q \in Peer(n) /\ q.state = p.state
  BY <1>2, <1>3, QueueLemma
<1>5. PICK l \in Seq(r.commands) : l = Append(p.outgoing, c)
  <2>1. PICK o \in Seq(r.commands) : o = p.outgoing
    BY AbidingFields
  <2>2. Append(o, c) \in Seq(r.commands)
    BY <1>1, AppendIn
  <2> QED BY <2>1, <2>2
<1>6. PICK m \in Nat \ {0} : m = p.number + 1
  BY NotFreeIsNumbered
<1>7. q = [p EXCEPT !.number = m, !.outgoing = l]
  BY <1>1, <1>2, <1>5, <1>6 DEF QueueOutgoingCommand
<1>8. /\ q.number = m /\ q.outgoing = l /\ q.address = p.address
      /\ q.connect_id = p.connect_id /\ q.outgoing_peer_id = p.outgoing_peer_id
      /\ q.sent = p.sent /\ q.acknowledgements = p.acknowledgements
  BY <1>3, <1>7 DEF Peer
<1>9. p.state \in Onward(p.state)
  BY DEF Onward
<1>10. q \in Abiding(n, r, s)
  BY <1>4, <1>6, <1>8, <1>9, AbidingFields, GoesOn
<1> QED BY <1>2, <1>4, <1>10

\* The rules let the peer p of a slot turn to the state st.
MayTurn(r, s, p, st) == Moved(Core(p), st, p.number) \in r.cores[s]

LEMMA OnwardMayTurn ==
    ASSUME NEW h \in HOSTS, NEW n \in Nat, NEW r \in Rules(h, n), NEW s \in Slots(h),
           NEW p \in Abiding(n, r, s), p.state # "DISCONNECTED",
           NEW st \in Onward(p.state)
    PROVE  MayTurn(r, s, p, st)
<1>1. Core(p) \in r.cores[s] /\ Closed(r.cores[s])
  BY AbidingFields, RulesFields
<1>2. Core(p).state = p.state
  BY DEF Core
<1>3. p.number \in Nat \ {0}
  BY NotFreeIsNumbered
<1> QED BY <1>1, <1>2, <1>3 DEF Closed, MayTurn

\* A peer changes nothing but its state.
LEMMA StateAbides ==
    ASSUME NEW h \in HOSTS, NEW n \in Nat, NEW r \in Rules(h, n), NEW s \in Slots(h),
           NEW p \in Abiding(n, r, s), NEW q \in Peer(n), OnlyState(p, q),
           MayTurn(r, s, p, q.state)
    PROVE  q \in Abiding(n, r, s)
<1>1. /\ q.address = p.address /\ q.connect_id = p.connect_id
      /\ q.outgoing_peer_id = p.outgoing_peer_id /\ q.number = p.number
      /\ q.outgoing = p.outgoing /\ q.sent = p.sent
      /\ q.acknowledgements = p.acknowledgements
  BY DEF OnlyState
<1>2. Core(q) = Moved(Core(p), q.state, p.number)
  BY <1>1 DEF Core, Moved
<1> QED BY <1>1, <1>2, AbidingFields DEF Abiding, MayTurn

LEMMA LeavingAbides ==
    ASSUME NEW h \in HOSTS, NEW n \in Nat, NEW r \in Rules(h, n), NEW s \in Slots(h),
           NEW p \in Abiding(n, r, s), p.state # "DISCONNECTED"
    PROVE  Leaving(p) \in Abiding(n, r, s) /\ Leaving(p).state = p.state
<1>1. PICK q \in Abiding(n, r, s) : q = ResetPeerQueues(p) /\ Core(q) = Core(p)
  BY ResetQueuesAbides
<1>2. q.state = p.state
  BY <1>1 DEF Core
<1>3. PICK l \in Abiding(n, r, s) :
         l = QueueOutgoingCommand(q, "DISCONNECT", 0, Nobody) /\ l.state = q.state
  BY <1>2, QueueAbides
<1> QED BY <1>1, <1>2, <1>3 DEF Leaving

-----------------------------------------------------------------------------
(* What a host does to its peers.                                          *)

LEMMA PutHoused ==
    ASSUME NEW h \in HOSTS, NEW n \in Nat, NEW r, NEW host \in Host(h, n),
           Housed(h, n, r, host), NEW s \in Slots(h), NEW p \in Abiding(n, r, s),
           NEW q, Puts(host, q, s, p)
    PROVE  Housed(h, n, r, q)
<1>1. host.peers \in [Slots(h) -> Peer(n)]
  BY HostFields
<1>2. ASSUME NEW t \in Slots(h) PROVE q.peers[t] \in Abiding(n, r, t)
  <2>1. CASE t = s
    <3>1. q.peers[t] = p
      BY <1>1, <2>1 DEF Puts
    <3> QED BY <2>1, <3>1
  <2>2. CASE t # s
    <3>1. q.peers[t] = host.peers[t]
      BY <1>1, <2>2 DEF Puts
    <3> QED BY <3>1 DEF Housed
  <2> QED BY <2>1, <2>2
<1> QED BY <1>2 DEF Housed

LEMMA HousedPeer ==
    ASSUME NEW h \in HOSTS, NEW n \in Nat, NEW x \in Nat, NEW r,
           NEW host \in Tallied(h, n, x), Housed(h, n, r, host), NEW s \in Slots(h)
    PROVE  /\ host.peers[s] \in Abiding(n, r, s) /\ host.peers[s] \in Peer(n)
           /\ host \in Host(h, n)
  BY AbidingFields DEF Housed, Tallied

LEMMA UpdateHoused ==
    ASSUME NEW h \in HOSTS, NEW n \in Nat, NEW r, NEW host \in Host(h, n),
           Housed(h, n, r, host), NEW s \in Slots(h), NEW p \in Abiding(n, r, s)
    PROVE  Housed(h, n, r, UpdatePeer(host, s, p))
<1>1. PICK q : q = UpdatePeer(host, s, p)
  OBVIOUS
<1>2. Puts(host, q, s, p)
  BY <1>1 DEF Puts, UpdatePeer, Host
<1> QED BY <1>1, <1>2, PutHoused

LEMMA ChangeStateHoused ==
    ASSUME NEW h \in HOSTS, NEW n \in Nat, NEW x \in Nat, NEW r \in Rules(h, n),
           NEW host \in Tallied(h, n, x), Housed(h, n, r, host), NEW s \in Slots(h),
           host.peers[s].state # "DISCONNECTED",
           NEW st \in States, st # "DISCONNECTED", MayTurn(r, s, host.peers[s], st)
    PROVE  Housed(h, n, r, ChangeState(host, s, st))
<1>1. PICK q : q = ChangeState(host, s, st)
  OBVIOUS
<1>2. PICK p \in Peer(n) : p.state = st /\ OnlyState(host.peers[s], p) /\ Puts(host, q, s, p)
  BY <1>1, ChangeStateLemma
<1>3. p \in Abiding(n, r, s)
  BY <1>2, HousedPeer, StateAbides
<1> QED BY <1>1, <1>2, <1>3, HousedPeer, PutHoused

LEMMA DispatchStateHoused ==
    ASSUME NEW h \in HOSTS, NEW n \in Nat, NEW x \in Nat, NEW r \in Rules(h, n),
           NEW host \in Tallied(h, n, x), Housed(h, n, r, host), NEW s \in Slots(h),
           host.peers[s].state # "DISCONNECTED",
           NEW st \in States, st # "DISCONNECTED", MayTurn(r, s, host.peers[s], st)
    PROVE  Housed(h, n, r, DispatchState(host, s, st))
<1>1. PICK q : q = DispatchState(host, s, st)
  OBVIOUS
<1>2. PICK p \in Peer(n) : p.state = st /\ OnlyState(host.peers[s], p) /\ Puts(host, q, s, p)
  BY <1>1, DispatchStateLemma
<1>3. p \in Abiding(n, r, s)
  BY <1>2, HousedPeer, StateAbides
<1> QED BY <1>1, <1>2, <1>3, HousedPeer, PutHoused

LEMMA ClosingHoused ==
    ASSUME NEW h \in HOSTS, NEW n \in Nat, NEW x \in Nat, NEW r \in Rules(h, n),
           NEW host \in Tallied(h, n, x), Housed(h, n, r, host), NEW s \in Slots(h),
           host.peers[s].state # "DISCONNECTED", NEW st \in Closing
    PROVE  /\ Housed(h, n, r, ChangeState(host, s, st))
           /\ Housed(h, n, r, DispatchState(host, s, st))
<1>1. st \in States /\ st # "DISCONNECTED" /\ st \in Onward(host.peers[s].state)
  BY DEF Closing, States, Onward
<1>2. MayTurn(r, s, host.peers[s], st)
  BY <1>1, HousedPeer, OnwardMayTurn
<1> QED BY <1>1, <1>2, ChangeStateHoused, DispatchStateHoused

LEMMA DisconnectConnectedHoused ==
    ASSUME NEW h \in HOSTS, NEW n \in Nat, NEW x \in Nat, NEW r \in Rules(h, n),
           NEW host \in Tallied(h, n, x), Housed(h, n, r, host), NEW s \in Slots(h),
           host.peers[s].state # "DISCONNECTED"
    PROVE  Housed(h, n, r, DisconnectConnected(host, s))
<1>1. PICK q : q = DisconnectConnected(host, s)
  OBVIOUS
<1>2. PICK p \in Peer(n) : /\ p.state = "DISCONNECTING" /\ OnlyState(Leaving(host.peers[s]), p)
                          /\ Puts(host, q, s, p)
  BY <1>1, DisconnectConnectedLemma
<1>3. PICK l \in Abiding(n, r, s) :
         l = Leaving(host.peers[s]) /\ l.state # "DISCONNECTED"
  BY HousedPeer, LeavingAbides
<1>4. p.state \in Onward(l.state)
  BY <1>2 DEF Onward, Closing
<1>5. MayTurn(r, s, l, p.state)
  BY <1>3, <1>4, OnwardMayTurn
<1>6. p \in Abiding(n, r, s)
  BY <1>2, <1>3, <1>5, StateAbides
<1> QED BY <1>1, <1>2, <1>6, HousedPeer, PutHoused

WithAnswers(p, a) == [p EXCEPT !.acknowledgements = a]

LEMMA AcknowledgementsAbide ==
    ASSUME NEW h \in HOSTS, NEW n \in Nat, NEW r \in Rules(h, n), NEW s \in Slots(h),
           NEW p \in Abiding(n, r, s), NEW a \in Seq(r.answers)
    PROVE  WithAnswers(p, a) \in Abiding(n, r, s) /\ WithAnswers(p, a).state = p.state
<1>1. PICK q : q = WithAnswers(p, a)
  OBVIOUS
<1>2. PICK b \in Seq(Answers) : b = a
  BY RulesFields
<1>3. p \in Peer(n)
  BY AbidingFields
<1>4. /\ q \in Peer(n) /\ q.acknowledgements = a /\ q.outgoing = p.outgoing
      /\ q.sent = p.sent /\ Core(q) = Core(p) /\ q.state = p.state
  BY <1>1, <1>2, <1>3 DEF WithAnswers, Peer, Core
<1>5. q \in Abiding(n, r, s)
  BY <1>4, AbidingFields DEF Abiding
<1> QED BY <1>1, <1>4, <1>5

LEMMA SendAcknowledgementsHoused ==
    ASSUME NEW h \in HOSTS, NEW n \in Nat, NEW x \in Nat, NEW r \in Rules(h, n),
           NEW host \in Tallied(h, n, x), Housed(h, n, r, host), NEW s \in Slots(h),
           host.peers[s].state # "DISCONNECTED"
    PROVE  /\ Housed(h, n, r, SendAcknowledgements(host, s))
           /\ SendAcknowledgements(host, s).peers[s].state # "DISCONNECTED"
<1>1. PICK p \in Abiding(n, r, s) : p = host.peers[s] /\ p.state # "DISCONNECTED"
  BY HousedPeer
<1>2. PICK a : a = <<>> /\ a \in Seq(r.answers)
  BY EmptySequence
<1>3. PICK o \in Abiding(n, r, s) : o = WithAnswers(p, a) /\ o.state = p.state
  <2>1. a \in Seq(r.answers)
    BY <1>2
  <2> QED BY <1>1, <2>1, AcknowledgementsAbide
<1>4. PICK sent : sent = UpdatePeer(host, s, o)
  OBVIOUS
<1>5. o.state \in CountedStates <=> Counted(host, s)
  BY <1>1, <1>3 DEF Counted
<1>6. sent \in Tallied(h, n, x) /\ sent.peers[s] = o
  <2>1. o \in Peer(n)
    BY <1>3, AbidingFields
  <2> QED BY <1>4, <1>5, <2>1, UpdateLemma
<1>7. Housed(h, n, r, sent)
  BY <1>3, <1>4, HousedPeer, UpdateHoused
<1>8. PICK z : z = DispatchState(sent, s, "ZOMBIE")
  OBVIOUS
<1>9. Housed(h, n, r, z) /\ z.peers[s].state = "ZOMBIE"
  <2>1. "ZOMBIE" \in Closing /\ "ZOMBIE" \in States /\ sent.peers[s].state # "DISCONNECTED"
    BY <1>1, <1>3, <1>6 DEF Closing, States
  <2>2. z.peers[s].state = "ZOMBIE"
    BY <1>6, <1>8, <2>1, DispatchStateLemma
  <2>3. Housed(h, n, r, z)
    BY <1>6, <1>7, <1>8, <2>1, ClosingHoused
  <2> QED BY <2>2, <2>3
<1>10. SendAcknowledgements(host, s) \in {sent, z}
  BY <1>1, <1>2, <1>3, <1>4, <1>8 DEF SendAcknowledgements, WithAnswers
<1> QED BY <1>1, <1>3, <1>6, <1>7, <1>9, <1>10

-----------------------------------------------------------------------------
(* What the walk over the commands of a datagram does to the peers.        *)

\* The walk has a peer, and every peer of its host abides by the rules.
OnRules(h, n, r, walk) == HasPeer(h, walk) /\ Housed(h, n, r, walk.host)

LEMMA WalkPeer ==
    ASSUME NEW h \in HOSTS, NEW n \in Nat, NEW x \in Nat, NEW r,
           NEW walk \in Walk(h, n, x), OnRules(h, n, r, walk)
    PROVE  \E host \in Tallied(h, n, x), s \in Slots(h), p \in Peer(n) :
              /\ host = walk.host /\ s = walk.slot /\ p = host.peers[s]
              /\ p = PeerOf(walk) /\ p \in Abiding(n, r, s) /\ Housed(h, n, r, host)
<1>1. walk.host \in Tallied(h, n, x) /\ PeerOf(walk) = walk.host.peers[walk.slot]
  BY WalkFields
<1>2. walk.slot \in Slots(h) /\ Housed(h, n, r, walk.host)
  BY DEF OnRules, HasPeer
<1>3. /\ walk.host.peers[walk.slot] \in Abiding(n, r, walk.slot)
      /\ walk.host.peers[walk.slot] \in Peer(n)
  BY <1>2, AbidingFields DEF Housed
<1> QED BY <1>1, <1>2, <1>3

LEMMA QueueAcknowledgementHoused ==
    ASSUME NEW h \in HOSTS, NEW n \in Nat, NEW x \in Nat, NEW r \in Rules(h, n),
           NEW walk \in Walk(h, n, x), OnRules(h, n, r, walk), NEW c \in Control(n),
           \/ [rsn |-> c.rsn, type |-> c.type] \in r.answers
           \/ QueueAcknowledgement(walk, c) = walk
    PROVE  LET q == QueueAcknowledgement(walk, c)
           IN  /\ OnRules(h, n, r, q) /\ q.slot = walk.slot
               /\ q.event = walk.event /\ q.over = walk.over
<1> DEFINE e == [rsn |-> c.rsn, type |-> c.type]
           v == [walk EXCEPT !.host.peers[walk.slot].acknowledgements = Append(@, e)]
<1>1. QueueAcknowledgement(walk, c) \in {walk, v}
  BY DEF QueueAcknowledgement
<1>2. CASE QueueAcknowledgement(walk, c) = walk
  BY <1>2
<1>3. CASE QueueAcknowledgement(walk, c) # walk
  <2>1. e \in r.answers /\ QueueAcknowledgement(walk, c) = v
    BY <1>1, <1>3
  <2> HIDE DEF e
  <2>2. PICK host \in Tallied(h, n, x), s \in Slots(h), p \in Peer(n) :
           /\ host = walk.host /\ s = walk.slot /\ p = host.peers[s]
           /\ p = PeerOf(walk) /\ p \in Abiding(n, r, s) /\ Housed(h, n, r, host)
    BY WalkPeer
  <2>3. PICK a \in Seq(r.answers) : a = Append(p.acknowledgements, e)
    <3>1. PICK o \in Seq(r.answers) : o = p.acknowledgements
      BY <2>2, AbidingFields
    <3>2. Append(o, e) \in Seq(r.answers)
      BY <2>1, AppendIn
    <3> QED BY <3>1, <3>2
  <2>4. PICK o \in Abiding(n, r, s) :
           o = WithAnswers(p, a) /\ o.state = p.state
    BY <2>2, <2>3, AcknowledgementsAbide
  <2>5. PICK m : m = UpdatePeer(host, s, o)
    OBVIOUS
  <2>6. Housed(h, n, r, m)
    BY <2>2, <2>4, <2>5, HousedPeer, UpdateHoused
  <2>7. v = [walk EXCEPT !.host = m]
    BY <2>2, <2>3, <2>4, <2>5 DEF UpdatePeer, WithAnswers
  <2> HIDE DEF v
  <2>8. v.host = m /\ v.slot = walk.slot /\ v.event = walk.event /\ v.over = walk.over
    BY <2>7 DEF Walk
  <2> QED BY <2>1, <2>2, <2>6, <2>8 DEF OnRules, HasPeer
<1> QED BY <1>2, <1>3

LEMMA TellsOnRules ==
    ASSUME NEW h \in HOSTS, NEW n \in Nat, NEW x \in Nat, NEW r,
           NEW walk \in Walk(h, n, x), OnRules(h, n, r, walk), NEW type
    PROVE  LET q == Tells(walk, type)
           IN  /\ OnRules(h, n, r, q) /\ q.slot = walk.slot /\ q.host = walk.host
               /\ q.event.type = type /\ q.over = walk.over
               /\ q.event = [type |-> type, connect_id |-> PeerOf(walk).connect_id]
<1>1. PICK e : e = [type |-> type, connect_id |-> PeerOf(walk).connect_id]
  OBVIOUS
<1>2. PICK q : q = [walk EXCEPT !.event = e]
  OBVIOUS
<1>3. q.slot = walk.slot /\ q.host = walk.host /\ q.event = e /\ q.over = walk.over
  BY <1>2 DEF Walk
<1>4. OnRules(h, n, r, q)
  BY <1>3 DEF OnRules, HasPeer
<1> QED BY <1>1, <1>2, <1>3, <1>4 DEF Tells

\* The walk goes on with another host on the same rules.
LEMMA HostOnRules ==
    ASSUME NEW h \in HOSTS, NEW n \in Nat, NEW x \in Nat, NEW r,
           NEW walk \in Walk(h, n, x), HasPeer(h, walk),
           NEW host \in Tallied(h, n, x), Housed(h, n, r, host)
    PROVE  LET q == [walk EXCEPT !.host = host]
           IN  /\ OnRules(h, n, r, q) /\ q \in Walk(h, n, x) /\ q.host = host
               /\ q.slot = walk.slot /\ q.event = walk.event /\ q.over = walk.over
<1>1. PICK q : q = [walk EXCEPT !.host = host]
  OBVIOUS
<1>2. /\ q \in Walk(h, n, x) /\ q.host = host /\ q.slot = walk.slot
      /\ q.event = walk.event /\ q.over = walk.over
  BY <1>1 DEF Walk
<1> QED BY <1>1, <1>2 DEF OnRules, HasPeer

\* A peer is connected.
LEMMA NotifyConnectOnRules ==
    ASSUME NEW h \in HOSTS, NEW n \in Nat, NEW x \in Nat, NEW r \in Rules(h, n),
           NEW walk \in Walk(h, n, x), OnRules(h, n, r, walk),
           PeerOf(walk).state # "DISCONNECTED",
           MayTurn(r, walk.slot, PeerOf(walk), "CONNECTED")
    PROVE  LET q == NotifyConnect(walk)
           IN  /\ OnRules(h, n, r, q) /\ q.slot = walk.slot /\ q.over = walk.over
               /\ PeerOf(q).state = "CONNECTED"
               /\ q.event = [type |-> "CONNECT", connect_id |-> PeerOf(walk).connect_id]
<1>1. PICK host \in Tallied(h, n, x), s \in Slots(h), p \in Peer(n) :
         /\ host = walk.host /\ s = walk.slot /\ p = host.peers[s]
         /\ p = PeerOf(walk) /\ p \in Abiding(n, r, s) /\ Housed(h, n, r, host)
  BY WalkPeer
<1>2. PICK m : m = ChangeState(host, s, "CONNECTED")
  OBVIOUS
<1>3. "CONNECTED" \in States /\ host.peers[s].state # "DISCONNECTED"
      /\ MayTurn(r, s, host.peers[s], "CONNECTED")
  BY <1>1 DEF States
<1>4. /\ m \in Tallied(h, n, x) /\ m.peers[s].state = "CONNECTED"
      /\ \E q \in Peer(n) : OnlyState(host.peers[s], q) /\ Puts(host, m, s, q)
  <2>1. PICK st \in States : st = "CONNECTED" /\ st # "DISCONNECTED"
    BY <1>3
  <2>2. m = ChangeState(host, s, st)
    BY <1>2, <2>1
  <2>3. /\ m \in Tallied(h, n, x) /\ m.peers[s].state = st
        /\ \E q \in Peer(n) : /\ q.state = st /\ OnlyState(host.peers[s], q)
                             /\ Puts(host, m, s, q)
    <3>1. st \in States /\ st # "DISCONNECTED" /\ host.peers[s].state # "DISCONNECTED"
      BY <1>3, <2>1
    <3>2. host \in Tallied(h, n, x) /\ s \in Slots(h)
      BY <1>1
    <3> QED BY <2>2, <3>1, <3>2, ChangeStateLemma
  <2> QED BY <2>1, <2>3
<1>5. Housed(h, n, r, m)
  BY <1>1, <1>2, <1>3, ChangeStateHoused
<1>6. m.peers[s].connect_id = p.connect_id
  <2>1. PICK q \in Peer(n) : OnlyState(p, q) /\ m.peers = [host.peers EXCEPT ![s] = q]
    BY <1>1, <1>4 DEF Puts
  <2>2. m.peers[s] = q
    BY <1>1, <2>1, HostFields DEF Tallied
  <2> QED BY <2>1, <2>2 DEF OnlyState
<1>7. PICK v : v = [walk EXCEPT !.host = m]
  OBVIOUS
<1>8. /\ OnRules(h, n, r, v) /\ v \in Walk(h, n, x) /\ v.host = m
      /\ v.slot = walk.slot /\ v.over = walk.over
  BY <1>4, <1>5, <1>7, HostOnRules DEF OnRules
<1>9. PICK w : w = Tells(v, "CONNECT")
  OBVIOUS
<1>10. /\ OnRules(h, n, r, w) /\ w.slot = v.slot /\ w.host = v.host /\ w.over = v.over
       /\ w.event = [type |-> "CONNECT", connect_id |-> PeerOf(v).connect_id]
  BY <1>8, <1>9, TellsOnRules
<1>11. PeerOf(v).connect_id = p.connect_id /\ PeerOf(w).state = "CONNECTED"
  BY <1>1, <1>4, <1>6, <1>8, <1>10 DEF PeerOf
<1>12. NotifyConnect(walk) = w
  BY <1>1, <1>2, <1>7, <1>9 DEF NotifyConnect
<1> QED BY <1>1, <1>8, <1>10, <1>11, <1>12

LEMMA SameCore ==
    ASSUME NEW p, NEW q, Core(p) = Core(q)
    PROVE  /\ p.state = q.state /\ p.address = q.address /\ p.connect_id = q.connect_id
           /\ p.outgoing_peer_id = q.outgoing_peer_id /\ p.number = q.number
<1>1. PICK k : k = Core(p)
  OBVIOUS
<1>2. /\ k.state = p.state /\ k.address = p.address /\ k.connect_id = p.connect_id
      /\ k.outgoing_peer_id = p.outgoing_peer_id /\ k.number = p.number
  BY <1>1 DEF Core
<1>3. /\ k.state = q.state /\ k.address = q.address /\ k.connect_id = q.connect_id
      /\ k.outgoing_peer_id = q.outgoing_peer_id /\ k.number = q.number
  BY <1>1 DEF Core
<1> QED BY <1>2, <1>3

LEMMA NotifyDisconnectOnRules ==
    ASSUME NEW h \in HOSTS, NEW n \in Nat, NEW x \in Nat, NEW r \in Rules(h, n),
           NEW walk \in Walk(h, n, x), OnRules(h, n, r, walk),
           PeerOf(walk).state = "DISCONNECTING"
    PROVE  LET q == NotifyDisconnect(walk)
           IN  /\ OnRules(h, n, r, q) /\ q.slot = walk.slot /\ q.over = walk.over
<1>1. PICK host \in Tallied(h, n, x), s \in Slots(h), p \in Peer(n) :
         /\ host = walk.host /\ s = walk.slot /\ p = host.peers[s]
         /\ p = PeerOf(walk) /\ p \in Abiding(n, r, s) /\ Housed(h, n, r, host)
  BY WalkPeer
<1>2. PICK v : v = Tells(walk, "DISCONNECT")
  OBVIOUS
<1>3. /\ v \in Walk(h, n, x) /\ v.host = walk.host /\ v.slot = walk.slot
      /\ v.event.type = "DISCONNECT" /\ v.over = walk.over
  <2>1. PICK type \in {"CONNECT", "DISCONNECT", "RECEIVE_ACK"} : type = "DISCONNECT"
    OBVIOUS
  <2>2. HasPeer(h, walk) /\ v = Tells(walk, type)
    BY <1>2, <2>1 DEF OnRules
  <2>3. v \in Walk(h, n, x)
    BY <2>2, TellsLemma
  <2>4. /\ OnRules(h, n, r, v) /\ v.host = walk.host /\ v.slot = walk.slot
        /\ v.over = walk.over
        /\ v.event = [type |-> type, connect_id |-> PeerOf(walk).connect_id]
    BY <2>2, TellsOnRules
  <2> QED BY <2>1, <2>3, <2>4
<1>4. PICK o \in Abiding(n, r, s) : o = Reset(p)
  BY <1>1, ResetAbides
<1>5. PICK m : m = UpdatePeer(host, s, o)
  OBVIOUS
<1>6. Housed(h, n, r, m)
  BY <1>1, <1>4, <1>5, HousedPeer, UpdateHoused
<1>7. PICK q : q = [v EXCEPT !.host = m]
  OBVIOUS
<1>8. q.host = m /\ q.slot = walk.slot /\ q.event = v.event /\ q.over = walk.over
  BY <1>3, <1>7 DEF Walk
<1>9. NotifyDisconnect(walk) = q
  BY <1>1, <1>2, <1>3, <1>4, <1>5, <1>7 DEF NotifyDisconnect
<1> QED BY <1>1, <1>3, <1>6, <1>8, <1>9 DEF OnRules, HasPeer

LEMMA RemovedOnRules ==
    ASSUME NEW h \in HOSTS, NEW n \in Nat, NEW x \in Nat, NEW r \in Rules(h, n),
           NEW walk \in Walk(h, n, x), OnRules(h, n, r, walk), NEW rsn
    PROVE  LET q == [Tells(walk, "RECEIVE_ACK") EXCEPT
                        !.host = UpdatePeer(@, walk.slot,
                                            RemoveSentReliableCommand(PeerOf(walk), rsn))]
           IN  /\ OnRules(h, n, r, q) /\ q.slot = walk.slot /\ q.over = walk.over
               /\ q \in Walk(h, n, x) /\ Core(PeerOf(q)) = Core(PeerOf(walk))
<1>1. PICK host \in Tallied(h, n, x), s \in Slots(h), p \in Peer(n) :
         /\ host = walk.host /\ s = walk.slot /\ p = host.peers[s]
         /\ p = PeerOf(walk) /\ p \in Abiding(n, r, s) /\ Housed(h, n, r, host)
  BY WalkPeer
<1>2. PICK v : v = Tells(walk, "RECEIVE_ACK")
  OBVIOUS
<1>3. /\ v \in Walk(h, n, x) /\ v.host = walk.host /\ v.slot = walk.slot
      /\ v.event.type = "RECEIVE_ACK" /\ v.over = walk.over
  <2>1. PICK type \in {"CONNECT", "DISCONNECT", "RECEIVE_ACK"} : type = "RECEIVE_ACK"
    OBVIOUS
  <2>2. HasPeer(h, walk) /\ v = Tells(walk, type)
    BY <1>2, <2>1 DEF OnRules
  <2>3. v \in Walk(h, n, x)
    BY <2>2, TellsLemma
  <2>4. /\ OnRules(h, n, r, v) /\ v.host = walk.host /\ v.slot = walk.slot
        /\ v.over = walk.over
        /\ v.event = [type |-> type, connect_id |-> PeerOf(walk).connect_id]
    BY <2>2, TellsOnRules
  <2> QED BY <2>1, <2>3, <2>4
<1>4. PICK o \in Abiding(n, r, s) :
         o = RemoveSentReliableCommand(p, rsn) /\ Core(o) = Core(p)
  BY <1>1, RemoveAbides
<1>5. PICK m : m = UpdatePeer(host, s, o)
  OBVIOUS
<1>6. Housed(h, n, r, m)
  BY <1>1, <1>4, <1>5, HousedPeer, UpdateHoused
<1>7. m \in Tallied(h, n, x) /\ m.peers[s] = o
  <2>1. o.state = p.state /\ o \in Peer(n)
    BY <1>4, SameCore, AbidingFields
  <2>2. o.state \in CountedStates <=> Counted(host, s)
    BY <1>1, <2>1 DEF Counted
  <2> QED BY <1>5, <2>1, <2>2, UpdateLemma
<1>8. PICK q : q = [v EXCEPT !.host = m]
  OBVIOUS
<1>9. /\ q \in Walk(h, n, x) /\ q.host = m /\ q.slot = walk.slot
      /\ q.event = v.event /\ q.over = walk.over
  BY <1>3, <1>7, <1>8 DEF Walk
<1>10. q = [Tells(walk, "RECEIVE_ACK") EXCEPT
               !.host = UpdatePeer(@, walk.slot,
                                   RemoveSentReliableCommand(PeerOf(walk), rsn))]
  BY <1>1, <1>2, <1>3, <1>4, <1>5, <1>8
<1>11. Core(PeerOf(q)) = Core(PeerOf(walk))
  BY <1>1, <1>4, <1>7, <1>9 DEF PeerOf
<1> QED BY <1>1, <1>3, <1>6, <1>9, <1>10, <1>11 DEF OnRules, HasPeer

\* HandleAcknowledge, where the acknowledgement of a VERIFY_CONNECT connects
\* no peer that the rules would not have connected.
LEMMA HandleAcknowledgeOnRules ==
    ASSUME NEW h \in HOSTS, NEW n \in Nat, NEW x \in Nat, NEW r \in Rules(h, n),
           NEW walk \in Walk(h, n, x), OnRules(h, n, r, walk), NEW c \in Control(n),
           /\ PeerOf(walk).state = "ACKNOWLEDGING_CONNECT"
           /\ RemovedType(PeerOf(walk), c.rsn) = "VERIFY_CONNECT"
           => MayTurn(r, walk.slot, PeerOf(walk), "CONNECTED")
    PROVE  LET q == HandleAcknowledge(walk, c)
           IN  /\ OnRules(h, n, r, q) /\ q.slot = walk.slot
<1>1. PICK removed : removed =
         [Tells(walk, "RECEIVE_ACK") EXCEPT
             !.host = UpdatePeer(@, walk.slot,
                                 RemoveSentReliableCommand(PeerOf(walk), c.rsn))]
  OBVIOUS
<1>2. /\ OnRules(h, n, r, removed) /\ removed.slot = walk.slot
      /\ removed \in Walk(h, n, x) /\ Core(PeerOf(removed)) = Core(PeerOf(walk))
  BY <1>1, RemovedOnRules
<1>3. PeerOf(removed).state = PeerOf(walk).state /\ PeerOf(removed).number = PeerOf(walk).number
  BY <1>2, SameCore
<1>4. PICK told : told = Tells(walk, "RECEIVE_ACK")
  OBVIOUS
<1>5. OnRules(h, n, r, told) /\ told.slot = walk.slot
  <2>1. PICK type : type = "RECEIVE_ACK"
    OBVIOUS
  <2>2. told = Tells(walk, type)
    BY <1>4, <2>1
  <2>3. /\ OnRules(h, n, r, told) /\ told.slot = walk.slot
        /\ told.event = [type |-> type, connect_id |-> PeerOf(walk).connect_id]
    BY <2>2, TellsOnRules
  <2> QED BY <2>3
<1>6. PICK over : over = [removed EXCEPT !.over = TRUE]
  OBVIOUS
<1>7. OnRules(h, n, r, over) /\ over.slot = walk.slot
  BY <1>2, <1>6 DEF Walk, OnRules, HasPeer
<1>8. ASSUME PeerOf(walk).state = "ACKNOWLEDGING_CONNECT",
             RemovedType(PeerOf(walk), c.rsn) = "VERIFY_CONNECT"
      PROVE  OnRules(h, n, r, NotifyConnect(removed)) /\ NotifyConnect(removed).slot = walk.slot
  <2>1. MayTurn(r, removed.slot, PeerOf(removed), "CONNECTED")
    BY <1>2, <1>3, <1>8 DEF MayTurn
  <2>2. PeerOf(removed).state # "DISCONNECTED"
    BY <1>3, <1>8
  <2> QED BY <1>2, <2>1, <2>2, NotifyConnectOnRules
<1>9. ASSUME PeerOf(walk).state = "DISCONNECTING"
      PROVE  /\ OnRules(h, n, r, NotifyDisconnect(removed))
             /\ NotifyDisconnect(removed).slot = walk.slot
  BY <1>2, <1>3, <1>9, NotifyDisconnectOnRules
<1>10. PICK left : left = [removed EXCEPT !.host = DisconnectConnected(@, walk.slot)]
  OBVIOUS
<1>11. ASSUME PeerOf(walk).state = "DISCONNECT_LATER"
       PROVE  OnRules(h, n, r, left) /\ left.slot = walk.slot
  <2>1. PICK host \in Tallied(h, n, x), s \in Slots(h), p \in Peer(n) :
           /\ host = removed.host /\ s = removed.slot /\ p = host.peers[s]
           /\ p = PeerOf(removed) /\ p \in Abiding(n, r, s) /\ Housed(h, n, r, host)
    BY <1>2, WalkPeer
  <2>2. PICK m : m = DisconnectConnected(host, s)
    OBVIOUS
  <2>3. host.peers[s].state # "DISCONNECTED"
    BY <1>3, <1>11, <2>1
  <2>4. Housed(h, n, r, m)
    BY <2>1, <2>2, <2>3, DisconnectConnectedHoused
  <2>5. left = [removed EXCEPT !.host = m]
    BY <1>2, <1>10, <2>1, <2>2
  <2>6. left.host = m /\ left.slot = walk.slot /\ left.event = removed.event
    BY <1>2, <2>5 DEF Walk
  <2> QED BY <1>2, <2>4, <2>6 DEF OnRules, HasPeer
<1>12. \/ HandleAcknowledge(walk, c) \in {told, over, removed}
       \/ /\ PeerOf(walk).state = "ACKNOWLEDGING_CONNECT"
          /\ RemovedType(PeerOf(walk), c.rsn) = "VERIFY_CONNECT"
          /\ HandleAcknowledge(walk, c) = NotifyConnect(removed)
       \/ /\ PeerOf(walk).state = "DISCONNECTING"
          /\ HandleAcknowledge(walk, c) = NotifyDisconnect(removed)
       \/ /\ PeerOf(walk).state = "DISCONNECT_LATER"
          /\ HandleAcknowledge(walk, c) = left
  BY <1>1, <1>4, <1>6, <1>10 DEF HandleAcknowledge
<1>13. CASE HandleAcknowledge(walk, c) \in {told, over, removed}
  BY <1>2, <1>5, <1>7, <1>13
<1>14. CASE /\ PeerOf(walk).state = "ACKNOWLEDGING_CONNECT"
            /\ RemovedType(PeerOf(walk), c.rsn) = "VERIFY_CONNECT"
            /\ HandleAcknowledge(walk, c) = NotifyConnect(removed)
  BY <1>8, <1>14
<1>15. CASE /\ PeerOf(walk).state = "DISCONNECTING"
            /\ HandleAcknowledge(walk, c) = NotifyDisconnect(removed)
  BY <1>9, <1>15
<1>16. CASE /\ PeerOf(walk).state = "DISCONNECT_LATER"
            /\ HandleAcknowledge(walk, c) = left
  BY <1>11, <1>16
<1> QED BY <1>12, <1>13, <1>14, <1>15, <1>16

\* HandleDisconnect, whoever receives it.
LEMMA HandleDisconnectOnRules ==
    ASSUME NEW h \in HOSTS, NEW n \in Nat, NEW x \in Nat, NEW r \in Rules(h, n),
           NEW walk \in Walk(h, n, x), OnRules(h, n, r, walk), NEW c
    PROVE  LET q == HandleDisconnect(walk, c)
           IN  /\ OnRules(h, n, r, q) /\ q.slot = walk.slot
               /\ q.event = walk.event /\ q.over = walk.over
<1>1. PICK host \in Tallied(h, n, x), s \in Slots(h), p \in Peer(n) :
         /\ host = walk.host /\ s = walk.slot /\ p = host.peers[s]
         /\ p = PeerOf(walk) /\ p \in Abiding(n, r, s) /\ Housed(h, n, r, host)
  BY WalkPeer
<1>2. PICK o \in Abiding(n, r, s) : o = ResetPeerQueues(p) /\ Core(o) = Core(p)
  BY <1>1, ResetQueuesAbides
<1>3. o.state = p.state /\ o \in Peer(n)
  BY <1>2, SameCore, AbidingFields
<1>4. PICK queues : queues = UpdatePeer(host, s, o)
  OBVIOUS
<1>5. queues \in Tallied(h, n, x) /\ queues.peers[s] = o
  <2>1. o.state \in CountedStates <=> Counted(host, s)
    BY <1>1, <1>3 DEF Counted
  <2> QED BY <1>3, <1>4, <2>1, UpdateLemma
<1>6. Housed(h, n, r, queues)
  BY <1>1, <1>2, <1>4, HousedPeer, UpdateHoused
<1>7. ASSUME p.state # "DISCONNECTED"
      PROVE  /\ Housed(h, n, r, DispatchState(queues, s, "ZOMBIE"))
             /\ Housed(h, n, r, ChangeState(queues, s, "ACKNOWLEDGING_DISCONNECT"))
  <2>1. queues.peers[s].state # "DISCONNECTED"
    BY <1>3, <1>5, <1>7
  <2>2. "ZOMBIE" \in Closing /\ "ACKNOWLEDGING_DISCONNECT" \in Closing
    BY DEF Closing
  <2> QED BY <1>5, <1>6, <2>1, <2>2, ClosingHoused
<1>8. Housed(h, n, r, UpdatePeer(queues, s, Reset(o)))
  <2>1. PICK z \in Abiding(n, r, s) : z = Reset(o)
    BY <1>2, ResetAbides
  <2> QED BY <1>5, <1>6, <2>1, UpdateHoused DEF Tallied
<1>9. PICK m : HandleDisconnect(walk, c) = [walk EXCEPT !.host = m] /\
         \/ p.state # "DISCONNECTED" /\ m = DispatchState(queues, s, "ZOMBIE")
         \/ m = UpdatePeer(queues, s, Reset(o))
         \/ /\ p.state # "DISCONNECTED"
            /\ m = ChangeState(queues, s, "ACKNOWLEDGING_DISCONNECT")
         \/ m = walk.host
  BY <1>1, <1>2, <1>4, <1>5 DEF HandleDisconnect, Counted, CountedStates
<1>10. Housed(h, n, r, m)
  BY <1>1, <1>7, <1>8, <1>9
<1>11. PICK q : q = [walk EXCEPT !.host = m]
  OBVIOUS
<1>12. q.host = m /\ q.slot = walk.slot /\ q.event = walk.event /\ q.over = walk.over
  BY <1>11 DEF Walk
<1> QED BY <1>1, <1>9, <1>10, <1>11, <1>12 DEF OnRules, HasPeer
-----------------------------------------------------------------------------
(* Both ends of a connection, while each guest asks for one only.          *)

Guests == HOSTS \ {SERVER}

\* What the invariant goes by: who asked for each connection, which guests
\* were told CONNECT, the slot of a guest that connects, and the slot at the
\* server that a guest that was told holds.
Accounts == [asked : Seq(Guests), told : SUBSET Guests, home : [Guests -> Nat],
             away : [Guests -> Slots(SERVER)]]

\* The connection id is the guest's.
Owns(e, g, id) == id \in DOMAIN e.asked /\ e.asked[id] = g

\* A guest has one peer, which is CONNECTING until the guest is told, and
\* sends to the slot the guest holds once it was.
GuestCores(e, g, t) ==
    {k \in Cores(Len(e.asked)) :
        \/ k = Free
        \/ /\ k.state \notin {"DISCONNECTED", "ACKNOWLEDGING_CONNECT"} /\ k.number # 0
           /\ t = e.home[g] /\ k.address = SERVER /\ Owns(e, g, k.connect_id)
           /\ g \in e.told => k.outgoing_peer_id = e.away[g] /\ k.state # "CONNECTING"
           /\ k.state \in CountedStates => g \in e.told}

\* A peer of the server belongs to the guest that asked and sends to its
\* slot; it is connected only if the guest was told and holds it.
ServerCores(e, s) ==
    {k \in Cores(Len(e.asked)) :
        \/ k = Free
        \/ /\ k.state \notin {"DISCONNECTED", "CONNECTING"} /\ k.number # 0
           /\ k.address \in Guests /\ Owns(e, k.address, k.connect_id)
           /\ k.outgoing_peer_id = e.home[k.address]
           /\ k.state \in CountedStates => k.address \in e.told /\ s = e.away[k.address]}

\* The commands of a guest; those of the server, of which VERIFY_CONNECT is
\* the first it sends to a guest.
GuestCommands(e, g) ==
    {c \in Control(Len(e.asked)) :
        /\ c.type \in {"CONNECT", "PING", "DISCONNECT"}
        /\ c.type = "CONNECT" => Owns(e, g, c.connect_id) /\ c.outgoing_peer_id = e.home[g]}

ServerCommands(n) ==
    {c \in Control(n) :
        /\ c.type \in {"VERIFY_CONNECT", "PING", "DISCONNECT"}
        /\ c.type = "VERIFY_CONNECT" <=> c.rsn = 1
        /\ c.type = "VERIFY_CONNECT" => c.outgoing_peer_id \in Slots(SERVER)}

\* A guest acknowledges the first command only once it was told.
GuestAnswers(e, g) == {a \in Answers : a.rsn = 1 => g \in e.told}

GuestRules(e, g) ==
    [cores |-> [s \in Slots(g) |-> GuestCores(e, g, s)],
     commands |-> GuestCommands(e, g), answers |-> GuestAnswers(e, g)]

ServerRules(e) ==
    [cores |-> [s \in Slots(SERVER) |-> ServerCores(e, s)],
     commands |-> ServerCommands(Len(e.asked)), answers |-> Answers]

RulesAt(e, h) == IF h = SERVER THEN ServerRules(e) ELSE GuestRules(e, h)

\* While the server receives d, the slot that d is for answers its sender.
ServingCores(e, d, s) ==
    {k \in ServerCores(e, s) :
        s = d.slot /\ k.state = "ACKNOWLEDGING_CONNECT" => k.address = d.from}

ServingRules(e, d) ==
    [cores |-> [s \in Slots(SERVER) |-> ServingCores(e, d, s)],
     commands |-> ServerCommands(Len(e.asked)), answers |-> Answers]

\* The guest g was told of its connection, and holds the slot a.
Told(e, g, a) ==
    [asked |-> e.asked, told |-> e.told \cup {g}, home |-> e.home,
     away |-> [e.away EXCEPT ![g] = a]]

LEMMA AccountFields ==
    ASSUME NEW e \in Accounts
    PROVE  /\ e.asked \in Seq(Guests) /\ Len(e.asked) \in Nat
           /\ DOMAIN e.asked = 1..Len(e.asked)
           /\ e.told \in SUBSET Guests /\ e.home \in [Guests -> Nat]
           /\ e.away \in [Guests -> Slots(SERVER)]
<1>1. /\ e.asked \in Seq(Guests) /\ e.told \in SUBSET Guests
      /\ e.home \in [Guests -> Nat] /\ e.away \in [Guests -> Slots(SERVER)]
  BY DEF Accounts
<1> QED BY <1>1

LEMMA ToldFields ==
    ASSUME NEW e \in Accounts, NEW g \in Guests, NEW a \in Slots(SERVER)
    PROVE  LET f == Told(e, g, a)
           IN  /\ f \in Accounts /\ f.asked = e.asked /\ f.told = e.told \cup {g}
               /\ f.home = e.home /\ f.away \in [Guests -> Slots(SERVER)] /\ f.away[g] = a
               /\ \A o \in Guests : o # g => f.away[o] = e.away[o]
<1>1. PICK b \in [Guests -> Slots(SERVER)] : b = [e.away EXCEPT ![g] = a]
  BY AccountFields
<1>2. b[g] = a /\ \A o \in Guests : o # g => b[o] = e.away[o]
  BY <1>1, AccountFields
<1>3. PICK f : f = [asked |-> e.asked, told |-> e.told \cup {g}, home |-> e.home, away |-> b]
  OBVIOUS
<1>4. /\ f \in Accounts /\ f.asked = e.asked /\ f.told = e.told \cup {g}
      /\ f.home = e.home /\ f.away = b
  BY <1>3, AccountFields DEF Accounts
<1> QED BY <1>1, <1>2, <1>3, <1>4 DEF Told

LEMMA FreeCore == ASSUME NEW n \in Nat PROVE Free \in Cores(n)
  BY DEF Free, Cores, States, Nobody

LEMMA MovedCore ==
    ASSUME NEW n \in Nat, NEW k \in Cores(n), NEW st \in Onward(k.state), NEW m \in Nat
    PROVE  LET q == Moved(k, st, m)
           IN  /\ q \in Cores(n) /\ q.state = st /\ q.number = m /\ q.address = k.address
               /\ q.connect_id = k.connect_id /\ q.outgoing_peer_id = k.outgoing_peer_id
<1>1. st \in States
  BY DEF Cores, Onward, Closing, CountedStates, States
<1>2. PICK q : q = Moved(k, st, m)
  OBVIOUS
<1>3. /\ q.state = st /\ q.number = m /\ q.address = k.address
      /\ q.connect_id = k.connect_id /\ q.outgoing_peer_id = k.outgoing_peer_id
  BY <1>2 DEF Moved
<1>4. q \in Cores(n)
  BY <1>1, <1>2 DEF Moved, Cores
<1> QED BY <1>2, <1>3, <1>4

LEMMA OnwardStates ==
    ASSUME NEW st, NEW to \in Onward(st), st # "DISCONNECTED"
    PROVE  /\ to # "DISCONNECTED"
           /\ to = "CONNECTING" => st = to
           /\ to = "ACKNOWLEDGING_CONNECT" => st = to
           /\ to \in CountedStates => st \in CountedStates
  BY DEF Onward, Closing, CountedStates

LEMMA GuestClosed ==
    ASSUME NEW e \in Accounts, NEW g \in Guests, NEW t
    PROVE  Closed(GuestCores(e, g, t))
<1>1. Free \in GuestCores(e, g, t)
  BY FreeCore, AccountFields DEF GuestCores
<1>2. ASSUME NEW k \in GuestCores(e, g, t), k.state = "DISCONNECTED" PROVE k = Free
  BY <1>2 DEF GuestCores
<1>3. ASSUME NEW k \in GuestCores(e, g, t), k.state # "DISCONNECTED"
      PROVE  /\ k.number # 0
             /\ \A st \in Onward(k.state), m \in Nat \ {0} : Moved(k, st, m) \in GuestCores(e, g, t)
  <2>1. /\ k.state \notin {"DISCONNECTED", "ACKNOWLEDGING_CONNECT"} /\ k.number # 0
        /\ t = e.home[g] /\ k.address = SERVER /\ Owns(e, g, k.connect_id)
        /\ g \in e.told => k.outgoing_peer_id = e.away[g] /\ k.state # "CONNECTING"
        /\ k.state \in CountedStates => g \in e.told
        /\ k \in Cores(Len(e.asked))
    BY <1>3 DEF GuestCores, Free
  <2>2. ASSUME NEW st \in Onward(k.state), NEW m \in Nat \ {0}
        PROVE  Moved(k, st, m) \in GuestCores(e, g, t)
    <3>1. PICK q \in Cores(Len(e.asked)) :
             /\ q = Moved(k, st, m) /\ q.state = st /\ q.number = m /\ q.address = k.address
             /\ q.connect_id = k.connect_id /\ q.outgoing_peer_id = k.outgoing_peer_id
      BY <2>1, AccountFields, MovedCore
    <3>2. /\ st \notin {"DISCONNECTED", "ACKNOWLEDGING_CONNECT"}
          /\ st = "CONNECTING" => k.state = "CONNECTING"
          /\ st \in CountedStates => k.state \in CountedStates
      BY <2>1, OnwardStates
    <3>3. q \in GuestCores(e, g, t)
      BY <2>1, <3>1, <3>2 DEF GuestCores
    <3> QED BY <3>1, <3>3
  <2> QED BY <2>1, <2>2
<1> QED BY <1>1, <1>2, <1>3 DEF Closed

LEMMA ServerClosed ==
    ASSUME NEW e \in Accounts, NEW s
    PROVE  Closed(ServerCores(e, s)) /\ \A d : Closed(ServingCores(e, d, s))
<1>1. Free \in ServerCores(e, s)
  BY FreeCore, AccountFields DEF ServerCores
<1>2. ASSUME NEW k \in ServerCores(e, s), k.state = "DISCONNECTED" PROVE k = Free
  BY <1>2 DEF ServerCores
<1>3. ASSUME NEW k \in ServerCores(e, s), k.state # "DISCONNECTED",
             NEW st \in Onward(k.state), NEW m \in Nat \ {0}
      PROVE  /\ k.number # 0 /\ Moved(k, st, m) \in ServerCores(e, s)
             /\ Moved(k, st, m).address = k.address
             /\ Moved(k, st, m).state = "ACKNOWLEDGING_CONNECT"
                   => k.state = "ACKNOWLEDGING_CONNECT"
  <2>1. /\ k.state \notin {"DISCONNECTED", "CONNECTING"} /\ k.number # 0
        /\ k.address \in Guests /\ Owns(e, k.address, k.connect_id)
        /\ k.outgoing_peer_id = e.home[k.address]
        /\ k.state \in CountedStates => k.address \in e.told /\ s = e.away[k.address]
        /\ k \in Cores(Len(e.asked))
    BY <1>3 DEF ServerCores, Free
  <2>2. PICK q \in Cores(Len(e.asked)) :
           /\ q = Moved(k, st, m) /\ q.state = st /\ q.number = m /\ q.address = k.address
           /\ q.connect_id = k.connect_id /\ q.outgoing_peer_id = k.outgoing_peer_id
    BY <2>1, AccountFields, MovedCore
  <2>3. /\ st \notin {"DISCONNECTED", "CONNECTING"}
        /\ st = "ACKNOWLEDGING_CONNECT" => k.state = "ACKNOWLEDGING_CONNECT"
        /\ st \in CountedStates => k.state \in CountedStates
    BY <2>1, OnwardStates
  <2>4. q \in ServerCores(e, s)
    BY <2>1, <2>2, <2>3 DEF ServerCores
  <2> QED BY <2>1, <2>2, <2>3, <2>4
<1>4. \A k \in ServerCores(e, s) : k.state # "DISCONNECTED" => k.number # 0
  BY DEF ServerCores, Free
<1>5. Closed(ServerCores(e, s))
  BY <1>1, <1>2, <1>3, <1>4 DEF Closed
<1>6. ASSUME NEW d PROVE Closed(ServingCores(e, d, s))
  <2>1. Free \in ServingCores(e, d, s)
    BY <1>1 DEF ServingCores, Free
  <2> QED BY <1>2, <1>3, <1>4, <2>1 DEF Closed, ServingCores
<1> QED BY <1>5, <1>6

LEMMA LaterLists ==
    ASSUME NEW e \in Accounts
    PROVE  /\ \A g : Later(Len(e.asked)) \subseteq GuestCommands(e, g)
           /\ Later(Len(e.asked)) \subseteq ServerCommands(Len(e.asked))
  BY DEF Later, GuestCommands, ServerCommands

LEMMA RulesOf ==
    ASSUME NEW h, NEW n, NEW K \in [Slots(h) -> SUBSET Cores(n)], NEW S \in SUBSET Control(n),
           NEW A \in SUBSET Answers, \A s \in Slots(h) : Closed(K[s]), Later(n) \subseteq S
    PROVE  LET r == [cores |-> K, commands |-> S, answers |-> A]
           IN  r \in Rules(h, n) /\ r.cores = K /\ r.commands = S /\ r.answers = A
<1>1. PICK r : r = [cores |-> K, commands |-> S, answers |-> A]
  OBVIOUS
<1>2. r.cores = K /\ r.commands = S /\ r.answers = A
  BY <1>1
<1>3. r \in Rules(h, n)
  BY <1>1, <1>2 DEF Rules
<1> QED BY <1>1, <1>2, <1>3

LEMMA GuestRulesLemma ==
    ASSUME NEW e \in Accounts, NEW g \in Guests
    PROVE  LET r == GuestRules(e, g)
           IN  /\ r \in Rules(g, Len(e.asked)) /\ r.commands = GuestCommands(e, g)
               /\ r.answers = GuestAnswers(e, g)
               /\ \A s \in Slots(g) : r.cores[s] = GuestCores(e, g, s)
<1>1. PICK K : K = [s \in Slots(g) |-> GuestCores(e, g, s)]
  OBVIOUS
<1>2. /\ K \in [Slots(g) -> SUBSET Cores(Len(e.asked))]
      /\ \A s \in Slots(g) : K[s] = GuestCores(e, g, s)
  <2>1. \A s \in Slots(g) : GuestCores(e, g, s) \in SUBSET Cores(Len(e.asked))
    BY DEF GuestCores
  <2> QED BY <1>1, <2>1
<1>3. \A s \in Slots(g) : Closed(K[s])
  BY <1>2, GuestClosed
<1>4. GuestCommands(e, g) \in SUBSET Control(Len(e.asked)) /\ GuestAnswers(e, g) \in SUBSET Answers
  BY DEF GuestCommands, GuestAnswers
<1>5. PICK S \in SUBSET Control(Len(e.asked)), A \in SUBSET Answers :
         S = GuestCommands(e, g) /\ A = GuestAnswers(e, g) /\ Later(Len(e.asked)) \subseteq S
  BY <1>4, LaterLists
<1>6. PICK r : r = [cores |-> K, commands |-> S, answers |-> A]
  OBVIOUS
<1>7. r \in Rules(g, Len(e.asked)) /\ r.cores = K /\ r.commands = S /\ r.answers = A
  BY <1>2, <1>3, <1>5, <1>6, RulesOf
<1>8. GuestRules(e, g) = r
  BY <1>1, <1>5, <1>6 DEF GuestRules
<1> QED BY <1>2, <1>5, <1>7, <1>8

LEMMA ServerRulesLemma ==
    ASSUME NEW e \in Accounts
    PROVE  LET r == ServerRules(e)
           IN  /\ r \in Rules(SERVER, Len(e.asked)) /\ r.commands = ServerCommands(Len(e.asked))
               /\ r.answers = Answers
               /\ \A s \in Slots(SERVER) : r.cores[s] = ServerCores(e, s)
<1>1. PICK K : K = [s \in Slots(SERVER) |-> ServerCores(e, s)]
  OBVIOUS
<1>2. /\ K \in [Slots(SERVER) -> SUBSET Cores(Len(e.asked))]
      /\ \A s \in Slots(SERVER) : K[s] = ServerCores(e, s)
  <2>1. \A s \in Slots(SERVER) : ServerCores(e, s) \in SUBSET Cores(Len(e.asked))
    BY DEF ServerCores
  <2> QED BY <1>1, <2>1
<1>3. \A s \in Slots(SERVER) : Closed(K[s])
  BY <1>2, ServerClosed
<1>4. ServerCommands(Len(e.asked)) \in SUBSET Control(Len(e.asked)) /\ Answers \in SUBSET Answers
  BY DEF ServerCommands
<1>5. PICK S \in SUBSET Control(Len(e.asked)), A \in SUBSET Answers :
         S = ServerCommands(Len(e.asked)) /\ A = Answers /\ Later(Len(e.asked)) \subseteq S
  BY <1>4, LaterLists
<1>6. PICK r : r = [cores |-> K, commands |-> S, answers |-> A]
  OBVIOUS
<1>7. r \in Rules(SERVER, Len(e.asked)) /\ r.cores = K /\ r.commands = S /\ r.answers = A
  BY <1>2, <1>3, <1>5, <1>6, RulesOf
<1>8. ServerRules(e) = r
  BY <1>1, <1>5, <1>6 DEF ServerRules
<1> QED BY <1>2, <1>5, <1>7, <1>8

LEMMA ServingRulesLemma ==
    ASSUME NEW e \in Accounts, NEW d
    PROVE  LET r == ServingRules(e, d)
           IN  /\ r \in Rules(SERVER, Len(e.asked)) /\ r.commands = ServerCommands(Len(e.asked))
               /\ r.answers = Answers
               /\ \A s \in Slots(SERVER) : r.cores[s] = ServingCores(e, d, s)
<1>1. PICK K : K = [s \in Slots(SERVER) |-> ServingCores(e, d, s)]
  OBVIOUS
<1>2. /\ K \in [Slots(SERVER) -> SUBSET Cores(Len(e.asked))]
      /\ \A s \in Slots(SERVER) : K[s] = ServingCores(e, d, s)
  <2>1. \A s \in Slots(SERVER) : ServingCores(e, d, s) \in SUBSET Cores(Len(e.asked))
    BY DEF ServingCores, ServerCores
  <2> QED BY <1>1, <2>1
<1>3. \A s \in Slots(SERVER) : Closed(K[s])
  BY <1>2, ServerClosed
<1>4. ServerCommands(Len(e.asked)) \in SUBSET Control(Len(e.asked)) /\ Answers \in SUBSET Answers
  BY DEF ServerCommands
<1>5. PICK S \in SUBSET Control(Len(e.asked)), A \in SUBSET Answers :
         S = ServerCommands(Len(e.asked)) /\ A = Answers /\ Later(Len(e.asked)) \subseteq S
  BY <1>4, LaterLists
<1>6. PICK r : r = [cores |-> K, commands |-> S, answers |-> A]
  OBVIOUS
<1>7. r \in Rules(SERVER, Len(e.asked)) /\ r.cores = K /\ r.commands = S /\ r.answers = A
  BY <1>2, <1>3, <1>5, <1>6, RulesOf
<1>8. ServingRules(e, d) = r
  BY <1>1, <1>5, <1>6 DEF ServingRules
<1> QED BY <1>2, <1>5, <1>7, <1>8

LEMMA Widen ==
    ASSUME NEW n \in Nat, NEW m \in Nat, n <= m
    PROVE  /\ Control(n) \subseteq Control(m) /\ Peer(n) \subseteq Peer(m)
           /\ Datagrams(n) \subseteq Datagrams(m) /\ Cores(n) \subseteq Cores(m)
<1>1. 0..n \subseteq 0..m
  OBVIOUS
<1>2. Control(n) \subseteq Control(m)
  BY <1>1 DEF Control
<1>3. Seq(Control(n)) \subseteq Seq(Control(m))
  BY <1>2
<1>4. Peer(n) \subseteq Peer(m)
  BY <1>1, <1>3 DEF Peer
<1>5. Datagrams(n) \subseteq Datagrams(m)
  BY <1>3 DEF Datagrams
<1>6. Cores(n) \subseteq Cores(m)
  BY <1>1 DEF Cores
<1> QED BY <1>2, <1>4, <1>5, <1>6

\* A peer abides by wider rules too.
LEMMA AbidesMore ==
    ASSUME NEW n, NEW m, Peer(n) \subseteq Peer(m), NEW r, NEW q,
           r.commands \subseteq q.commands, r.answers \subseteq q.answers,
           NEW s, NEW p \in Abiding(n, r, s), Core(p) \in q.cores[s]
    PROVE  p \in Abiding(m, q, s)
<1>1. Seq(r.commands) \subseteq Seq(q.commands) /\ Seq(r.answers) \subseteq Seq(q.answers)
  OBVIOUS
<1> QED BY <1>1 DEF Abiding

\* What is on account is kept, and more is added.
Grows(e, f) ==
    /\ Len(e.asked) <= Len(f.asked)
    /\ \A g \in Guests, id \in DOMAIN e.asked :
          Owns(e, g, id) => Owns(f, g, id) /\ f.home[g] = e.home[g]
    /\ e.told \subseteq f.told
    /\ \A g \in e.told : f.away[g] = e.away[g]

LEMMA ToldGrows ==
    ASSUME NEW e \in Accounts, NEW g \in Guests \ e.told, NEW a \in Slots(SERVER)
    PROVE  Grows(e, Told(e, g, a))
<1>1. PICK f : f = Told(e, g, a)
  OBVIOUS
<1>2. /\ f.asked = e.asked /\ f.told = e.told \cup {g} /\ f.home = e.home
      /\ \A o \in Guests : o # g => f.away[o] = e.away[o]
  BY <1>1, ToldFields
<1>3. \A o \in e.told : f.away[o] = e.away[o]
  BY <1>2, AccountFields
<1>4. Len(e.asked) <= Len(f.asked)
  BY <1>2, AccountFields
<1>5. \A o, id : Owns(e, o, id) => Owns(f, o, id)
  BY <1>2 DEF Owns
<1> QED BY <1>1, <1>2, <1>3, <1>4, <1>5 DEF Grows

LEMMA OwnsId ==
    ASSUME NEW e, NEW g, NEW id, Owns(e, g, id) PROVE id \in DOMAIN e.asked
  BY DEF Owns

LEMMA GrowsWider ==
    ASSUME NEW e \in Accounts, NEW f \in Accounts, Grows(e, f)
    PROVE  /\ Peer(Len(e.asked)) \subseteq Peer(Len(f.asked))
           /\ Control(Len(e.asked)) \subseteq Control(Len(f.asked))
           /\ Datagrams(Len(e.asked)) \subseteq Datagrams(Len(f.asked))
           /\ ServerCommands(Len(e.asked)) \subseteq ServerCommands(Len(f.asked))
           /\ \A s : ServerCores(e, s) \subseteq ServerCores(f, s)
           /\ \A g \in Guests : /\ GuestCommands(e, g) \subseteq GuestCommands(f, g)
                               /\ GuestAnswers(e, g) \subseteq GuestAnswers(f, g)
           /\ \A g \in Guests : (g \in f.told => g \in e.told) =>
                 \A t : GuestCores(e, g, t) \subseteq GuestCores(f, g, t)
<1>1. Len(e.asked) \in Nat /\ Len(f.asked) \in Nat /\ Len(e.asked) <= Len(f.asked)
  BY AccountFields DEF Grows
<1>2. /\ Control(Len(e.asked)) \subseteq Control(Len(f.asked))
      /\ Peer(Len(e.asked)) \subseteq Peer(Len(f.asked))
      /\ Datagrams(Len(e.asked)) \subseteq Datagrams(Len(f.asked))
      /\ Cores(Len(e.asked)) \subseteq Cores(Len(f.asked))
  BY <1>1, Widen
<1>3. ServerCommands(Len(e.asked)) \subseteq ServerCommands(Len(f.asked))
  BY <1>2 DEF ServerCommands
<1>4. \A g \in Guests : \A id : Owns(e, g, id) => Owns(f, g, id) /\ f.home[g] = e.home[g]
  BY OwnsId DEF Grows
<1>5. e.told \subseteq f.told /\ \A g \in e.told : f.away[g] = e.away[g]
  BY DEF Grows
<1>6. ASSUME NEW s, NEW k \in ServerCores(e, s) PROVE k \in ServerCores(f, s)
  <2>1. k \in Cores(Len(f.asked))
    BY <1>2 DEF ServerCores
  <2>2. CASE k = Free
    BY <2>1, <2>2 DEF ServerCores
  <2>3. CASE k # Free
    <3>1. /\ k.state \notin {"DISCONNECTED", "CONNECTING"} /\ k.number # 0
          /\ k.address \in Guests /\ Owns(e, k.address, k.connect_id)
          /\ k.outgoing_peer_id = e.home[k.address]
          /\ k.state \in CountedStates => k.address \in e.told /\ s = e.away[k.address]
      BY <2>3 DEF ServerCores
    <3>2. Owns(f, k.address, k.connect_id) /\ k.outgoing_peer_id = f.home[k.address]
      BY <1>4, <3>1
    <3>3. k.state \in CountedStates => k.address \in f.told /\ s = f.away[k.address]
      BY <1>5, <3>1
    <3> QED BY <2>1, <3>1, <3>2, <3>3 DEF ServerCores
  <2> QED BY <2>2, <2>3
<1>7. ASSUME NEW g \in Guests
      PROVE  /\ GuestCommands(e, g) \subseteq GuestCommands(f, g)
             /\ GuestAnswers(e, g) \subseteq GuestAnswers(f, g)
  <2>1. GuestCommands(e, g) \subseteq GuestCommands(f, g)
    BY <1>2, <1>4 DEF GuestCommands
  <2>2. GuestAnswers(e, g) \subseteq GuestAnswers(f, g)
    BY <1>5 DEF GuestAnswers
  <2> QED BY <2>1, <2>2
<1>8. ASSUME NEW g \in Guests, NEW t, g \in f.told => g \in e.told, NEW k \in GuestCores(e, g, t)
      PROVE  k \in GuestCores(f, g, t)
  <2>1. k \in Cores(Len(f.asked))
    BY <1>2 DEF GuestCores
  <2>2. CASE k = Free
    BY <2>1, <2>2 DEF GuestCores
  <2>3. CASE k # Free
    <3>1. /\ k.state \notin {"DISCONNECTED", "ACKNOWLEDGING_CONNECT"} /\ k.number # 0
          /\ t = e.home[g] /\ k.address = SERVER /\ Owns(e, g, k.connect_id)
          /\ g \in e.told => k.outgoing_peer_id = e.away[g] /\ k.state # "CONNECTING"
          /\ k.state \in CountedStates => g \in e.told
      BY <2>3 DEF GuestCores
    <3>2. Owns(f, g, k.connect_id) /\ t = f.home[g]
      BY <1>4, <3>1
    <3>3. /\ g \in f.told => k.outgoing_peer_id = f.away[g] /\ k.state # "CONNECTING"
          /\ k.state \in CountedStates => g \in f.told
      BY <1>5, <1>8, <3>1
    <3> QED BY <2>1, <3>1, <3>2, <3>3 DEF GuestCores
  <2> QED BY <2>2, <2>3
<1> QED BY <1>2, <1>3, <1>6, <1>7, <1>8

-----------------------------------------------------------------------------
(* A guest receives what the server sends.                                 *)

Connected(id) == [type |-> "CONNECT", connect_id |-> id]

\* A peer of a guest.
LEMMA GuestPeer ==
    ASSUME NEW e \in Accounts, NEW g \in Guests, NEW s \in Slots(g),
           NEW p \in Abiding(Len(e.asked), GuestRules(e, g), s)
    PROVE  /\ p.state # "ACKNOWLEDGING_CONNECT"
           /\ p.state \in CountedStates => g \in e.told
           /\ p.state # "DISCONNECTED" =>
                 /\ s = e.home[g] /\ p.address = SERVER /\ Owns(e, g, p.connect_id)
                 /\ p.number # 0
                 /\ g \in e.told => /\ p.outgoing_peer_id = e.away[g]
                                   /\ p.state # "CONNECTING"
           /\ p.state = "DISCONNECTED" => Core(p) = Free
<1>1. PICK k \in GuestCores(e, g, s) : k = Core(p)
  BY AbidingFields, GuestRulesLemma
<1>2. /\ k.state = p.state /\ k.address = p.address /\ k.connect_id = p.connect_id
      /\ k.outgoing_peer_id = p.outgoing_peer_id /\ k.number = p.number
  BY <1>1 DEF Core
<1>3. CASE k = Free
  BY <1>1, <1>2, <1>3 DEF Free, CountedStates
<1>4. CASE k # Free
  BY <1>1, <1>2, <1>4 DEF GuestCores, CountedStates
<1> QED BY <1>3, <1>4

\* The answer that a peer waits for: the peer is connected, and sends to the
\* slot the answer names.
LEMMA VerifyConnects ==
    ASSUME NEW h \in HOSTS, NEW n \in Nat, NEW x \in Nat, NEW r \in Rules(h, n),
           NEW walk \in Walk(h, n, x), OnRules(h, n, r, walk),
           PeerOf(walk).state = "CONNECTING", NEW c, c.connect_id = PeerOf(walk).connect_id,
           NEW a \in Nat, c.outgoing_peer_id = a
    PROVE  LET v == HandleVerifyConnect(walk, c)
           IN  \E q \in Peer(n), s \in Slots(h) :
                  /\ s = walk.slot /\ v.slot = s /\ Puts(walk.host, v.host, s, q)
                  /\ PeerOf(v) = q /\ v.event.type = "CONNECT"
                  /\ v.event.connect_id = PeerOf(walk).connect_id
                  /\ v.event = [type |-> "CONNECT", connect_id |-> PeerOf(walk).connect_id]
                  /\ q.state = "CONNECTED" /\ q.address = PeerOf(walk).address
                  /\ q.connect_id = PeerOf(walk).connect_id /\ q.outgoing_peer_id = a
                  /\ q.number = PeerOf(walk).number /\ q.outgoing \in Seq(r.commands)
                  /\ q.sent \in Seq(r.commands) /\ q.acknowledgements \in Seq(r.answers)
<1>1. PICK host \in Tallied(h, n, x), s \in Slots(h), p \in Peer(n) :
         /\ host = walk.host /\ s = walk.slot /\ p = host.peers[s]
         /\ p = PeerOf(walk) /\ p \in Abiding(n, r, s) /\ Housed(h, n, r, host)
  BY WalkPeer
<1>2. PICK one : one = 1
  OBVIOUS
<1>3. PICK o \in Abiding(n, r, s) : o = RemoveSentReliableCommand(p, one) /\ Core(o) = Core(p)
  BY <1>1, RemoveAbides
<1>4. /\ o \in Peer(n) /\ o.state = p.state /\ o.address = p.address
      /\ o.connect_id = p.connect_id /\ o.number = p.number
      /\ o.outgoing \in Seq(r.commands) /\ o.sent \in Seq(r.commands)
      /\ o.acknowledgements \in Seq(r.answers)
  BY <1>3, SameCore, AbidingFields
<1>5. PICK l : l = [o EXCEPT !.outgoing_peer_id = a]
  OBVIOUS
<1>6. /\ l \in Peer(n) /\ l.state = o.state /\ l.address = o.address
      /\ l.connect_id = o.connect_id /\ l.number = o.number /\ l.outgoing_peer_id = a
      /\ l.outgoing = o.outgoing /\ l.sent = o.sent
      /\ l.acknowledgements = o.acknowledgements
  BY <1>4, <1>5 DEF Peer
<1>7. PICK m : m = UpdatePeer(host, s, l)
  OBVIOUS
<1>8. m \in Tallied(h, n, x) /\ m.peers[s] = l /\ Puts(host, m, s, l)
  <2>1. l.state \in CountedStates <=> Counted(host, s)
    BY <1>1, <1>4, <1>6 DEF Counted
  <2> QED BY <1>1, <1>6, <1>7, <2>1, UpdateLemma
<1>9. PICK st \in States : st = "CONNECTED" /\ st # "DISCONNECTED"
  BY DEF States
<1>10. PICK z : z = ChangeState(m, s, st)
  OBVIOUS
<1>11. PICK q \in Peer(n) : /\ q.state = st /\ OnlyState(l, q) /\ Puts(m, z, s, q)
                           /\ z \in Tallied(h, n, x)
  <2>1. m.peers[s].state # "DISCONNECTED" /\ st \in States /\ st # "DISCONNECTED"
    BY <1>1, <1>4, <1>6, <1>8, <1>9
  <2>2. m \in Tallied(h, n, x) /\ s \in Slots(h) /\ m.peers[s] = l
    BY <1>1, <1>8
  <2>3. \E q \in Peer(n) : q.state = st /\ OnlyState(m.peers[s], q) /\ Puts(m, z, s, q)
    BY <1>10, <2>1, <2>2, ChangeStateLemma
  <2>4. z \in Tallied(h, n, x)
    BY <1>10, <2>1, <2>2, ChangeStateLemma
  <2> QED BY <2>2, <2>3, <2>4
<1>12. /\ q.address = p.address /\ q.connect_id = p.connect_id /\ q.outgoing_peer_id = a
       /\ q.number = p.number /\ q.outgoing \in Seq(r.commands)
       /\ q.sent \in Seq(r.commands) /\ q.acknowledgements \in Seq(r.answers)
  BY <1>4, <1>6, <1>11 DEF OnlyState
<1>13. Puts(host, z, s, q) /\ z.peers[s] = q
  BY <1>1, <1>8, <1>11, HostFields DEF Tallied, Puts
<1>14. PICK v : v = [walk EXCEPT !.host = m]
  OBVIOUS
<1>15. v \in Walk(h, n, x) /\ v.host = m /\ v.slot = s
  BY <1>1, <1>8, <1>14 DEF Walk
<1>16. PICK w : w = [v EXCEPT !.host = z]
  OBVIOUS
<1>17. w \in Walk(h, n, x) /\ w.host = z /\ w.slot = s
  BY <1>11, <1>15, <1>16 DEF Walk
<1>18. PICK y : y = Tells(w, "CONNECT")
  OBVIOUS
<1>19. PeerOf(w) = q
  BY <1>13, <1>17 DEF PeerOf
<1>20. /\ y.slot = s /\ y.host = z
       /\ y.event = [type |-> "CONNECT", connect_id |-> q.connect_id]
  BY <1>17, <1>18, <1>19 DEF Tells, Walk
<1>21. HandleVerifyConnect(walk, c) = y
  <2>1. HandleVerifyConnect(walk, c) =
           NotifyConnect([walk EXCEPT !.host = UpdatePeer(@, walk.slot,
              [RemoveSentReliableCommand(PeerOf(walk), 1) EXCEPT
                  !.outgoing_peer_id = c.outgoing_peer_id])])
    BY DEF HandleVerifyConnect
  <2>2. HandleVerifyConnect(walk, c) = NotifyConnect(v)
    BY <1>1, <1>2, <1>3, <1>5, <1>7, <1>14, <2>1
  <2>3. NotifyConnect(v) = y
    BY <1>9, <1>10, <1>15, <1>16, <1>18 DEF NotifyConnect
  <2> QED BY <2>2, <2>3
<1>22. PeerOf(y) = q
  BY <1>13, <1>20 DEF PeerOf
<1>23. PICK b : b = HandleVerifyConnect(walk, c)
  OBVIOUS
<1>24. /\ s = walk.slot /\ b.slot = s /\ Puts(walk.host, b.host, s, q) /\ PeerOf(b) = q
       /\ b.event = [type |-> "CONNECT", connect_id |-> PeerOf(walk).connect_id]
  BY <1>1, <1>12, <1>13, <1>20, <1>21, <1>22, <1>23
<1>25. /\ q.state = "CONNECTED" /\ q.address = PeerOf(walk).address
       /\ q.connect_id = PeerOf(walk).connect_id /\ q.number = PeerOf(walk).number
  BY <1>1, <1>9, <1>11, <1>12
<1>26. b.event.type = "CONNECT" /\ b.event.connect_id = PeerOf(walk).connect_id
  BY <1>24
<1> QED BY <1>12, <1>23, <1>24, <1>25, <1>26

\* The answer that the guest waits for: it is told, and holds the slot the
\* answer names.
LEMMA VerifyTells ==
    ASSUME NEW e \in Accounts, NEW g \in Guests, NEW x \in Nat,
           NEW walk \in Walk(g, Len(e.asked), x),
           OnRules(g, Len(e.asked), GuestRules(e, g), walk),
           PeerOf(walk).state = "CONNECTING", NEW c, c.connect_id = PeerOf(walk).connect_id,
           NEW a \in Slots(SERVER), c.outgoing_peer_id = a
    PROVE  LET q == HandleVerifyConnect(walk, c)
           IN  /\ g \notin e.told
               /\ OnRules(g, Len(e.asked), GuestRules(Told(e, g, a), g), q)
               /\ q.slot = walk.slot /\ PeerOf(q).state = "CONNECTED"
               /\ Owns(e, g, PeerOf(walk).connect_id)
               /\ q.event = Connected(PeerOf(walk).connect_id)
<1> DEFINE n == Len(e.asked)
           r == GuestRules(e, g)
<1>0. g \in HOSTS /\ n \in Nat /\ r \in Rules(g, n) /\ a \in Nat
  <2>1. g \in HOSTS /\ SERVER \in HOSTS
    BY LifecycleAssumption DEF Guests
  <2> QED BY <2>1, AccountFields, GuestRulesLemma, SlotsLemma
<1> HIDE DEF n, r
<1>1. PICK host \in Tallied(g, n, x), s \in Slots(g), p \in Peer(n) :
         /\ host = walk.host /\ s = walk.slot /\ p = host.peers[s]
         /\ p = PeerOf(walk) /\ p \in Abiding(n, r, s) /\ Housed(g, n, r, host)
  BY <1>0, WalkPeer DEF n, r
<1>2. /\ s = e.home[g] /\ p.address = SERVER /\ Owns(e, g, p.connect_id) /\ p.number # 0
      /\ g \notin e.told /\ p.state = "CONNECTING"
  BY <1>1, GuestPeer DEF n, r
<1>3. PICK v : v = HandleVerifyConnect(walk, c)
  OBVIOUS
<1>4. PICK q \in Peer(n), z \in Slots(g) :
         /\ z = walk.slot /\ v.slot = z /\ Puts(walk.host, v.host, z, q) /\ PeerOf(v) = q
         /\ v.event = [type |-> "CONNECT", connect_id |-> PeerOf(walk).connect_id]
         /\ q.state = "CONNECTED" /\ q.address = PeerOf(walk).address
         /\ q.connect_id = PeerOf(walk).connect_id /\ q.outgoing_peer_id = a
         /\ q.number = PeerOf(walk).number /\ q.outgoing \in Seq(r.commands)
         /\ q.sent \in Seq(r.commands) /\ q.acknowledgements \in Seq(r.answers)
  <2>1. walk \in Walk(g, n, x) /\ OnRules(g, n, r, walk)
    BY DEF n, r
  <2> QED BY <1>0, <1>3, <2>1, VerifyConnects
<1>5. Puts(host, v.host, s, q) /\ v.slot = s
  BY <1>1, <1>4
<1>6. PICK f \in Accounts :
          /\ f = Told(e, g, a) /\ f.asked = e.asked /\ f.told = e.told \cup {g}
          /\ f.home = e.home /\ f.away[g] = a /\ Grows(e, f)
  BY <1>2, ToldFields, ToldGrows
<1>7. PICK u \in Rules(g, n) :
          /\ u = GuestRules(f, g) /\ u.commands = GuestCommands(f, g)
          /\ u.answers = GuestAnswers(f, g)
          /\ \A t \in Slots(g) : u.cores[t] = GuestCores(f, g, t)
  BY <1>6, GuestRulesLemma DEF n
<1>8. r.commands \subseteq u.commands /\ r.answers \subseteq u.answers
  BY <1>6, <1>7, GrowsWider, GuestRulesLemma DEF r
<1>9. q \in Abiding(n, u, s)
  <2>1. PICK k : k = Core(q)
    OBVIOUS
  <2>2. /\ k.state = "CONNECTED" /\ k.address = SERVER /\ k.connect_id = p.connect_id
        /\ k.outgoing_peer_id = a /\ k.number = p.number
    BY <1>1, <1>2, <1>4, <2>1 DEF Core
  <2>3. k \in Cores(n)
    BY <1>4, <2>1 DEF Core, Cores, Peer
  <2>4. Owns(f, g, k.connect_id)
    BY <1>2, <1>6, <2>2 DEF Owns
  <2>5. k \in Cores(Len(f.asked)) /\ g \in f.told /\ s = f.home[g]
    BY <1>2, <1>6, <2>3 DEF n
  <2>6. k \in GuestCores(f, g, s)
    BY <1>2, <1>6, <2>2, <2>4, <2>5 DEF GuestCores
  <2>7. Seq(r.commands) \subseteq Seq(u.commands) /\ Seq(r.answers) \subseteq Seq(u.answers)
    BY <1>8
  <2> QED BY <1>4, <1>7, <2>1, <2>6, <2>7 DEF Abiding
<1>10. ASSUME NEW t \in Slots(g), t # s PROVE v.host.peers[t] \in Abiding(n, u, t)
  <2>1. v.host.peers[t] = host.peers[t]
    BY <1>0, <1>1, <1>5, <1>10, HostFields DEF Tallied, Puts
  <2>2. PICK b \in Abiding(n, r, t) : b = host.peers[t]
    BY <1>1 DEF Housed
  <2>3. Core(b) = Free
    BY <1>2, <1>10, <2>2, GuestPeer DEF n, r
  <2>4. Free \in u.cores[t]
    BY <1>0, <1>7, RulesFields DEF Closed
  <2> QED BY <1>8, <2>1, <2>2, <2>3, <2>4, AbidesMore
<1>11. v.host.peers[s] = q
  BY <1>0, <1>1, <1>5, HostFields DEF Tallied, Puts
<1>12. Housed(g, n, u, v.host)
  BY <1>9, <1>10, <1>11 DEF Housed
<1>13. OnRules(g, n, u, v)
  BY <1>5, <1>12 DEF OnRules, HasPeer
<1>14. v.event = Connected(p.connect_id)
  BY <1>1, <1>4 DEF Connected
<1> QED BY <1>1, <1>2, <1>3, <1>4, <1>5, <1>6, <1>7, <1>13, <1>14 DEF n

\* An answer that the peer does not wait for.
LEMMA VerifyKeeps ==
    ASSUME NEW h \in HOSTS, NEW n \in Nat, NEW x \in Nat, NEW r \in Rules(h, n),
           NEW walk \in Walk(h, n, x), OnRules(h, n, r, walk), NEW c,
           PeerOf(walk).state = "CONNECTING" => c.connect_id # PeerOf(walk).connect_id
    PROVE  LET q == HandleVerifyConnect(walk, c)
           IN  /\ OnRules(h, n, r, q) /\ q.slot = walk.slot /\ q.event = walk.event
               /\ PeerOf(walk).state = "CONNECTING" => q.over
               /\ PeerOf(walk).state # "CONNECTING" => q = walk
<1>1. PICK host \in Tallied(h, n, x), s \in Slots(h), p \in Peer(n) :
         /\ host = walk.host /\ s = walk.slot /\ p = host.peers[s]
         /\ p = PeerOf(walk) /\ p \in Abiding(n, r, s) /\ Housed(h, n, r, host)
  BY SMTT(30), WalkPeer
<1>2. CASE p.state # "CONNECTING"
  <2>1. HandleVerifyConnect(walk, c) = walk
    BY <1>1, <1>2 DEF HandleVerifyConnect
  <2> QED BY <1>1, <1>2, <2>1
<1>3. CASE p.state = "CONNECTING"
  <2>1. PICK m : m = DispatchState(host, s, "ZOMBIE")
    OBVIOUS
  <2>2. PICK q : q = [walk EXCEPT !.host = m, !.over = TRUE]
    OBVIOUS
  <2>3. Housed(h, n, r, m)
    <3>1. "ZOMBIE" \in Closing /\ host.peers[s].state # "DISCONNECTED"
      BY <1>1, <1>3 DEF Closing
    <3> QED BY <1>1, <2>1, <3>1, ClosingHoused
  <2>4. q.host = m /\ q.slot = walk.slot /\ q.event = walk.event /\ q.over
    BY <2>2 DEF Walk
  <2>5. HandleVerifyConnect(walk, c) = q
    BY <1>1, <1>3, <2>1, <2>2 DEF HandleVerifyConnect
  <2> QED BY <1>1, <1>3, <2>3, <2>4, <2>5 DEF OnRules, HasPeer
<1> QED BY <1>2, <1>3

LEMMA OverKeeps ==
    ASSUME NEW h, NEW n, NEW x, NEW walk \in Walk(h, n, x)
    PROVE  LET q == [walk EXCEPT !.over = TRUE]
           IN  q.host = walk.host /\ q.slot = walk.slot /\ q.event = walk.event
  BY DEF Walk

\* The guest g is told of its connection.
Telling(e, g, walk) ==
    \E a \in Slots(SERVER), id \in DOMAIN e.asked :
       /\ Owns(e, g, id) /\ walk.event = Connected(id)
       /\ Housed(g, Len(e.asked), GuestRules(Told(e, g, a), g), walk.host)

Acks(n) == {c \in Control(n) : c.type = "ACKNOWLEDGE"}

\* A guest handles a command of the server: it keeps to its rules, or it is
\* told of its connection and keeps to the rules of a guest that was told.
LEMMA GuestStep ==
    ASSUME NEW e \in Accounts, NEW g \in Guests, NEW x \in Nat,
           NEW walk \in Walk(g, Len(e.asked), x), NEW from \in HOSTS,
           Housed(g, Len(e.asked), GuestRules(e, g), walk.host),
           NEW c \in Acks(Len(e.asked)) \cup ServerCommands(Len(e.asked))
    PROVE  LET q == HandleCommand(walk, g, from, c)
           IN  \/ /\ Housed(g, Len(e.asked), GuestRules(e, g), q.host)
                  /\ c \in ServerCommands(Len(e.asked)) => q.event = walk.event
               \/ /\ c \in ServerCommands(Len(e.asked))
                  /\ g \notin e.told /\ Telling(e, g, q)
<1>1. PICK n \in Nat : n = Len(e.asked)
  BY AccountFields
<1>2. PICK r \in Rules(g, n) :
         /\ r = GuestRules(e, g) /\ r.answers = GuestAnswers(e, g)
  BY <1>1, GuestRulesLemma
<1>3. g \in HOSTS /\ walk \in Walk(g, n, x) /\ Housed(g, n, r, walk.host)
  BY <1>1, <1>2 DEF Guests
<1>4. c \in Control(n) /\ c.type \in {"ACKNOWLEDGE", "VERIFY_CONNECT", "PING", "DISCONNECT"}
  BY <1>1 DEF Acks, ServerCommands
<1>5. c \in ServerCommands(n) =>
         /\ c.type # "ACKNOWLEDGE"
         /\ c.type = "VERIFY_CONNECT" <=> c.rsn = 1
         /\ c.type = "VERIFY_CONNECT" => c.outgoing_peer_id \in Slots(SERVER)
  BY DEF ServerCommands
<1>6. c.type # "ACKNOWLEDGE" => c \in ServerCommands(n)
  BY <1>1 DEF Acks
<1>7. [rsn |-> c.rsn, type |-> c.type] \in Answers
  BY <1>4, ControlFields DEF Answers
<1>8. c.type \in {"PING", "DISCONNECT"} => [rsn |-> c.rsn, type |-> c.type] \in r.answers
  BY <1>2, <1>5, <1>6, <1>7 DEF GuestAnswers
<1>9. PICK q : q = HandleCommand(walk, g, from, c)
  OBVIOUS
<1>10. CASE walk.over \/ walk.slot = Nobody
  <2>1. q = [walk EXCEPT !.over = TRUE]
    BY <1>4, <1>9, <1>10 DEF HandleCommand
  <2>2. q.host = walk.host /\ q.event = walk.event
    BY <2>1, OverKeeps
  <2> QED BY <1>9, <2>2
<1>11. CASE ~walk.over /\ walk.slot # Nobody
  <2>1. OnRules(g, n, r, walk)
    BY <1>3, <1>11, WalkFields DEF OnRules
  <2>2. PICK s \in Slots(g), p \in Peer(n) :
           s = walk.slot /\ p = PeerOf(walk) /\ p \in Abiding(n, r, s)
    BY <1>3, <2>1, WalkPeer
  <2>3. /\ p.state # "ACKNOWLEDGING_CONNECT"
        /\ p.state \in CountedStates => g \in e.told
        /\ p.state = "CONNECTING" => Owns(e, g, p.connect_id) /\ g \notin e.told
    BY <1>1, <1>2, <2>2, GuestPeer
  <2>4. CASE c.type = "ACKNOWLEDGE"
    <3>1. q = HandleAcknowledge(walk, c)
      BY <1>9, <1>11, <2>4 DEF HandleCommand
    <3>2. PeerOf(walk).state # "ACKNOWLEDGING_CONNECT"
      BY <2>2, <2>3
    <3>3. OnRules(g, n, r, q)
      BY <1>3, <1>4, <2>1, <3>1, <3>2, HandleAcknowledgeOnRules
    <3>4. c \notin ServerCommands(n)
      BY <1>5, <2>4
    <3> QED BY <1>1, <1>2, <1>9, <3>3, <3>4 DEF OnRules
  <2>5. CASE c.type = "VERIFY_CONNECT"
    <3>1. PICK v : v = HandleVerifyConnect(walk, c)
      OBVIOUS
    <3>2. q = QueueAcknowledgement(v, c) /\ c \in ServerCommands(n)
      BY <1>6, <1>9, <1>11, <2>5, <3>1 DEF HandleCommand
    <3>3. v \in Walk(g, n, x)
      BY <1>3, <1>4, <2>1, <3>1, HandleVerifyConnectLemma DEF OnRules
    <3>4. CASE p.state = "CONNECTING" /\ c.connect_id = p.connect_id
      <4>1. PICK a \in Slots(SERVER) : a = c.outgoing_peer_id
        BY <1>5, <2>5, <3>2
      <4>2. PICK f \in Accounts : f = Told(e, g, a) /\ f.asked = e.asked /\ g \in f.told
        BY ToldFields
      <4>3. PICK u \in Rules(g, n) : u = GuestRules(f, g) /\ u.answers = GuestAnswers(f, g)
        BY <1>1, <4>2, GuestRulesLemma
      <4>4. /\ OnRules(g, n, u, v) /\ Owns(e, g, p.connect_id)
            /\ v.event = Connected(p.connect_id)
        <5>1. /\ PeerOf(walk).state = "CONNECTING" /\ c.connect_id = PeerOf(walk).connect_id
              /\ OnRules(g, Len(e.asked), GuestRules(e, g), walk)
              /\ walk \in Walk(g, Len(e.asked), x)
          BY <1>1, <1>2, <1>3, <2>1, <2>2, <3>4
        <5>2. /\ OnRules(g, Len(e.asked), GuestRules(Told(e, g, a), g), v)
              /\ v.event = Connected(PeerOf(walk).connect_id)
          BY <3>1, <4>1, <5>1, VerifyTells
        <5> QED BY <1>1, <2>2, <2>3, <3>4, <4>2, <4>3, <5>2
      <4>5. [rsn |-> c.rsn, type |-> c.type] \in u.answers
        BY <1>7, <4>2, <4>3 DEF GuestAnswers
      <4>6. OnRules(g, n, u, q) /\ q.event = v.event
        BY <1>3, <1>4, <3>2, <3>3, <4>4, <4>5, QueueAcknowledgementHoused
      <4>7. p.connect_id \in DOMAIN e.asked
        BY <4>4, OwnsId
      <4>8. Telling(e, g, q)
        BY <1>1, <4>2, <4>3, <4>4, <4>6, <4>7 DEF Telling, OnRules
      <4> QED BY <1>1, <1>9, <2>3, <3>2, <3>4, <4>8
    <3>5. CASE ~(p.state = "CONNECTING" /\ c.connect_id = p.connect_id)
      <4>1. /\ OnRules(g, n, r, v) /\ v.event = walk.event
            /\ p.state = "CONNECTING" => v.over
            /\ p.state # "CONNECTING" => v = walk
        <5>1. PeerOf(walk).state = "CONNECTING" => c.connect_id # PeerOf(walk).connect_id
          BY <2>2, <3>5
        <5>2. /\ OnRules(g, n, r, v) /\ v.event = walk.event
              /\ PeerOf(walk).state = "CONNECTING" => v.over
              /\ PeerOf(walk).state # "CONNECTING" => v = walk
          BY <1>3, <2>1, <3>1, <5>1, VerifyKeeps
        <5> QED BY <2>2, <5>2
      <4>2. \/ [rsn |-> c.rsn, type |-> c.type] \in r.answers
            \/ QueueAcknowledgement(v, c) = v
        <5>1. CASE v.over
          BY <5>1 DEF QueueAcknowledgement
        <5>2. CASE p.state \in CountedStates
          BY <1>2, <1>7, <2>3, <5>2 DEF GuestAnswers
        <5>3. CASE ~v.over /\ p.state \notin CountedStates
          <6>1. v = walk /\ PeerOf(v) = p /\ p.state \in States
            BY <2>2, <4>1, <5>3, AbidingFields, PeerFields
          <6>2. p.state \in {"DISCONNECTED", "DISCONNECTING", "ACKNOWLEDGING_DISCONNECT", "ZOMBIE"}
            BY <2>3, <4>1, <5>3, <6>1 DEF States, CountedStates
          <6> QED BY <2>5, <6>1, <6>2 DEF QueueAcknowledgement
        <5> QED BY <5>1, <5>2, <5>3
      <4>3. OnRules(g, n, r, q) /\ q.event = v.event
        BY <1>3, <1>4, <3>2, <3>3, <4>1, <4>2, QueueAcknowledgementHoused
      <4> QED BY <1>1, <1>2, <1>9, <4>1, <4>3 DEF OnRules
    <3> QED BY <3>4, <3>5
  <2>6. CASE c.type = "DISCONNECT"
    <3>1. PICK v : v = HandleDisconnect(walk, c)
      OBVIOUS
    <3>2. q = QueueAcknowledgement(v, c)
      BY <1>9, <1>11, <2>6, <3>1 DEF HandleCommand
    <3>3. v \in Walk(g, n, x)
      BY <1>3, <1>4, <2>1, <3>1, HandleDisconnectLemma DEF OnRules
    <3>4. OnRules(g, n, r, v) /\ v.event = walk.event
      BY <1>3, <2>1, <3>1, HandleDisconnectOnRules
    <3>5. [rsn |-> c.rsn, type |-> c.type] \in r.answers
      BY <1>8, <2>6
    <3>6. OnRules(g, n, r, q) /\ q.event = v.event
      BY <1>3, <1>4, <3>2, <3>3, <3>4, <3>5, QueueAcknowledgementHoused
    <3> QED BY <1>1, <1>2, <1>9, <3>4, <3>6 DEF OnRules
  <2>7. CASE c.type = "PING"
    <3>1. q = QueueAcknowledgement(walk, c)
      BY <1>9, <1>11, <2>7 DEF HandleCommand
    <3>2. [rsn |-> c.rsn, type |-> c.type] \in r.answers
      BY <1>8, <2>7
    <3>3. OnRules(g, n, r, q) /\ q.event = walk.event
      BY <1>3, <1>4, <2>1, <3>1, <3>2, QueueAcknowledgementHoused
    <3> QED BY <1>1, <1>2, <1>9, <3>3 DEF OnRules
  <2> QED BY <1>4, <2>4, <2>5, <2>6, <2>7
<1> QED BY <1>10, <1>11

LEMMA IndexInduction ==
    ASSUME NEW N \in Nat, NEW S, 0 \in S, \A i \in 1..N : i - 1 \in S => i \in S
    PROVE  \A i \in 0..N : i \in S
<1>1. PICK g : g = [i \in 0..N |-> i]
  OBVIOUS
<1>2. g[0] \in S /\ \A i \in 1..N : g[i - 1] \in S => g[i] \in S
  BY <1>1
<1>3. \A i \in 0..N : g[i] \in S
  BY <1>2, BoundedInduction
<1> QED BY <1>1, <1>3

\* A datagram of the server: the acknowledgements come first.
FromServer(n, d) ==
    /\ d.to \in Guests
    /\ \E k \in 0..Len(d.commands) :
          /\ \A i \in 1..k : d.commands[i] \in Acks(n)
          /\ \A i \in (k + 1)..Len(d.commands) : d.commands[i] \in ServerCommands(n)

\* A guest that was told keeps to its rules, and to its event.
LEMMA ToldStep ==
    ASSUME NEW e \in Accounts, NEW g \in Guests, NEW x \in Nat,
           NEW walk \in Walk(g, Len(e.asked), x), NEW from \in HOSTS,
           Telling(e, g, walk), NEW c \in ServerCommands(Len(e.asked))
    PROVE  Telling(e, g, HandleCommand(walk, g, from, c))
<1>1. PICK a \in Slots(SERVER), id \in DOMAIN e.asked :
         /\ Owns(e, g, id) /\ walk.event = Connected(id)
         /\ Housed(g, Len(e.asked), GuestRules(Told(e, g, a), g), walk.host)
  BY DEF Telling
<1>2. PICK f \in Accounts : f = Told(e, g, a) /\ f.asked = e.asked /\ g \in f.told
  BY ToldFields
<1>3. PICK q : q = HandleCommand(walk, g, from, c)
  OBVIOUS
<1>4. /\ Housed(g, Len(f.asked), GuestRules(f, g), walk.host)
      /\ walk \in Walk(g, Len(f.asked), x)
      /\ c \in Acks(Len(f.asked)) \cup ServerCommands(Len(f.asked))
      /\ c \in ServerCommands(Len(f.asked))
  BY <1>1, <1>2
<1>5. Housed(g, Len(f.asked), GuestRules(f, g), q.host) /\ q.event = walk.event
  BY <1>2, <1>3, <1>4, GuestStep
<1> QED BY <1>1, <1>2, <1>3, <1>5 DEF Telling

\* What a guest is after a datagram.
LEMMA GuestReceives ==
    ASSUME NEW e \in Accounts, NEW g \in Guests, NEW x \in Nat,
           hosts[g] \in Tallied(g, Len(e.asked), x),
           Housed(g, Len(e.asked), GuestRules(e, g), hosts[g]),
           NEW d \in Datagrams(Len(e.asked)), FromServer(Len(e.asked), d),
           d.slot \in Slots(g) \cup {Nobody}
    PROVE  \/ Housed(g, Len(e.asked), GuestRules(e, g), Received(g, d).host)
           \/ g \notin e.told /\ Telling(e, g, Received(g, d))
<1>1. PICK n \in Nat : n = Len(e.asked)
  BY AccountFields
<1>2. PICK N \in Nat : N = Len(d.commands)
  BY DatagramFields
<1>3. PICK w : w = Walks(g, d)
  OBVIOUS
<1>4. g \in HOSTS /\ d.from \in HOSTS
  BY DatagramFields, AccountFields DEF Guests
<1>5. /\ w[0] = Arrived(g, d) /\ \A i \in 0..N : w[i] \in Walk(g, n, x)
      /\ \A i \in 1..N : w[i] = HandleCommand(w[i - 1], g, d.from, d.commands[i])
  BY <1>1, <1>2, <1>3, <1>4, WalksLemma
<1>6. PICK k \in 0..N : /\ \A i \in 1..k : d.commands[i] \in Acks(n)
                       /\ \A i \in (k + 1)..N : d.commands[i] \in ServerCommands(n)
  BY <1>1, <1>2 DEF FromServer
<1> DEFINE S == {i \in 0..N : \/ Housed(g, n, GuestRules(e, g), w[i].host)
                              \/ i > k /\ g \notin e.told /\ Telling(e, g, w[i])}
<1>7. 0 \in S
  <2>1. w[0].host = hosts[g]
    BY <1>5 DEF Arrived
  <2> QED BY <1>1, <1>2, <2>1
<1>8. ASSUME NEW i \in 1..N, i - 1 \in S PROVE i \in S
  <2>1. PICK v, c : v = w[i - 1] /\ c = d.commands[i]
    OBVIOUS
  <2>2. v \in Walk(g, n, x) /\ w[i] = HandleCommand(v, g, d.from, c)
    BY <1>2, <1>5, <2>1
  <2>3. CASE Housed(g, n, GuestRules(e, g), v.host)
    <3>1. /\ c \in Acks(n) \cup ServerCommands(n)
          /\ c \in ServerCommands(n) => i > k
      <4>1. i \in 1..k \/ i \in (k + 1)..N
        BY <1>2, <1>6
      <4>2. i \in 1..k => c \notin ServerCommands(n)
        BY <1>6, <2>1 DEF Acks, ServerCommands
      <4> QED BY <1>2, <1>6, <2>1, <4>1, <4>2
    <3>2. \/ Housed(g, n, GuestRules(e, g), w[i].host)
          \/ c \in ServerCommands(n) /\ g \notin e.told /\ Telling(e, g, w[i])
      BY <1>1, <1>4, <2>2, <2>3, <3>1, GuestStep
    <3> QED BY <1>2, <3>1, <3>2
  <2>4. CASE i - 1 > k /\ g \notin e.told /\ Telling(e, g, v)
    <3>1. i \in (k + 1)..N /\ i > k
      BY <1>2, <1>6, <2>4
    <3>2. c \in ServerCommands(n)
      BY <1>6, <2>1, <3>1
    <3>3. Telling(e, g, w[i])
      BY <1>1, <1>4, <2>2, <2>4, <3>2, ToldStep
    <3> QED BY <1>2, <2>4, <3>1, <3>3
  <2> QED BY <1>8, <2>1, <2>3, <2>4
<1>9. N \in S
  <2> HIDE DEF S
  <2>1. \A i \in 0..N : i \in S
    BY <1>2, <1>7, <1>8, IndexInduction
  <2> QED BY <1>2, <2>1
<1>10. Received(g, d) = w[N]
  BY <1>2, <1>3 DEF Received
<1> QED BY <1>1, <1>9, <1>10

-----------------------------------------------------------------------------
(* The server receives what the guests send.                               *)

\* What a guest puts into a datagram for the given slot of the server: it
\* acknowledges the first command only to the slot it holds.
GuestWords(e, g, slot) ==
    GuestCommands(e, g) \cup
    {c \in Acks(Len(e.asked)) : c.rsn = 1 => g \in e.told /\ slot = e.away[g]}

FromGuest(e, g, d) ==
    /\ d.to = SERVER
    /\ \A i \in 1..Len(d.commands) : d.commands[i] \in GuestWords(e, g, d.slot)

\* A peer of the server, while it receives d.
LEMMA ServingPeer ==
    ASSUME NEW e \in Accounts, NEW d, NEW s \in Slots(SERVER),
           NEW p \in Abiding(Len(e.asked), ServingRules(e, d), s)
    PROVE  /\ p.state # "DISCONNECTED" =>
                 /\ p.address \in Guests /\ Owns(e, p.address, p.connect_id)
                 /\ p.outgoing_peer_id = e.home[p.address] /\ p.number # 0
           /\ p.state = "ACKNOWLEDGING_CONNECT" /\ s = d.slot => p.address = d.from
           /\ p.state = "DISCONNECTED" => Core(p) = Free
<1>1. PICK k \in ServingCores(e, d, s) : k = Core(p)
  BY AbidingFields, ServingRulesLemma
<1>2. /\ k.state = p.state /\ k.address = p.address /\ k.connect_id = p.connect_id
      /\ k.outgoing_peer_id = p.outgoing_peer_id /\ k.number = p.number
  BY <1>1 DEF Core
<1>3. k \in ServerCores(e, s)
  BY DEF ServingCores
<1>4. k.state = "ACKNOWLEDGING_CONNECT" /\ s = d.slot => k.address = d.from
  BY DEF ServingCores
<1>5. CASE k = Free
  BY <1>1, <1>2, <1>4, <1>5 DEF Free
<1>6. CASE k # Free
  BY <1>1, <1>2, <1>3, <1>4, <1>6 DEF ServerCores
<1> QED BY <1>5, <1>6

\* The slot that the sender of d holds may be connected.
LEMMA HolderMayConnect ==
    ASSUME NEW e \in Accounts, NEW d, d.from \in e.told, NEW s \in Slots(SERVER),
           s = d.slot, d.slot = e.away[d.from],
           NEW p \in Abiding(Len(e.asked), ServingRules(e, d), s),
           p.state = "ACKNOWLEDGING_CONNECT"
    PROVE  MayTurn(ServingRules(e, d), s, p, "CONNECTED")
<1>1. /\ p.address = d.from /\ p.address \in Guests /\ Owns(e, p.address, p.connect_id)
      /\ p.outgoing_peer_id = e.home[p.address] /\ p.number # 0
  BY ServingPeer
<1>2. p \in Peer(Len(e.asked))
  BY AbidingFields
<1>3. PICK k : k = Moved(Core(p), "CONNECTED", p.number)
  OBVIOUS
<1>4. /\ k.state = "CONNECTED" /\ k.address = p.address /\ k.connect_id = p.connect_id
      /\ k.outgoing_peer_id = p.outgoing_peer_id /\ k.number = p.number
  BY <1>3 DEF Moved, Core
<1>5. k \in Cores(Len(e.asked))
  BY <1>2, <1>3 DEF Moved, Core, Cores, Peer, States
<1>6. k \in ServerCores(e, s)
  BY <1>1, <1>4, <1>5 DEF ServerCores
<1>7. k \in ServingCores(e, d, s)
  BY <1>1, <1>4, <1>6 DEF ServingCores
<1> QED BY <1>3, <1>7, ServingRulesLemma DEF MayTurn

\* A VERIFY_CONNECT that waits for its acknowledgement has the first number.
LEMMA VerifyIsFirst ==
    ASSUME NEW n \in Nat, NEW p, p.sent \in Seq(ServerCommands(n)), NEW rsn,
           RemovedType(p, rsn) = "VERIFY_CONNECT"
    PROVE  rsn = 1
<1>1. PICK m : m = Matching(p, rsn)
  OBVIOUS
<1>2. m # {} /\ p.sent[Min(m)].type = "VERIFY_CONNECT"
  BY <1>1 DEF RemovedType
<1>3. m \in SUBSET Nat
  BY <1>1 DEF Matching
<1>4. Min(m) \in m
  BY <1>2, <1>3, MinOfSet
<1>5. PICK i \in DOMAIN p.sent : i = Min(m) /\ p.sent[i].rsn = rsn
  BY <1>1, <1>4 DEF Matching
<1>6. p.sent[i] \in ServerCommands(n)
  BY <1>5
<1> QED BY <1>2, <1>5, <1>6 DEF ServerCommands

\* The peer that answers a CONNECT.
LEMMA AnswerAbides ==
    ASSUME NEW e \in Accounts, NEW d, NEW s \in Slots(SERVER),
           NEW p \in Abiding(Len(e.asked), ServingRules(e, d), s), p.state = "DISCONNECTED",
           s # d.slot, d.from \in Guests,
           NEW c \in GuestCommands(e, d.from), c.type = "CONNECT"
    PROVE  SetupConnectedPeer(p, s, d.from, c) \in Abiding(Len(e.asked), ServingRules(e, d), s)
<1>1. PICK n \in Nat : n = Len(e.asked)
  BY AccountFields
<1>2. PICK r \in Rules(SERVER, n) :
         /\ r = ServingRules(e, d) /\ r.commands = ServerCommands(n)
         /\ \A t \in Slots(SERVER) : r.cores[t] = ServingCores(e, d, t)
  BY <1>1, ServingRulesLemma
<1>3. /\ SERVER \in HOSTS /\ s \in Nat /\ d.from \in HOSTS /\ p \in Peer(n)
      /\ p \in Abiding(n, r, s)
  BY <1>1, <1>2, LifecycleAssumption, SlotsLemma, AbidingFields DEF Guests
<1>4. c \in Control(n) /\ Owns(e, d.from, c.connect_id) /\ c.outgoing_peer_id = e.home[d.from]
  BY <1>1 DEF GuestCommands
<1>5. PICK id \in 0..n, slot \in Nat, st \in States, from \in HOSTS :
         /\ id = c.connect_id /\ slot = c.outgoing_peer_id /\ id # 0
         /\ st = "ACKNOWLEDGING_CONNECT" /\ from = d.from
  BY <1>3, <1>4, ControlFields DEF States
<1>6. PICK o : o = [p EXCEPT !.state = st, !.address = from, !.connect_id = id,
                             !.outgoing_peer_id = slot]
  OBVIOUS
<1>7. /\ o \in Peer(n) /\ o.state = st /\ o.address = from /\ o.connect_id = id
      /\ o.outgoing_peer_id = slot /\ o.number = p.number /\ o.outgoing = p.outgoing
      /\ o.sent = p.sent /\ o.acknowledgements = p.acknowledgements
  BY <1>3, <1>5, <1>6 DEF Peer
<1>8. p.number = 0
  <2>1. Core(p) = Free
    BY ServingPeer
  <2> QED BY <2>1 DEF Core, Free
<1>9. PICK v : v = Command(o, "VERIFY_CONNECT", id, s, TRUE)
  OBVIOUS
<1>10. v \in ServerCommands(n)
  <2>1. "VERIFY_CONNECT" \in Types
    BY DEF Types
  <2>2. v \in Control(n)
    BY <1>3, <1>5, <1>7, <1>9, <2>1, CommandLemma
  <2>3. v.type = "VERIFY_CONNECT" /\ v.rsn = 1 /\ v.outgoing_peer_id = s
    BY <1>7, <1>8, <1>9 DEF Command
  <2> QED BY <2>2, <2>3 DEF ServerCommands
<1>11. PICK l \in Seq(r.commands) : l = Append(o.outgoing, v)
  <2>1. PICK b \in Seq(r.commands) : b = o.outgoing
    BY <1>3, <1>7, AbidingFields
  <2>2. v \in r.commands
    BY <1>2, <1>10
  <2>3. Append(b, v) \in Seq(r.commands)
    BY <2>2, AppendIn
  <2> QED BY <2>1, <2>3
<1>12. PICK one \in Nat \ {0} : one = 1 /\ one = o.number + 1
  BY <1>7, <1>8
<1>13. PICK q : q = [o EXCEPT !.number = one, !.outgoing = l]
  OBVIOUS
<1>14. SetupConnectedPeer(p, s, d.from, c) = q
  <2>1. SetupConnectedPeer(p, s, d.from, c) =
           QueueOutgoingCommand(o, "VERIFY_CONNECT", id, s)
    BY <1>5, <1>6 DEF SetupConnectedPeer, Answering
  <2>2. QueueOutgoingCommand(o, "VERIFY_CONNECT", id, s) = q
    BY <1>9, <1>11, <1>12, <1>13 DEF QueueOutgoingCommand
  <2> QED BY <2>1, <2>2
<1>15. PICK u \in Seq(Control(n)) : u = l
  BY <1>2, <1>3, RulesFields
<1>16. /\ q \in Peer(n) /\ q.state = st /\ q.address = from /\ q.connect_id = id
       /\ q.outgoing_peer_id = slot /\ q.number = one /\ q.outgoing = l
       /\ q.sent = p.sent /\ q.acknowledgements = p.acknowledgements
  BY <1>7, <1>12, <1>13, <1>15 DEF Peer
<1>17. PICK k : k = Core(q)
  OBVIOUS
<1>18. /\ k.state = st /\ k.address = from /\ k.connect_id = id
       /\ k.outgoing_peer_id = slot /\ k.number = one
  BY <1>16, <1>17 DEF Core
<1>19. k \in Cores(n)
  BY <1>16, <1>17 DEF Core, Cores, Peer
<1>20. k \in ServerCores(e, s)
  BY <1>1, <1>4, <1>5, <1>12, <1>18, <1>19 DEF ServerCores, CountedStates
<1>21. k \in r.cores[s]
  BY <1>2, <1>20 DEF ServingCores
<1>22. q \in Abiding(n, r, s)
  BY <1>3, <1>16, <1>17, <1>21, AbidingFields DEF Abiding
<1> QED BY <1>1, <1>2, <1>14, <1>22

\* A CONNECT takes a slot at most.
LEMMA ServerConnects ==
    ASSUME NEW e \in Accounts, NEW d, NEW x \in Nat,
           NEW walk \in Walk(SERVER, Len(e.asked), x),
           Housed(SERVER, Len(e.asked), ServingRules(e, d), walk.host),
           walk.slot = d.slot \/ d.slot = Nobody, d.from \in Guests,
           NEW c \in GuestCommands(e, d.from), c.type = "CONNECT"
    PROVE  LET q == HandleConnect(walk, SERVER, d.from, c)
           IN  /\ Housed(SERVER, Len(e.asked), ServingRules(e, d), q.host)
               /\ q.slot = d.slot \/ d.slot = Nobody
<1> DEFINE peers    == walk.host.peers
           Same(t)  == /\ peers[t].state = "CONNECTING" /\ peers[t].address = d.from
                       /\ peers[t].connect_id = c.connect_id
           settling == {t \in Slots(SERVER) : peers[t].state = "DISCONNECTED" \/ Same(t)}
           slot     == Min(settling)
           q == [walk EXCEPT !.slot = slot,
                             !.host = UpdatePeer(@, slot,
                                 SetupConnectedPeer(peers[slot], slot, d.from, c))]
<1>1. CASE walk.slot # Nobody \/ settling = {} \/ (settling # {} /\ Same(slot))
  <2>1. HandleConnect(walk, SERVER, d.from, c) = [walk EXCEPT !.over = TRUE]
    BY <1>1 DEF HandleConnect
  <2>2. /\ [walk EXCEPT !.over = TRUE].host = walk.host
        /\ [walk EXCEPT !.over = TRUE].slot = walk.slot
    BY DEF Walk
  <2> QED BY <2>1, <2>2
<1>2. CASE ~(walk.slot # Nobody \/ settling = {} \/ (settling # {} /\ Same(slot)))
  <2>1. HandleConnect(walk, SERVER, d.from, c) = q
    BY <1>2 DEF HandleConnect
  <2>2. SERVER \in HOSTS
    BY LifecycleAssumption
  <2>3. settling \in SUBSET Nat /\ settling # {}
    BY <1>2, <2>2, SlotsLemma
  <2>4. slot \in settling /\ ~Same(slot)
    <3>1. ~Same(slot)
      BY <1>2
    <3>2. slot \in settling
      <4> HIDE DEF settling
      <4> QED BY <2>3, MinOfSet
    <3> QED BY <3>1, <3>2
  <2>5. slot \in Slots(SERVER) /\ peers[slot].state = "DISCONNECTED"
    <3> HIDE DEF slot
    <3> QED BY <2>4
  <2>6. PICK s \in Slots(SERVER) : s = slot /\ s \in Nat /\ s # Nobody
    BY <2>2, <2>5, SlotsLemma
  <2>7. d.slot = Nobody
    BY <1>2
  <2>8. PICK host, p : /\ host = walk.host /\ p = host.peers[s] /\ p.state = "DISCONNECTED"
                       /\ p \in Abiding(Len(e.asked), ServingRules(e, d), s)
                       /\ host \in Host(SERVER, Len(e.asked))
                       /\ Housed(SERVER, Len(e.asked), ServingRules(e, d), host)
    <3>1. peers[s].state = "DISCONNECTED"
      BY <2>5, <2>6
    <3>2. peers[s] \in Abiding(Len(e.asked), ServingRules(e, d), s)
      BY <2>6 DEF Housed
    <3>3. walk.host \in Host(SERVER, Len(e.asked))
      BY <2>2, AccountFields, WalkFields
    <3> QED BY <3>1, <3>2, <3>3
  <2>9. PICK o : o = SetupConnectedPeer(p, s, d.from, c)
    OBVIOUS
  <2>10. o \in Abiding(Len(e.asked), ServingRules(e, d), s)
    BY <2>6, <2>7, <2>8, <2>9, AnswerAbides
  <2>11. PICK m : m = UpdatePeer(host, s, o)
    OBVIOUS
  <2>12. Housed(SERVER, Len(e.asked), ServingRules(e, d), m)
    BY <2>2, <2>6, <2>8, <2>10, <2>11, AccountFields, UpdateHoused
  <2>13. q = [walk EXCEPT !.slot = s, !.host = m]
    BY <2>6, <2>8, <2>9, <2>11
  <2>14. q.host = m
    <3> HIDE DEF q
    <3> QED BY <2>13 DEF Walk
  <2> QED BY <2>1, <2>7, <2>12, <2>14
<1> QED BY <1>1, <1>2

\* The server handles a command of a guest and keeps to its rules.
LEMMA ServerStep ==
    ASSUME NEW e \in Accounts, NEW d, NEW x \in Nat,
           NEW walk \in Walk(SERVER, Len(e.asked), x),
           Housed(SERVER, Len(e.asked), ServingRules(e, d), walk.host),
           walk.slot = d.slot \/ d.slot = Nobody, d.from \in Guests,
           NEW c \in GuestWords(e, d.from, d.slot)
    PROVE  LET q == HandleCommand(walk, SERVER, d.from, c)
           IN  /\ Housed(SERVER, Len(e.asked), ServingRules(e, d), q.host)
               /\ q.slot = d.slot \/ d.slot = Nobody
<1>1. PICK n \in Nat : n = Len(e.asked)
  BY AccountFields
<1>2. PICK r \in Rules(SERVER, n) :
         r = ServingRules(e, d) /\ r.commands = ServerCommands(n) /\ r.answers = Answers
  BY <1>1, ServingRulesLemma
<1>3. /\ SERVER \in HOSTS /\ d.from \in HOSTS /\ walk \in Walk(SERVER, n, x)
      /\ Housed(SERVER, n, r, walk.host)
  BY <1>1, <1>2, LifecycleAssumption DEF Guests
<1>4. /\ c \in Control(n) /\ c.type \in {"ACKNOWLEDGE", "CONNECT", "PING", "DISCONNECT"}
      /\ c.type = "CONNECT" => c \in GuestCommands(e, d.from)
      /\ c.type = "ACKNOWLEDGE" /\ c.rsn = 1 => d.from \in e.told /\ d.slot = e.away[d.from]
  BY <1>1 DEF GuestWords, GuestCommands, Acks
<1>5. [rsn |-> c.rsn, type |-> c.type] \in r.answers
  BY <1>2, <1>4, ControlFields DEF Answers
<1>6. PICK q : q = HandleCommand(walk, SERVER, d.from, c)
  OBVIOUS
<1>7. CASE walk.over \/ (walk.slot = Nobody /\ c.type # "CONNECT")
  <2>1. q = [walk EXCEPT !.over = TRUE]
    BY <1>6, <1>7 DEF HandleCommand
  <2>2. q.host = walk.host /\ q.slot = walk.slot
    BY <2>1, OverKeeps
  <2> QED BY <1>6, <2>2
<1>8. CASE ~walk.over /\ c.type = "CONNECT"
  <2>1. q = HandleConnect(walk, SERVER, d.from, c)
    BY <1>6, <1>8 DEF HandleCommand
  <2>2. c \in GuestCommands(e, d.from)
    BY <1>4, <1>8
  <2> QED BY <1>6, <1>8, <2>1, <2>2, ServerConnects
<1>9. CASE ~walk.over /\ walk.slot # Nobody /\ c.type # "CONNECT"
  <2>1. OnRules(SERVER, n, r, walk)
    BY <1>3, <1>9, WalkFields DEF OnRules
  <2>2. PICK s \in Slots(SERVER), p \in Peer(n) :
           s = walk.slot /\ p = PeerOf(walk) /\ p \in Abiding(n, r, s)
    BY <1>3, <2>1, WalkPeer
  <2>3. CASE c.type = "ACKNOWLEDGE"
    <3>1. q = HandleAcknowledge(walk, c)
      BY <1>6, <1>9, <2>3 DEF HandleCommand
    <3>2. ASSUME PeerOf(walk).state = "ACKNOWLEDGING_CONNECT",
                 RemovedType(PeerOf(walk), c.rsn) = "VERIFY_CONNECT"
          PROVE  MayTurn(r, walk.slot, PeerOf(walk), "CONNECTED")
      <4>1. p.sent \in Seq(ServerCommands(n))
        BY <1>2, <2>2, AbidingFields
      <4>2. c.rsn = 1
        BY <2>2, <3>2, <4>1, VerifyIsFirst
      <4>3. d.from \in e.told /\ d.slot = e.away[d.from]
        BY <1>4, <2>3, <4>2
      <4>4. d.slot # Nobody
        <5>1. e.away[d.from] \in Slots(SERVER)
          BY AccountFields
        <5> QED BY <1>3, <4>3, <5>1, SlotsLemma
      <4>5. s = d.slot
        BY <2>2, <4>4
      <4>6. p.state = "ACKNOWLEDGING_CONNECT" /\ p \in Abiding(Len(e.asked), ServingRules(e, d), s)
        BY <1>1, <1>2, <2>2, <3>2
      <4>7. MayTurn(ServingRules(e, d), s, p, "CONNECTED")
        BY <4>3, <4>5, <4>6, HolderMayConnect
      <4> QED BY <1>2, <2>2, <4>7
    <3>3. OnRules(SERVER, n, r, q) /\ q.slot = walk.slot
      BY <1>3, <1>4, <2>1, <3>1, <3>2, HandleAcknowledgeOnRules
    <3> QED BY <1>1, <1>2, <1>6, <3>3 DEF OnRules
  <2>4. CASE c.type = "DISCONNECT"
    <3>1. PICK v : v = HandleDisconnect(walk, c)
      OBVIOUS
    <3>2. q = QueueAcknowledgement(v, c)
      BY <1>6, <1>9, <2>4, <3>1 DEF HandleCommand
    <3>3. v \in Walk(SERVER, n, x)
      BY <1>3, <1>4, <2>1, <3>1, HandleDisconnectLemma DEF OnRules
    <3>4. OnRules(SERVER, n, r, v) /\ v.slot = walk.slot
      BY <1>3, <2>1, <3>1, HandleDisconnectOnRules
    <3>5. OnRules(SERVER, n, r, q) /\ q.slot = v.slot
      BY <1>3, <1>4, <1>5, <3>2, <3>3, <3>4, QueueAcknowledgementHoused
    <3> QED BY <1>1, <1>2, <1>6, <3>4, <3>5 DEF OnRules
  <2>5. CASE c.type = "PING"
    <3>1. q = QueueAcknowledgement(walk, c)
      BY <1>6, <1>9, <2>5 DEF HandleCommand
    <3>2. OnRules(SERVER, n, r, q) /\ q.slot = walk.slot
      BY <1>3, <1>4, <1>5, <2>1, <3>1, QueueAcknowledgementHoused
    <3> QED BY <1>1, <1>2, <1>6, <3>2 DEF OnRules
  <2> QED BY <1>4, <1>9, <2>3, <2>4, <2>5
<1> QED BY <1>7, <1>8, <1>9

\* What the server is after a datagram.
LEMMA ServerReceives ==
    ASSUME NEW e \in Accounts, NEW x \in Nat,
           hosts[SERVER] \in Tallied(SERVER, Len(e.asked), x),
           Housed(SERVER, Len(e.asked), ServerRules(e), hosts[SERVER]),
           NEW d \in Datagrams(Len(e.asked)), d.from \in Guests, FromGuest(e, d.from, d),
           d.slot = Nobody \/ EventOccur(SERVER, d)
    PROVE  Housed(SERVER, Len(e.asked), ServerRules(e), Received(SERVER, d).host)
<1>1. PICK n \in Nat : n = Len(e.asked)
  BY AccountFields
<1>2. PICK N \in Nat : N = Len(d.commands)
  BY DatagramFields
<1>3. PICK w : w = Walks(SERVER, d)
  OBVIOUS
<1>4. SERVER \in HOSTS /\ d.slot \in Slots(SERVER) \cup {Nobody}
  BY LifecycleAssumption DEF EventOccur
<1>5. /\ w[0] = Arrived(SERVER, d) /\ \A i \in 0..N : w[i] \in Walk(SERVER, n, x)
      /\ \A i \in 1..N : w[i] = HandleCommand(w[i - 1], SERVER, d.from, d.commands[i])
  BY <1>1, <1>2, <1>3, <1>4, WalksLemma
<1>6. /\ \A s \in Slots(SERVER) : /\ ServerRules(e).cores[s] = ServerCores(e, s)
                                 /\ ServingRules(e, d).cores[s] = ServingCores(e, d, s)
      /\ ServerRules(e).commands = ServingRules(e, d).commands
      /\ ServerRules(e).answers = ServingRules(e, d).answers
  BY ServerRulesLemma, ServingRulesLemma
<1> DEFINE S == {i \in 0..N : /\ Housed(SERVER, n, ServingRules(e, d), w[i].host)
                              /\ w[i].slot = d.slot \/ d.slot = Nobody}
<1>7. 0 \in S
  <2>1. w[0].host = hosts[SERVER] /\ w[0].slot = d.slot
    BY <1>5 DEF Arrived
  <2>2. ASSUME NEW s \in Slots(SERVER)
        PROVE  hosts[SERVER].peers[s] \in Abiding(n, ServingRules(e, d), s)
    <3>1. PICK p \in Abiding(n, ServerRules(e), s) : p = hosts[SERVER].peers[s]
      BY <1>1 DEF Housed
    <3>2. PICK k \in ServerCores(e, s) : k = Core(p)
      BY <1>6, AbidingFields
    <3>3. k.address = p.address
      BY <3>2 DEF Core
    <3>4. s = d.slot => p.address = d.from
      <4>1. s # Nobody
        BY <1>4, SlotsLemma
      <4> QED BY <3>1, <4>1 DEF EventOccur
    <3>5. k \in ServingCores(e, d, s)
      BY <3>3, <3>4 DEF ServingCores
    <3> QED BY <1>6, <3>1, <3>2, <3>5 DEF Abiding
  <2> QED BY <1>2, <2>1, <2>2 DEF Housed
<1>8. ASSUME NEW i \in 1..N, i - 1 \in S PROVE i \in S
  <2>1. PICK v, c : v = w[i - 1] /\ c = d.commands[i]
    OBVIOUS
  <2>2. v \in Walk(SERVER, n, x) /\ w[i] = HandleCommand(v, SERVER, d.from, c)
    BY <1>2, <1>5, <2>1
  <2>3. /\ Housed(SERVER, n, ServingRules(e, d), v.host)
        /\ v.slot = d.slot \/ d.slot = Nobody
    BY <1>8, <2>1
  <2>4. c \in GuestWords(e, d.from, d.slot)
    BY <1>2, <2>1 DEF FromGuest
  <2>5. /\ Housed(SERVER, n, ServingRules(e, d), w[i].host)
        /\ w[i].slot = d.slot \/ d.slot = Nobody
    BY <1>1, <2>2, <2>3, <2>4, ServerStep
  <2> QED BY <1>2, <2>5
<1>9. N \in S
  <2> HIDE DEF S
  <2>1. \A i \in 0..N : i \in S
    BY <1>2, <1>7, <1>8, IndexInduction
  <2> QED BY <1>2, <2>1
<1>10. Received(SERVER, d).host = w[N].host
  BY <1>2, <1>3 DEF Received
<1>11. ASSUME NEW s \in Slots(SERVER), NEW p \in Abiding(n, ServingRules(e, d), s)
       PROVE  p \in Abiding(n, ServerRules(e), s)
  BY <1>6 DEF Abiding, ServingCores
<1> QED BY <1>1, <1>9, <1>10, <1>11 DEF Housed

-----------------------------------------------------------------------------
(* The invariant of both ends.                                             *)

Fits(e) ==
    {d \in Datagrams(Len(e.asked)) :
        IF d.from = SERVER THEN FromServer(Len(e.asked), d) ELSE FromGuest(e, d.from, d)}

\* The host was told that the connection is established.
Heard(g, id) == \E i \in DOMAIN events[g] : events[g][i] = Connected(id)

\* Each connection is of one guest, and the guests that count as told were told.
Witnessed(e) ==
    /\ \A i, j \in DOMAIN e.asked : e.asked[i] = e.asked[j] => i = j
    /\ \A g \in e.told : \E id \in DOMAIN e.asked : Owns(e, g, id) /\ Heard(g, id)

Suits(e) ==
    /\ e.asked = connects
    /\ Witnessed(e)
    /\ \A h \in HOSTS : Housed(h, Len(e.asked), RulesAt(e, h), hosts[h])
    /\ DOMAIN network \subseteq Fits(e)

EventsTyped ==
    events \in [HOSTS -> Seq([type : {"CONNECT", "DISCONNECT"}, connect_id : Nat])]

BothEnds == EventsTyped /\ \E e \in Accounts : Suits(e)

\* Nothing that a host was told is unsaid.
EventsGrow == EventsTyped' /\ \A g \in HOSTS : \A id : Heard(g, id) => Heard(g, id)'

LEMMA EventsSame ==
    ASSUME EventsTyped, events' = events PROVE EventsGrow
  BY DEF EventsGrow, EventsTyped, Heard

LEMMA AppendKeeps ==
    ASSUME NEW S, NEW o \in Seq(S), NEW c \in S
    PROVE  LET q == Append(o, c)
           IN  /\ q \in Seq(S) /\ \E i \in DOMAIN q : q[i] = c
               /\ \A i \in DOMAIN o : i \in DOMAIN q /\ q[i] = o[i]
<1>1. PICK q : q = Append(o, c)
  OBVIOUS
<1>2. q \in Seq(S) /\ Len(q) = Len(o) + 1 /\ DOMAIN q = 1..Len(o) + 1 /\ q[Len(o) + 1] = c
  BY <1>1
<1>3. Len(o) + 1 \in DOMAIN q
  BY <1>2
<1>4. \A i \in DOMAIN o : i \in DOMAIN q /\ q[i] = o[i]
  BY <1>1
<1> QED BY <1>1, <1>2, <1>3, <1>4

LEMMA IsToldLemma ==
    ASSUME EventsTyped, NEW h \in HOSTS, NEW n \in Nat, NEW event \in Tidings(n),
           IsTold(h, event)
    PROVE  EventsGrow /\ (event.type = "CONNECT" => \A id : event = Connected(id) => Heard(h, id)')
<1> DEFINE S == [type : {"CONNECT", "DISCONNECT"}, connect_id : Nat]
<1>1. CASE event.type \notin {"CONNECT", "DISCONNECT"}
  <2>1. events' = events
    BY <1>1 DEF IsTold
  <2> QED BY <1>1, <2>1, EventsSame
<1>2. CASE event.type \in {"CONNECT", "DISCONNECT"}
  <2>1. event \in S
    BY <1>2 DEF Tidings
  <2>2. events \in [HOSTS -> Seq(S)]
    BY DEF EventsTyped
  <2>3. events' = [events EXCEPT ![h] = Append(@, event)]
    BY <1>2 DEF IsTold
  <2> HIDE DEF S
  <2>4. PICK o \in Seq(S) : o = events[h]
    BY <2>2
  <2>5. PICK q : q = Append(o, event)
    OBVIOUS
  <2>6. /\ q \in Seq(S) /\ \E i \in DOMAIN q : q[i] = event
        /\ \A i \in DOMAIN o : i \in DOMAIN q /\ q[i] = o[i]
    BY <2>1, <2>5, AppendKeeps
  <2>7. events' = [events EXCEPT ![h] = q]
    BY <2>3, <2>4, <2>5
  <2>8. events' \in [HOSTS -> Seq(S)] /\ events'[h] = q
        /\ \A g \in HOSTS : g # h => events'[g] = events[g]
    BY <2>2, <2>6, <2>7
  <2>9. EventsTyped'
    BY <2>8 DEF EventsTyped, S
  <2>10. ASSUME NEW g \in HOSTS, NEW id, Heard(g, id) PROVE Heard(g, id)'
    <3>1. CASE g = h
      BY <2>4, <2>6, <2>8, <2>10, <3>1 DEF Heard
    <3>2. CASE g # h
      BY <2>8, <2>10, <3>2 DEF Heard
    <3> QED BY <3>1, <3>2
  <2>11. ASSUME NEW id, event = Connected(id) PROVE Heard(h, id)'
    BY <2>6, <2>8, <2>11 DEF Heard
  <2> QED BY <2>9, <2>10, <2>11 DEF EventsGrow
<1> QED BY <1>1, <1>2

LEMMA FitsMore ==
    ASSUME NEW e \in Accounts, NEW f \in Accounts, Grows(e, f)
    PROVE  Fits(e) \subseteq Fits(f)
<1> SUFFICES ASSUME NEW d \in Fits(e) PROVE d \in Fits(f)
  OBVIOUS
<1>1. d \in Datagrams(Len(f.asked)) /\ d.from \in HOSTS
  BY GrowsWider DEF Fits, Datagrams
<1>2. Acks(Len(e.asked)) \subseteq Acks(Len(f.asked))
  BY GrowsWider DEF Acks
<1>3. ServerCommands(Len(e.asked)) \subseteq ServerCommands(Len(f.asked))
  BY GrowsWider
<1>4. CASE d.from = SERVER
  BY <1>1, <1>2, <1>3, <1>4 DEF Fits, FromServer
<1>5. CASE d.from # SERVER
  <2>1. PICK g \in Guests : g = d.from
    BY <1>1, <1>5 DEF Guests
  <2>2. GuestCommands(e, g) \subseteq GuestCommands(f, g)
    BY GrowsWider
  <2>3. g \in e.told => g \in f.told /\ f.away[g] = e.away[g]
    BY DEF Grows
  <2>4. GuestWords(e, g, d.slot) \subseteq GuestWords(f, g, d.slot)
    BY <1>2, <2>2, <2>3 DEF GuestWords
  <2>5. FromGuest(e, g, d)
    BY <1>5, <2>1 DEF Fits
  <2>6. FromGuest(f, g, d)
    BY <2>4, <2>5 DEF FromGuest
  <2> QED BY <1>1, <1>5, <2>1, <2>6 DEF Fits
<1> QED BY <1>4, <1>5

LEMMA RulesAtLemma ==
    ASSUME NEW e \in Accounts, NEW h \in HOSTS
    PROVE  RulesAt(e, h) \in Rules(h, Len(e.asked))
  BY GuestRulesLemma, ServerRulesLemma DEF RulesAt, Guests

\* Other hosts keep to the rules while the accounts grow.
LEMMA HousedMore ==
    ASSUME NEW e \in Accounts, NEW f \in Accounts, Grows(e, f), NEW h \in HOSTS,
           h \in f.told => h \in e.told, NEW host,
           Housed(h, Len(e.asked), RulesAt(e, h), host)
    PROVE  Housed(h, Len(f.asked), RulesAt(f, h), host)
<1>1. PICK r, u : r = RulesAt(e, h) /\ u = RulesAt(f, h)
  OBVIOUS
<1>2. /\ r.commands \subseteq u.commands /\ r.answers \subseteq u.answers
      /\ \A s \in Slots(h) : r.cores[s] \subseteq u.cores[s]
  <2>1. CASE h = SERVER
    BY <1>1, <2>1, GrowsWider, ServerRulesLemma DEF RulesAt
  <2>2. CASE h # SERVER
    <3>1. h \in Guests /\ r = GuestRules(e, h) /\ u = GuestRules(f, h)
      BY <1>1, <2>2 DEF RulesAt, Guests
    <3> QED BY <3>1, GrowsWider, GuestRulesLemma
  <2> QED BY <2>1, <2>2
<1>3. Peer(Len(e.asked)) \subseteq Peer(Len(f.asked))
  BY GrowsWider
<1>4. ASSUME NEW s \in Slots(h) PROVE host.peers[s] \in Abiding(Len(f.asked), u, s)
  <2>1. PICK p \in Abiding(Len(e.asked), r, s) : p = host.peers[s]
    BY <1>1 DEF Housed
  <2>2. Core(p) \in u.cores[s]
    BY <1>2, <2>1 DEF Abiding
  <2> QED BY <1>2, <1>3, <2>1, <2>2, AbidesMore
<1> QED BY <1>1, <1>4 DEF Housed

LEMMA GrowsSame ==
    ASSUME NEW e \in Accounts PROVE Grows(e, e)
  BY AccountFields DEF Grows

\* A host is replaced, and the accounts grow.
LEMMA SuitsStep ==
    ASSUME NEW e \in Accounts, Suits(e), DOMAIN hosts = HOSTS,
           NEW f \in Accounts, Grows(e, f), NEW h \in HOSTS, NEW m,
           hosts' = [hosts EXCEPT ![h] = m],
           Housed(h, Len(f.asked), RulesAt(f, h), m),
           f.asked = connects', Witnessed(f)', \A g \in f.told : g # h => g \in e.told,
           DOMAIN network' \subseteq Fits(f), EventsTyped'
    PROVE  BothEnds'
<1>1. ASSUME NEW g \in HOSTS PROVE Housed(g, Len(f.asked), RulesAt(f, g), hosts'[g])
  <2>1. CASE g = h
    BY <2>1
  <2>2. CASE g # h
    <3>1. hosts'[g] = hosts[g] /\ Housed(g, Len(e.asked), RulesAt(e, g), hosts[g])
      BY <2>2 DEF Suits
    <3>2. g \in f.told => g \in e.told
      BY <2>2
    <3> QED BY <3>1, <3>2, HousedMore
  <2> QED BY <2>1, <2>2
<1>2. Suits(f)'
  BY <1>1 DEF Suits
<1> QED BY <1>2 DEF BothEnds

LEMMA WitnessedLater ==
    ASSUME NEW e \in Accounts, Witnessed(e), EventsGrow
    PROVE  Witnessed(e)' /\ EventsTyped'
<1>1. e.told \subseteq HOSTS
  BY AccountFields DEF Guests
<1> QED BY <1>1 DEF Witnessed, EventsGrow

\* A host is replaced, and nothing else happens that the accounts tell of.
LEMMA SameAccounts ==
    ASSUME NEW e \in Accounts, Suits(e), DOMAIN hosts = HOSTS, NEW h \in HOSTS, NEW m,
           hosts' = [hosts EXCEPT ![h] = m],
           Housed(h, Len(e.asked), RulesAt(e, h), m),
           connects' = connects, DOMAIN network' \subseteq Fits(e), EventsGrow
    PROVE  BothEnds'
<1>1. Witnessed(e)' /\ EventsTyped'
  BY WitnessedLater DEF Suits
<1>2. e.asked = connects'
  BY DEF Suits
<1> QED BY <1>1, <1>2, GrowsSame, SuitsStep

-----------------------------------------------------------------------------
(* What the hosts say.                                                     *)

\* A host, as the invariants know it.
LEMMA HostOnAccount ==
    ASSUME Inv, NEW e \in Accounts, Suits(e), NEW h \in HOSTS
    PROVE  /\ DOMAIN hosts = HOSTS
           /\ \E n, x, host, r :
                 /\ n \in Nat /\ x \in Nat
                 /\ n = Len(connects) /\ n = Len(e.asked) /\ host = hosts[h]
                 /\ host \in Tallied(h, n, x) /\ r = RulesAt(e, h) /\ r \in Rules(h, n)
                 /\ Housed(h, n, r, host)
<1>1. PICK n \in Nat : n = Len(connects) /\ n = Len(e.asked)
  BY AccountFields DEF Suits
<1>2. PICK x \in Nat : hosts[h] \in Tallied(h, n, x)
  BY <1>1 DEF Inv
<1>3. RulesAt(e, h) \in Rules(h, n) /\ Housed(h, n, RulesAt(e, h), hosts[h])
  BY <1>1, RulesAtLemma DEF Suits
<1>4. DOMAIN hosts = HOSTS
  BY DEF Inv
<1> QED BY <1>1, <1>2, <1>3, <1>4

\* A peer of the server.
LEMMA ServerPeer ==
    ASSUME NEW e \in Accounts, NEW s \in Slots(SERVER),
           NEW p \in Abiding(Len(e.asked), ServerRules(e), s)
    PROVE  /\ p.state # "DISCONNECTED" =>
                 /\ p.address \in Guests /\ Owns(e, p.address, p.connect_id)
                 /\ p.outgoing_peer_id = e.home[p.address] /\ p.number # 0
           /\ p.state \in CountedStates => p.address \in e.told /\ s = e.away[p.address]
<1>1. Core(p) \in ServerCores(e, s)
  BY ServerRulesLemma DEF Abiding
<1>2. PICK k : k = Core(p)
  OBVIOUS
<1>3. /\ k.state = p.state /\ k.address = p.address /\ k.connect_id = p.connect_id
      /\ k.outgoing_peer_id = p.outgoing_peer_id /\ k.number = p.number
  BY <1>2 DEF Core
<1>4. CASE k = Free
  BY <1>3, <1>4 DEF Free, CountedStates
<1>5. CASE k # Free
  BY <1>1, <1>2, <1>3, <1>5 DEF ServerCores, CountedStates
<1> QED BY <1>4, <1>5

LEMMA Concatenation ==
    ASSUME NEW S, NEW T, NEW a \in Seq(S), NEW o \in Seq(T)
    PROVE  LET c == a \o o
           IN  /\ Len(c) \in Nat /\ Len(a) \in 0..Len(c)
               /\ \A i \in 1..Len(a) : c[i] \in S
               /\ \A i \in (Len(a) + 1)..Len(c) : c[i] \in T
  OBVIOUS

\* Acknowledgements of the given answers.
Acknowledging(n, A) == {c \in Acks(n) : \E b \in A : c.rsn = b.rsn}

\* What a peer says: acknowledgements, then commands.
LEMMA Speaks ==
    ASSUME NEW e \in Accounts, NEW h \in HOSTS, NEW s \in Slots(h), NEW n \in Nat,
           n = Len(e.asked), NEW r, r = RulesAt(e, h), NEW p \in Abiding(n, r, s),
           p.state # "DISCONNECTED",
           NEW a \in Seq(Acknowledging(n, r.answers)), NEW o \in Seq(r.commands)
    PROVE  Datagram(h, p, a \o o) \in Fits(e)
<1>1. PICK c : c = a \o o
  OBVIOUS
<1>2. PICK k : k = Len(a)
  OBVIOUS
<1>3. /\ Len(c) \in Nat /\ k \in 0..Len(c)
      /\ \A i \in 1..k : c[i] \in Acknowledging(n, r.answers)
      /\ \A i \in (k + 1)..Len(c) : c[i] \in r.commands
  BY <1>1, <1>2, Concatenation
<1>4. c \in Seq(Control(n))
  <2>1. r.commands \subseteq Control(n)
    BY RulesAtLemma, RulesFields
  <2>2. Acknowledging(n, r.answers) \subseteq Control(n)
    BY DEF Acknowledging, Acks
  <2>3. a \in Seq(Control(n)) /\ o \in Seq(Control(n))
    BY <2>1, <2>2
  <2>4. a \o o \in Seq(Control(n))
    BY <2>3
  <2> QED BY <1>1, <2>4
<1>5. PICK d : d = Datagram(h, p, c)
  OBVIOUS
<1>6. /\ d \in Datagrams(n) /\ d.from = h /\ d.to = p.address
      /\ d.slot = p.outgoing_peer_id /\ d.commands = c
  <2>1. p.address \in HOSTS \cup {Nowhere} /\ p.outgoing_peer_id \in Nat
    BY AbidingFields, PeerFields
  <2> QED BY <1>4, <1>5, <2>1 DEF Datagram, Datagrams
<1>7. CASE h = SERVER
  <2>1. r = ServerRules(e)
    BY <1>7 DEF RulesAt
  <2>2. r.commands = ServerCommands(n)
    BY <2>1, ServerRulesLemma
  <2>3. p.address \in Guests
    BY <1>7, <2>1, ServerPeer
  <2>4. \A i \in 1..k : c[i] \in Acks(n)
    BY <1>3 DEF Acknowledging
  <2>5. FromServer(n, d)
    BY <1>3, <1>6, <2>2, <2>3, <2>4 DEF FromServer
  <2> QED BY <1>1, <1>5, <1>6, <1>7, <2>5 DEF Fits
<1>8. CASE h # SERVER
  <2>1. r = GuestRules(e, h) /\ h \in Guests
    BY <1>8 DEF RulesAt, Guests
  <2>2. r.commands = GuestCommands(e, h) /\ r.answers = GuestAnswers(e, h)
    BY <2>1, GuestRulesLemma
  <2>3. p.address = SERVER /\ (h \in e.told => p.outgoing_peer_id = e.away[h])
    BY <2>1, GuestPeer
  <2>4. ASSUME NEW i \in 1..Len(c) PROVE c[i] \in GuestWords(e, h, d.slot)
    <3>1. CASE i \in 1..k
      <4>1. PICK b \in r.answers : c[i] \in Acks(n) /\ c[i].rsn = b.rsn
        BY <1>3, <3>1 DEF Acknowledging
      <4>2. c[i].rsn = 1 => h \in e.told
        BY <2>2, <4>1 DEF GuestAnswers
      <4> QED BY <1>6, <2>3, <4>1, <4>2 DEF GuestWords
    <3>2. CASE i \in (k + 1)..Len(c)
      BY <1>3, <2>2, <3>2 DEF GuestWords
    <3> QED BY <1>3, <3>1, <3>2
  <2>5. FromGuest(e, h, d)
    BY <1>6, <1>8, <2>3, <2>4 DEF FromGuest
  <2> QED BY <1>1, <1>5, <1>6, <1>8, <2>5 DEF Fits
<1> QED BY <1>7, <1>8

\* The network takes a datagram.
LEMMA NetworkFits ==
    ASSUME NEW e, Suits(e), NEW d \in Fits(e), network' = network (+) SetToBag({d})
    PROVE  DOMAIN network' \subseteq Fits(e)
<1>1. PICK B : B = network (+) SetToBag({d})
  OBVIOUS
<1>2. DOMAIN B = DOMAIN network \cup {d}
  BY <1>1, BagLemma
<1> QED BY <1>1, <1>2 DEF Suits

-----------------------------------------------------------------------------
(* The steps keep both ends to the accounts.                               *)

LEMMA AcknowledgesAnswers ==
    ASSUME NEW n \in Nat, NEW A \in SUBSET Answers, NEW o \in Seq(A)
    PROVE  [i \in DOMAIN o |-> Acknowledge(o[i].rsn)] \in Seq(Acknowledging(n, A))
<1>1. PICK k \in Nat : DOMAIN o = 1..k
  OBVIOUS
<1>2. ASSUME NEW i \in 1..k PROVE Acknowledge(o[i].rsn) \in Acknowledging(n, A)
  <2>1. PICK b \in A : b = o[i] /\ b.rsn \in Nat
    BY <1>1 DEF Answers
  <2>2. PICK c : c = Acknowledge(b.rsn)
    OBVIOUS
  <2>3. c \in Control(n) /\ c.type = "ACKNOWLEDGE" /\ c.rsn = b.rsn
    BY <2>1, <2>2 DEF Acknowledge, Control, Types, Nobody
  <2> QED BY <2>1, <2>2, <2>3 DEF Acknowledging, Acks
<1> QED BY <1>1, <1>2

LEMMA SendKeeps ==
    ASSUME Inv, EventsTyped, NEW e \in Accounts, Suits(e), NEW h \in HOSTS, NEW s \in Slots(h),
           NEW expired, NEW ping \in BOOLEAN, SendOutgoingCommands(h, s, expired, ping)
    PROVE  BothEnds'
<1>1. DOMAIN hosts = HOSTS /\ connects' = connects /\ EventsGrow
  <2>1. connects' = connects /\ events' = events
    BY DEF SendOutgoingCommands
  <2> QED BY <2>1, EventsSame DEF Inv
<1>2. PICK n, x, host, r :
         /\ n \in Nat /\ x \in Nat
         /\ n = Len(connects) /\ n = Len(e.asked) /\ host = hosts[h]
         /\ host \in Tallied(h, n, x) /\ r = RulesAt(e, h) /\ r \in Rules(h, n)
         /\ Housed(h, n, r, host)
  BY HostOnAccount
<1>3. PICK p \in Abiding(n, r, s) : p = host.peers[s] /\ p.state # "DISCONNECTED"
  <2>1. host.peers[s] \in Abiding(n, r, s)
    BY <1>2, HousedPeer
  <2> QED BY <1>2, <2>1 DEF SendOutgoingCommands, Sendable
<1>4. PICK answered : answered = SendAcknowledgements(host, s)
  OBVIOUS
<1>5. /\ answered \in Tallied(h, n, x) /\ Housed(h, n, r, answered)
      /\ answered.peers[s].state # "DISCONNECTED"
  BY <1>2, <1>3, <1>4, SendAcknowledgementsLemma, SendAcknowledgementsHoused
<1>6. PICK a \in Abiding(n, r, s) : a = answered.peers[s]
  BY <1>2, <1>5, HousedPeer
<1>7. PICK timed \in Abiding(n, r, s) : timed = Timeout(a, expired) /\ timed.state # "DISCONNECTED"
  <2>1. PICK q : q = Timeout(a, expired)
    OBVIOUS
  <2>2. q \in Abiding(n, r, s) /\ Core(q) = Core(a)
    BY <1>2, <2>1, TimeoutAbides
  <2>3. q.state = a.state
    BY <2>2, SameCore
  <2> QED BY <1>5, <1>6, <2>1, <2>2, <2>3
<1>8. PICK queued \in Abiding(n, r, s) :
         queued = IF ping THEN QueueOutgoingCommand(timed, "PING", 0, Nobody) ELSE timed
  <2>1. PICK ty : ty = "PING" /\ ty \in {"PING", "DISCONNECT"}
    OBVIOUS
  <2>2. PICK q : q = QueueOutgoingCommand(timed, ty, 0, Nobody)
    OBVIOUS
  <2>3. q \in Abiding(n, r, s) /\ q.state = timed.state
    BY <1>2, <1>7, <2>1, <2>2, QueueAbides
  <2> QED BY <1>7, <2>1, <2>2, <2>3
<1>9. PICK loaded \in Abiding(n, r, s) : loaded = LoadReliableCommands(queued)
  <2>1. PICK q : q = LoadReliableCommands(queued)
    OBVIOUS
  <2>2. q \in Abiding(n, r, s) /\ Core(q) = Core(queued)
    BY <1>2, <2>1, LoadAbides
  <2> QED BY <2>1, <2>2
<1>10. PICK m : m = UpdatePeer(answered, s, loaded)
  OBVIOUS
<1>11. Housed(h, n, r, m)
  <2>1. answered \in Host(h, n)
    BY <1>2, <1>5, HousedPeer
  <2> QED BY <1>2, <1>5, <1>9, <1>10, <2>1, UpdateHoused
<1>12. PICK acks : acks = [i \in DOMAIN p.acknowledgements |-> Acknowledge(p.acknowledgements[i].rsn)]
  OBVIOUS
<1>13. acks \in Seq(Acknowledging(n, r.answers))
  <2>1. PICK o \in Seq(r.answers) : o = p.acknowledgements
    BY <1>2, AbidingFields
  <2>2. r.answers \in SUBSET Answers
    BY <1>2, RulesFields
  <2> QED BY <1>2, <1>12, <2>1, <2>2, AcknowledgesAnswers
<1>14. PICK o \in Seq(r.commands) : o = queued.outgoing
  BY <1>2, AbidingFields
<1>15. PICK d : d = Datagram(h, p, acks \o o)
  OBVIOUS
<1>16. d \in Fits(e)
  BY <1>2, <1>3, <1>13, <1>14, <1>15, Speaks
<1>17. hosts' = [hosts EXCEPT ![h] = m] /\ network' = network (+) SetToBag({d})
  BY <1>2, <1>3, <1>4, <1>6, <1>7, <1>8, <1>9, <1>10, <1>12, <1>14, <1>15 DEF SendOutgoingCommands
<1>18. DOMAIN network' \subseteq Fits(e)
  BY <1>16, <1>17, NetworkFits
<1>19. Housed(h, Len(e.asked), RulesAt(e, h), m)
  BY <1>2, <1>11
<1> QED BY <1>1, <1>17, <1>18, <1>19, SameAccounts

LEMMA OneInSequence ==
    ASSUME NEW S, NEW c \in S PROVE <<c>> \in Seq(S)
  OBVIOUS

\* A DISCONNECT that is flushed.
LEMMA FlushedFits ==
    ASSUME NEW e \in Accounts, Suits(e), NEW h \in HOSTS, NEW s \in Slots(h), NEW n \in Nat,
           n = Len(e.asked), NEW r, r = RulesAt(e, h), NEW p \in Abiding(n, r, s),
           p.state # "DISCONNECTED", network' = network (+) Flushed(h, s, p)
    PROVE  DOMAIN network' \subseteq Fits(e)
<1>1. r \in Rules(h, n)
  BY RulesAtLemma
<1>2. PICK c \in r.commands : c = Command(p, "DISCONNECT", 0, Nobody, FALSE)
  <2>1. PICK ty : ty = "DISCONNECT" /\ ty \in {"PING", "DISCONNECT"}
    OBVIOUS
  <2>2. Command(p, ty, 0, Nobody, FALSE) \in r.commands
    BY <1>1, <2>1, LaterLemma
  <2> QED BY <2>1, <2>2
<1>3. PICK o \in Seq(r.commands) : o = <<c>>
  BY OneInSequence
<1>4. PICK a \in Seq(Acknowledging(n, r.answers)) : a = <<>>
  BY EmptySequence
<1>5. a \o o = <<c>>
  BY <1>3, <1>4
<1>6. Datagram(h, p, a \o o) \in Fits(e)
  BY Speaks
<1>7. PICK d \in Fits(e) : d = Datagram(h, p, <<c>>)
  BY <1>5, <1>6
<1>8. Flushed(h, s, p) = SetToBag({d})
  BY <1>2, <1>7 DEF Flushed
<1> QED BY <1>8, NetworkFits

LEMMA DisconnectLaterKeeps ==
    ASSUME Inv, EventsTyped, NEW e \in Accounts, Suits(e), NEW h \in HOSTS, NEW s \in Slots(h),
           DisconnectLater(h, s)
    PROVE  BothEnds'
<1>1. DOMAIN hosts = HOSTS /\ connects' = connects /\ EventsGrow
  <2>1. connects' = connects /\ events' = events
    BY DEF DisconnectLater, Asks, bounds
  <2> QED BY <2>1, EventsSame DEF Inv
<1>2. PICK n, x, host, r :
         /\ n \in Nat /\ x \in Nat
         /\ n = Len(connects) /\ n = Len(e.asked) /\ host = hosts[h]
         /\ host \in Tallied(h, n, x) /\ r = RulesAt(e, h) /\ r \in Rules(h, n)
         /\ Housed(h, n, r, host)
  BY HostOnAccount
<1>3. PICK p \in Abiding(n, r, s) : p = host.peers[s]
  BY <1>2, HousedPeer
<1>4. host \in Host(h, n)
  BY <1>2, <1>3, HousedPeer
<1>5. CASE /\ Counted(host, s)
           /\ hosts' = [hosts EXCEPT ![h].peers[s].state = "DISCONNECT_LATER"]
           /\ network' = network
  <2>1. PICK st : st = "DISCONNECT_LATER"
    OBVIOUS
  <2>2. /\ st \in States /\ p.state # "DISCONNECTED" /\ st # "DISCONNECTED"
        /\ st \in Onward(p.state)
    BY <1>3, <1>5, <2>1 DEF States, Counted, CountedStates, Onward
  <2>3. p \in Peer(n)
    BY <1>2, AbidingFields
  <2>4. PICK o \in Peer(n) : o = [p EXCEPT !.state = st] /\ o.state = st
    BY <1>2, <2>2, <2>3, StateUpdate
  <2>5. OnlyState(p, o)
    BY <2>4 DEF OnlyState
  <2>6. MayTurn(r, s, p, o.state)
    BY <1>2, <2>2, <2>4, OnwardMayTurn
  <2>7. o \in Abiding(n, r, s)
    BY <1>2, <2>5, <2>6, StateAbides
  <2>8. PICK m : m = UpdatePeer(host, s, o)
    OBVIOUS
  <2>9. Housed(h, n, r, m)
    BY <1>2, <1>4, <2>7, <2>8, UpdateHoused
  <2>10. hosts' = [hosts EXCEPT ![h] = m]
    BY <1>2, <1>3, <1>5, <2>1, <2>4, <2>8 DEF UpdatePeer
  <2>11. DOMAIN network' \subseteq Fits(e)
    BY <1>5 DEF Suits
  <2> QED BY <1>1, <1>2, <2>9, <2>10, <2>11, SameAccounts
<1>6. CASE /\ Counted(host, s)
           /\ hosts' = [hosts EXCEPT ![h] = DisconnectConnected(@, s)]
           /\ network' = network
  <2>1. host.peers[s].state # "DISCONNECTED"
    BY <1>6 DEF Counted, CountedStates
  <2>2. PICK m : m = DisconnectConnected(host, s)
    OBVIOUS
  <2>3. Housed(h, n, r, m)
    BY <1>2, <2>1, <2>2, DisconnectConnectedHoused
  <2>4. hosts' = [hosts EXCEPT ![h] = m]
    BY <1>1, <1>2, <1>6, <2>2
  <2>5. DOMAIN network' \subseteq Fits(e)
    BY <1>6 DEF Suits
  <2> QED BY <1>1, <1>2, <2>3, <2>4, <2>5, SameAccounts
<1>7. CASE p.state \in {"CONNECTING", "ACKNOWLEDGING_CONNECT"} /\ DisconnectAtOnce(h, s)
  <2>1. PICK q \in Abiding(n, r, s) : q = ResetPeerQueues(p) /\ q.state = p.state
    <3>1. PICK q : q = ResetPeerQueues(p)
      OBVIOUS
    <3>2. q \in Abiding(n, r, s) /\ Core(q) = Core(p)
      BY <1>2, <3>1, ResetQueuesAbides
    <3> QED BY <3>1, <3>2, SameCore
  <2>2. PICK o \in Abiding(n, r, s) : o = Reset(q)
    BY <1>2, ResetAbides
  <2>3. PICK m : m = UpdatePeer(host, s, o)
    OBVIOUS
  <2>4. Housed(h, n, r, m)
    BY <1>2, <1>4, <2>2, <2>3, UpdateHoused
  <2>5. hosts' = [hosts EXCEPT ![h] = m] /\ network' = network (+) Flushed(h, s, q)
    BY <1>2, <1>3, <1>7, <2>1, <2>2, <2>3 DEF DisconnectAtOnce
  <2>6. q.state # "DISCONNECTED"
    BY <1>7, <2>1
  <2>7. DOMAIN network' \subseteq Fits(e)
    BY <1>2, <2>5, <2>6, FlushedFits
  <2> QED BY <1>1, <1>2, <2>4, <2>5, <2>7, SameAccounts
<1> QED BY <1>2, <1>3, <1>5, <1>6, <1>7 DEF DisconnectLater

LEMMA DisconnectNowKeeps ==
    ASSUME Inv, EventsTyped, NEW e \in Accounts, Suits(e), NEW h \in HOSTS, NEW s \in Slots(h),
           DisconnectNow(h, s)
    PROVE  BothEnds'
<1>1. DOMAIN hosts = HOSTS /\ connects' = connects /\ EventsGrow
  <2>1. connects' = connects /\ events' = events
    BY DEF DisconnectNow, Asks, bounds
  <2> QED BY <2>1, EventsSame DEF Inv
<1>2. PICK n, x, host, r :
         /\ n \in Nat /\ x \in Nat
         /\ n = Len(connects) /\ n = Len(e.asked) /\ host = hosts[h]
         /\ host \in Tallied(h, n, x) /\ r = RulesAt(e, h) /\ r \in Rules(h, n)
         /\ Housed(h, n, r, host)
  BY HostOnAccount
<1>3. PICK p \in Abiding(n, r, s) : p = host.peers[s]
  BY <1>2, HousedPeer
<1>4. PICK q \in Abiding(n, r, s) : q = ResetPeerQueues(p) /\ q.state = p.state
  <2>1. PICK q : q = ResetPeerQueues(p)
    OBVIOUS
  <2>2. q \in Abiding(n, r, s) /\ Core(q) = Core(p)
    BY <1>2, <2>1, ResetQueuesAbides
  <2> QED BY <2>1, <2>2, SameCore
<1>5. p.state # "DISCONNECTED"
  BY <1>2, <1>3 DEF DisconnectNow
<1>6. PICK o \in Abiding(n, r, s) : hosts' = [hosts EXCEPT ![h] = UpdatePeer(host, s, o)]
  <2>1. Reset(p) \in Abiding(n, r, s)
    BY <1>2, ResetAbides
  <2>2. Reset(q) \in Abiding(n, r, s)
    BY <1>2, ResetAbides
  <2> QED BY <1>2, <1>3, <1>4, <2>1, <2>2 DEF DisconnectNow, DisconnectAtOnce
<1>7. DOMAIN network' \subseteq Fits(e)
  <2>1. CASE network' = network
    BY <2>1 DEF Suits
  <2>2. CASE network' = network (+) Flushed(h, s, q)
    BY <1>2, <1>4, <1>5, <2>2, FlushedFits
  <2> QED BY <1>2, <1>3, <1>4, <2>1, <2>2 DEF DisconnectNow, DisconnectAtOnce
<1>8. PICK m : m = UpdatePeer(host, s, o)
  OBVIOUS
<1>9. Housed(h, n, r, m)
  <2>1. host \in Host(h, n)
    BY <1>2, <1>3, HousedPeer
  <2> QED BY <1>2, <1>6, <1>8, <2>1, UpdateHoused
<1> QED BY <1>1, <1>2, <1>6, <1>7, <1>8, <1>9, SameAccounts

\* A peer changes its flag.
LEMMA FlagAbides ==
    ASSUME NEW h \in HOSTS, NEW n \in Nat, NEW r \in Rules(h, n), NEW s \in Slots(h),
           NEW p \in Abiding(n, r, s), NEW flag \in BOOLEAN
    PROVE  LET q == [p EXCEPT !.needs_dispatch = flag] IN q \in Abiding(n, r, s)
<1>1. /\ p \in Peer(n) /\ p.outgoing \in Seq(r.commands) /\ p.sent \in Seq(r.commands)
      /\ p.acknowledgements \in Seq(r.answers)
  BY AbidingFields
<1>2. PICK q \in Peer(n) : q = [p EXCEPT !.needs_dispatch = flag]
  BY <1>1, AfterDispatch
<1>3. /\ q.address = p.address /\ q.connect_id = p.connect_id
      /\ q.outgoing_peer_id = p.outgoing_peer_id /\ q.state = p.state
      /\ q.number = p.number /\ q.outgoing = p.outgoing /\ q.sent = p.sent
      /\ q.acknowledgements = p.acknowledgements
  BY <1>2
<1>4. q \in Abiding(n, r, s)
  BY <1>1, <1>3, GoesOn
<1> QED BY <1>2, <1>4

\* The peers after DispatchIncomingCommands, and what the application is told.
LEMMA Dispatching ==
    ASSUME NEW h \in HOSTS, NEW n \in Nat, NEW x \in Nat, DOMAIN hosts = HOSTS,
           hosts[h] \in Tallied(h, n, x), DispatchIncomingCommands(h)
    PROVE  /\ \E m : /\ hosts' = [hosts EXCEPT ![h] = m]
                     /\ \A t \in Slots(h) :
                           \/ m.peers[t] = ResetPeerQueues(Reset(hosts[h].peers[t]))
                           \/ \E flag \in BOOLEAN :
                                 m.peers[t] = [hosts[h].peers[t] EXCEPT !.needs_dispatch = flag]
           /\ \/ events' = events
              \/ \E event \in Tidings(n), t \in Slots(h) :
                    /\ event.type = "DISCONNECT" /\ IsTold(h, event)
                    /\ hosts[h].peers[t].state = "ZOMBIE"
                    /\ event.connect_id = hosts[h].peers[t].connect_id
<1> DEFINE host    == hosts[h]
           zombies == {i \in DOMAIN host.queue : host.peers[host.queue[i]].state = "ZOMBIE"}
           last    == IF zombies = {} THEN Len(host.queue) ELSE Min(zombies)
           taken   == ToSet(SubSeq(host.queue, 1, last))
           s       == host.queue[last]
           After(t) == IF zombies # {} /\ t = s
                       THEN ResetPeerQueues(Reset(host.peers[t]))
                       ELSE [host.peers[t] EXCEPT !.needs_dispatch = @ /\ t \notin taken]
           ps      == [t \in Slots(h) |-> After(t)]
           qu      == SubSeq(host.queue, last + 1, Len(host.queue))
<1>1. /\ host.queue # <<>>
      /\ hosts' = [hosts EXCEPT ![h].queue = qu, ![h].peers = ps]
      /\ IF zombies = {} THEN UNCHANGED events
         ELSE IsTold(h, [type |-> "DISCONNECT", connect_id |-> host.peers[s].connect_id])
  BY DEF DispatchIncomingCommands
<1>2. /\ host \in Host(h, n)
      /\ host.peers \in [Slots(h) -> Peer(n)] /\ host.queue \in Seq(Slots(h))
  BY HostFields DEF Tallied
<1>3. last \in 1..Len(host.queue)
  <2>1. CASE zombies = {}
    <3>1. last = Len(host.queue)
      BY <2>1
    <3> HIDE DEF last, zombies, host
    <3> QED BY <1>1, <1>2, <3>1, LastPlace
  <2>2. CASE zombies # {}
    <3>1. zombies \in SUBSET Nat /\ zombies \subseteq 1..Len(host.queue)
      BY <1>2
    <3>2. Min(zombies) \in zombies
      <4> HIDE DEF zombies
      <4> QED BY <2>2, <3>1, MinOfSet
    <3> QED BY <2>2, <3>1, <3>2
  <2> QED BY <2>1, <2>2
<1>4. s \in Slots(h)
  <2>1. PICK q \in Seq(Slots(h)) : q = host.queue
    BY <1>2
  <2> HIDE DEF last
  <2> QED BY <1>3, <2>1
<1>5. ASSUME NEW t \in Slots(h)
      PROVE  \/ After(t) = ResetPeerQueues(Reset(host.peers[t]))
             \/ \E flag \in BOOLEAN : After(t) = [host.peers[t] EXCEPT !.needs_dispatch = flag]
  <2>1. PICK p \in Peer(n) : p = host.peers[t]
    BY <1>2
  <2>2. PICK flag \in BOOLEAN : flag = (p.needs_dispatch /\ t \notin taken)
    <3> HIDE DEF taken
    <3> QED BY PeerFields
  <2> HIDE DEF zombies, taken, s, last, host
  <2>3. CASE zombies # {} /\ t = s
    BY <2>3
  <2>4. CASE ~(zombies # {} /\ t = s)
    BY <2>1, <2>2, <2>4
  <2> QED BY <2>3, <2>4
<1>6. PICK m : m = [peers |-> ps, queue |-> qu, connected |-> host.connected]
  OBVIOUS
<1>7. hosts' = [hosts EXCEPT ![h] = m]
  <2>1. host = [peers |-> host.peers, queue |-> host.queue, connected |-> host.connected]
    <3> HIDE DEF host
    <3> QED BY <1>2 DEF Host
  <2>2. [host EXCEPT !.queue = qu, !.peers = ps] = m
    <3> HIDE DEF host, qu, ps
    <3>1. PICK a, b, k : a = host.peers /\ b = host.queue /\ k = host.connected
      OBVIOUS
    <3>2. PICK r : r = [peers |-> a, queue |-> b, connected |-> k]
      OBVIOUS
    <3>3. PICK q : q = [r EXCEPT !.queue = qu]
      OBVIOUS
    <3>4. q = [peers |-> a, queue |-> qu, connected |-> k]
      BY <3>2, <3>3
    <3>5. [q EXCEPT !.peers = ps] = [peers |-> ps, queue |-> qu, connected |-> k]
      BY <3>4
    <3> QED BY <1>6, <2>1, <3>1, <3>2, <3>3, <3>5
  <2>3. hosts' = [hosts EXCEPT ![h] = [host EXCEPT !.queue = qu, !.peers = ps]]
    <3> HIDE DEF qu, ps
    <3> QED BY <1>1
  <2> QED BY <2>2, <2>3
<1>8. \A t \in Slots(h) : m.peers[t] = After(t)
  <2>1. m.peers = ps
    <3> HIDE DEF ps, qu, host
    <3> QED BY <1>6
  <2> HIDE DEF After
  <2> QED BY <2>1
<1>9. \/ events' = events
      \/ \E event \in Tidings(n), t \in Slots(h) :
            /\ event.type = "DISCONNECT" /\ IsTold(h, event)
            /\ host.peers[t].state = "ZOMBIE" /\ event.connect_id = host.peers[t].connect_id
  <2>1. PICK id \in 0..n : id = host.peers[s].connect_id
    <3> HIDE DEF s, host
    <3>1. host.peers[s] \in Peer(n)
      BY <1>2, <1>4
    <3> QED BY <3>1, PeerFields
  <2>2. PICK event : event = [type |-> "DISCONNECT", connect_id |-> id]
    OBVIOUS
  <2>3. event \in Tidings(n) /\ event.type = "DISCONNECT" /\ event.connect_id = id
    BY <2>2 DEF Tidings
  <2>4. zombies # {} => IsTold(h, event)
    <3> HIDE DEF s, host, zombies, last, qu, ps
    <3> QED BY <1>1, <2>1, <2>2
  <2>5. zombies = {} => events' = events
    <3> HIDE DEF s, host, zombies, last, qu, ps
    <3> QED BY <1>1
  <2>6. zombies # {} => host.peers[s].state = "ZOMBIE"
    <3>1. zombies \in SUBSET Nat
      BY <1>2
    <3>2. ASSUME zombies # {} PROVE last \in zombies
      <4>1. Min(zombies) \in zombies
        <5> HIDE DEF zombies
        <5> QED BY <3>1, <3>2, MinOfSet
      <4> HIDE DEF zombies
      <4> QED BY <3>2, <4>1
    <3> HIDE DEF last, host
    <3> QED BY <3>2
  <2> HIDE DEF zombies, s, host
  <2> QED BY <1>4, <2>1, <2>3, <2>4, <2>5, <2>6
<1>10. \A t \in Slots(h) :
          \/ m.peers[t] = ResetPeerQueues(Reset(host.peers[t]))
          \/ \E flag \in BOOLEAN : m.peers[t] = [host.peers[t] EXCEPT !.needs_dispatch = flag]
  <2> HIDE DEF After, host
  <2> QED BY <1>5, <1>8
<1> HIDE DEF ps, qu, zombies, s, last, taken, After
<1> QED BY <1>7, <1>9, <1>10

LEMMA DispatchKeeps ==
    ASSUME Inv, EventsTyped, NEW e \in Accounts, Suits(e), NEW h \in HOSTS,
           DispatchIncomingCommands(h)
    PROVE  BothEnds'
<1>1. DOMAIN hosts = HOSTS /\ connects' = connects /\ network' = network
  BY DEF DispatchIncomingCommands, bounds, Inv
<1>2. PICK n, x, host, r :
         /\ n \in Nat /\ x \in Nat
         /\ n = Len(connects) /\ n = Len(e.asked) /\ host = hosts[h]
         /\ host \in Tallied(h, n, x) /\ r = RulesAt(e, h) /\ r \in Rules(h, n)
         /\ Housed(h, n, r, host)
  BY HostOnAccount
<1>3. PICK m :
         /\ hosts' = [hosts EXCEPT ![h] = m]
         /\ \A t \in Slots(h) :
               \/ m.peers[t] = ResetPeerQueues(Reset(host.peers[t]))
               \/ \E flag \in BOOLEAN : m.peers[t] = [host.peers[t] EXCEPT !.needs_dispatch = flag]
  <2>1. DOMAIN hosts = HOSTS /\ hosts[h] \in Tallied(h, n, x)
    BY <1>1, <1>2
  <2>2. PICK m :
           /\ hosts' = [hosts EXCEPT ![h] = m]
           /\ \A t \in Slots(h) :
                 \/ m.peers[t] = ResetPeerQueues(Reset(hosts[h].peers[t]))
                 \/ \E flag \in BOOLEAN :
                       m.peers[t] = [hosts[h].peers[t] EXCEPT !.needs_dispatch = flag]
    BY <1>2, <2>1, Dispatching
  <2>3. \A t \in Slots(h) :
           \/ m.peers[t] = ResetPeerQueues(Reset(host.peers[t]))
           \/ \E flag \in BOOLEAN : m.peers[t] = [host.peers[t] EXCEPT !.needs_dispatch = flag]
    BY <1>2, <2>2
  <2> QED BY <2>2, <2>3
<1>4. ASSUME NEW t \in Slots(h) PROVE m.peers[t] \in Abiding(n, r, t)
  <2>1. PICK p \in Abiding(n, r, t) : p = host.peers[t]
    BY <1>2, HousedPeer
  <2>2. CASE m.peers[t] = ResetPeerQueues(Reset(p))
    <3>1. PICK o \in Abiding(n, r, t) : o = Reset(p)
      BY <1>2, ResetAbides
    <3>2. PICK q : q = ResetPeerQueues(o)
      OBVIOUS
    <3>3. q \in Abiding(n, r, t) /\ Core(q) = Core(o)
      BY <1>2, <3>2, ResetQueuesAbides
    <3> QED BY <2>2, <3>1, <3>2, <3>3
  <2>3. ASSUME NEW flag \in BOOLEAN, m.peers[t] = [p EXCEPT !.needs_dispatch = flag]
        PROVE  m.peers[t] \in Abiding(n, r, t)
    BY <1>2, <2>3, FlagAbides
  <2> QED BY <1>3, <2>1, <2>2, <2>3
<1>5. Housed(h, n, r, m)
  BY <1>4 DEF Housed
<1>6. EventsGrow
  <2>1. CASE events' = events
    BY <2>1, EventsSame
  <2>2. ASSUME NEW event \in Tidings(n), IsTold(h, event) PROVE EventsGrow
    BY <1>2, <2>2, IsToldLemma
  <2> QED BY <1>1, <1>2, <2>1, <2>2, Dispatching
<1>7. DOMAIN network' \subseteq Fits(e)
  BY <1>1 DEF Suits
<1> QED BY <1>1, <1>2, <1>3, <1>5, <1>7, <1>6, SameAccounts

\* No host changes.
LEMMA SameHosts ==
    ASSUME NEW e \in Accounts, Suits(e), hosts' = hosts, connects' = connects,
           DOMAIN network' \subseteq Fits(e), EventsGrow
    PROVE  BothEnds'
<1>1. Witnessed(e)' /\ EventsTyped'
  BY WitnessedLater DEF Suits
<1>2. Suits(e)'
  BY <1>1 DEF Suits
<1> QED BY <1>1, <1>2 DEF BothEnds

\* A guest is told of its connection.
LEMMA TellingKeeps ==
    ASSUME Inv, NEW e \in Accounts, Suits(e), NEW h \in Guests, h \notin e.told,
           NEW a \in Slots(SERVER), NEW id, Owns(e, h, id), NEW m,
           hosts' = [hosts EXCEPT ![h] = m], connects' = connects,
           Housed(h, Len(e.asked), GuestRules(Told(e, h, a), h), m),
           DOMAIN network' \subseteq Fits(e), EventsGrow, Heard(h, id)'
    PROVE  BothEnds'
<1>1. DOMAIN hosts = HOSTS /\ h \in HOSTS /\ h # SERVER
  BY DEF Inv, Guests
<1>2. PICK f : f = Told(e, h, a)
  OBVIOUS
<1>3. f \in Accounts /\ f.asked = e.asked /\ f.told = e.told \cup {h}
  BY <1>2, ToldFields
<1>4. Grows(e, f)
  BY <1>2, ToldGrows
<1>5. Witnessed(e)' /\ EventsTyped'
  BY WitnessedLater DEF Suits
<1>6. Witnessed(f)'
  <2>1. ASSUME NEW g \in f.told
        PROVE  \E i \in DOMAIN f.asked : Owns(f, g, i) /\ Heard(g, i)'
    <3>1. CASE g \in e.told
      <4>1. PICK i \in DOMAIN e.asked : Owns(e, g, i) /\ Heard(g, i)'
        BY <1>5, <3>1 DEF Witnessed
      <4> QED BY <1>3, <4>1 DEF Owns
    <3>2. CASE g = h
      <4>1. id \in DOMAIN e.asked
        BY OwnsId
      <4> QED BY <1>3, <3>2, <4>1 DEF Owns
    <3> QED BY <1>3, <3>1, <3>2
  <2>2. \A i, j \in DOMAIN f.asked : f.asked[i] = f.asked[j] => i = j
    BY <1>3, <1>5 DEF Witnessed
  <2> QED BY <2>1, <2>2 DEF Witnessed
<1>7. Housed(h, Len(f.asked), RulesAt(f, h), m)
  BY <1>1, <1>2, <1>3 DEF RulesAt
<1>8. f.asked = connects' /\ (\A g \in f.told : g # h => g \in e.told)
  BY <1>3 DEF Suits
<1>9. DOMAIN network' \subseteq Fits(f)
  BY <1>3, <1>4, FitsMore
<1> QED BY <1>1, <1>3, <1>4, <1>5, <1>6, <1>7, <1>8, <1>9, SuitsStep

LEMMA ReceiveKeeps ==
    ASSUME Inv, EventsTyped, NEW e \in Accounts, Suits(e), NEW h \in HOSTS,
           NEW d \in DOMAIN network, ReceiveIncomingCommands(h, d),
           DOMAIN network' \subseteq DOMAIN network
    PROVE  BothEnds'
<1>1. /\ DOMAIN hosts = HOSTS /\ connects' = connects /\ d.to = h
      /\ d \in Fits(e) /\ DOMAIN network' \subseteq Fits(e)
  BY DEF ReceiveIncomingCommands, Inv, Suits
<1>2. PICK n, x, host, r :
         /\ n \in Nat /\ x \in Nat
         /\ n = Len(connects) /\ n = Len(e.asked) /\ host = hosts[h]
         /\ host \in Tallied(h, n, x) /\ r = RulesAt(e, h) /\ r \in Rules(h, n)
         /\ Housed(h, n, r, host)
  BY HostOnAccount
<1>3. d \in Datagrams(n) /\ d.from \in HOSTS
  BY <1>1, <1>2 DEF Fits, Datagrams
<1>4. CASE ~(d.slot = Nobody \/ EventOccur(h, d))
  <2>1. hosts' = hosts /\ events' = events
    BY <1>4 DEF ReceiveIncomingCommands
  <2> QED BY <1>1, <2>1, EventsSame, SameHosts
<1>5. CASE d.slot = Nobody \/ EventOccur(h, d)
  <2>1. d.slot \in Slots(h) \cup {Nobody}
    BY <1>5 DEF EventOccur
  <2>2. PICK walk : walk = Received(h, d)
    OBVIOUS
  <2>3. PICK m, event : m = walk.host /\ event = walk.event
    OBVIOUS
  <2>4. walk \in Walk(h, n, x) /\ event \in Tidings(n)
    BY <1>2, <1>3, <2>1, <2>2, <2>3, ReceivedLemma, WalkFields
  <2>5. hosts' = [hosts EXCEPT ![h] = m] /\ IsTold(h, event)
    BY <1>5, <2>2, <2>3 DEF ReceiveIncomingCommands
  <2>6. /\ EventsGrow
        /\ event.type = "CONNECT" => \A id : event = Connected(id) => Heard(h, id)'
    BY <1>2, <2>4, <2>5, IsToldLemma
  <2>7. CASE h = SERVER
    <3>1. d.from \in Guests /\ FromGuest(e, d.from, d)
      BY <1>1, <1>3, <2>7 DEF Fits, FromServer, Guests
    <3>2. r = ServerRules(e)
      BY <1>2, <2>7 DEF RulesAt
    <3>3. Housed(SERVER, Len(e.asked), ServerRules(e), Received(SERVER, d).host)
      BY <1>2, <1>3, <1>5, <2>7, <3>1, <3>2, ServerReceives
    <3>4. Housed(h, Len(e.asked), RulesAt(e, h), m)
      BY <1>2, <2>2, <2>3, <2>7, <3>2, <3>3
    <3> QED BY <1>1, <2>5, <2>6, <3>4, SameAccounts
  <2>8. CASE h # SERVER
    <3>1. h \in Guests /\ FromServer(n, d)
      BY <1>1, <1>2, <1>3, <2>8 DEF Fits, FromGuest, Guests
    <3>2. r = GuestRules(e, h)
      BY <1>2, <2>8 DEF RulesAt
    <3>3. \/ Housed(h, Len(e.asked), GuestRules(e, h), Received(h, d).host)
          \/ h \notin e.told /\ Telling(e, h, Received(h, d))
      BY <1>2, <1>3, <2>1, <3>1, <3>2, GuestReceives
    <3>4. CASE Housed(h, Len(e.asked), GuestRules(e, h), Received(h, d).host)
      <4>1. Housed(h, Len(e.asked), RulesAt(e, h), m)
        BY <1>2, <2>2, <2>3, <3>2, <3>4
      <4> QED BY <1>1, <2>5, <2>6, <4>1, SameAccounts
    <3>5. CASE h \notin e.told /\ Telling(e, h, Received(h, d))
      <4>1. PICK a \in Slots(SERVER), id \in DOMAIN e.asked :
               /\ Owns(e, h, id) /\ walk.event = Connected(id)
               /\ Housed(h, Len(e.asked), GuestRules(Told(e, h, a), h), walk.host)
        BY <2>2, <3>5 DEF Telling
      <4>2. event = Connected(id) /\ event.type = "CONNECT"
        BY <2>3, <4>1 DEF Connected
      <4>3. Heard(h, id)'
        BY <2>6, <4>2
      <4>4. Housed(h, Len(e.asked), GuestRules(Told(e, h, a), h), m)
        BY <2>3, <4>1
      <4> QED BY <1>1, <2>5, <2>6, <3>1, <3>5, <4>1, <4>3, <4>4, TellingKeeps
    <3> QED BY <3>3, <3>4, <3>5
  <2> QED BY <2>7, <2>8
<1> QED BY <1>4, <1>5

\* The guest g asks for a connection, from its slot s.
Asking(e, g, s) ==
    [asked |-> Append(e.asked, g), told |-> e.told, home |-> [e.home EXCEPT ![g] = s],
     away |-> e.away]

LEMMA AskingFields ==
    ASSUME NEW e \in Accounts, NEW g \in Guests, NEW s \in Nat
    PROVE  LET f == Asking(e, g, s)
           IN  /\ f \in Accounts /\ f.asked = Append(e.asked, g)
               /\ Len(f.asked) = Len(e.asked) + 1 /\ DOMAIN f.asked = 1..(Len(e.asked) + 1)
               /\ f.asked[Len(e.asked) + 1] = g
               /\ \A i \in DOMAIN e.asked : i \in DOMAIN f.asked /\ f.asked[i] = e.asked[i]
               /\ f.told = e.told /\ f.away = e.away /\ f.home[g] = s
               /\ \A o \in Guests : o # g => f.home[o] = e.home[o]
<1>1. PICK b \in [Guests -> Nat] : b = [e.home EXCEPT ![g] = s]
  BY AccountFields
<1>2. b[g] = s /\ \A o \in Guests : o # g => b[o] = e.home[o]
  BY <1>1, AccountFields
<1>3. PICK a \in Seq(Guests) : a = e.asked
  BY AccountFields
<1>4. PICK q : q = Append(a, g)
  OBVIOUS
<1>5. /\ q \in Seq(Guests) /\ Len(q) = Len(a) + 1 /\ DOMAIN q = 1..(Len(a) + 1)
      /\ q[Len(a) + 1] = g /\ \A i \in DOMAIN a : i \in DOMAIN q /\ q[i] = a[i]
  BY <1>4
<1>6. PICK f : f = [asked |-> q, told |-> e.told, home |-> b, away |-> e.away]
  OBVIOUS
<1>7. /\ f \in Accounts /\ f.asked = q /\ f.told = e.told /\ f.home = b /\ f.away = e.away
  BY <1>1, <1>5, <1>6, AccountFields DEF Accounts
<1>8. f = Asking(e, g, s)
  BY <1>1, <1>3, <1>4, <1>6 DEF Asking
<1> QED BY <1>2, <1>3, <1>4, <1>5, <1>7, <1>8

LEMMA AskingGrows ==
    ASSUME NEW e \in Accounts, NEW g \in Guests, NEW s \in Nat,
           \A i \in DOMAIN e.asked : e.asked[i] # g
    PROVE  Grows(e, Asking(e, g, s))
<1>1. PICK f : f = Asking(e, g, s)
  OBVIOUS
<1>2. /\ Len(f.asked) = Len(e.asked) + 1 /\ f.told = e.told /\ f.away = e.away
      /\ \A i \in DOMAIN e.asked : i \in DOMAIN f.asked /\ f.asked[i] = e.asked[i]
      /\ \A o \in Guests : o # g => f.home[o] = e.home[o]
  BY <1>1, AskingFields
<1>3. Len(e.asked) <= Len(f.asked)
  BY <1>2, AccountFields
<1>4. \A o \in Guests, id \in DOMAIN e.asked :
         Owns(e, o, id) => Owns(f, o, id) /\ f.home[o] = e.home[o]
  BY <1>2 DEF Owns
<1> QED BY <1>1, <1>2, <1>3, <1>4 DEF Grows

\* The peer that asks.
LEMMA AttemptAbides ==
    ASSUME NEW f \in Accounts, NEW g \in Guests, NEW s \in Slots(g), NEW id,
           Owns(f, g, id), f.home[g] = s, g \notin f.told,
           NEW p \in Abiding(Len(f.asked), GuestRules(f, g), s), p.state = "DISCONNECTED"
    PROVE  QueueOutgoingCommand([p EXCEPT !.state = "CONNECTING", !.address = SERVER,
                                          !.connect_id = id], "CONNECT", id, s)
              \in Abiding(Len(f.asked), GuestRules(f, g), s)
<1>1. PICK n \in Nat : n = Len(f.asked) /\ DOMAIN f.asked = 1..n
  BY AccountFields
<1>2. PICK r \in Rules(g, n) :
         /\ r = GuestRules(f, g) /\ r.commands = GuestCommands(f, g)
         /\ r.cores[s] = GuestCores(f, g, s)
  BY <1>1, GuestRulesLemma
<1>3. g \in HOSTS /\ s \in Nat /\ p \in Peer(n) /\ p \in Abiding(n, r, s)
  BY <1>1, <1>2, SlotsLemma, AbidingFields DEF Guests
<1>4. PICK k \in 0..n, st \in States, from \in HOSTS :
         k = id /\ k # 0 /\ st = "CONNECTING" /\ from = SERVER
  BY <1>1, OwnsId, LifecycleAssumption DEF States
<1>5. PICK o : o = [p EXCEPT !.state = st, !.address = from, !.connect_id = k]
  OBVIOUS
<1>6. /\ o \in Peer(n) /\ o.state = st /\ o.address = from /\ o.connect_id = k
      /\ o.outgoing_peer_id = p.outgoing_peer_id
      /\ o.number = p.number /\ o.outgoing = p.outgoing
      /\ o.sent = p.sent /\ o.acknowledgements = p.acknowledgements
  BY <1>3, <1>4, <1>5 DEF Peer
<1>7. p.number = 0
  <2>1. Core(p) = Free
    BY GuestPeer
  <2> QED BY <2>1 DEF Core, Free
<1>8. PICK v : v = Command(o, "CONNECT", k, s, TRUE)
  OBVIOUS
<1>9. v \in GuestCommands(f, g)
  <2>1. "CONNECT" \in Types
    BY DEF Types
  <2>2. v \in Control(n)
    BY <1>3, <1>4, <1>6, <1>8, <2>1, CommandLemma
  <2>3. v.type = "CONNECT" /\ v.connect_id = k /\ v.outgoing_peer_id = s
    BY <1>8 DEF Command
  <2> QED BY <1>1, <1>4, <2>2, <2>3 DEF GuestCommands
<1>10. PICK l \in Seq(r.commands) : l = Append(o.outgoing, v)
  <2>1. PICK b \in Seq(r.commands) : b = o.outgoing
    BY <1>3, <1>6, AbidingFields
  <2>2. v \in r.commands
    BY <1>2, <1>9
  <2>3. Append(b, v) \in Seq(r.commands)
    BY <2>2, AppendIn
  <2> QED BY <2>1, <2>3
<1>11. PICK one \in Nat \ {0} : one = 1 /\ one = o.number + 1
  BY <1>6, <1>7
<1>12. PICK q : q = [o EXCEPT !.number = one, !.outgoing = l]
  OBVIOUS
<1>13. QueueOutgoingCommand(o, "CONNECT", k, s) = q
  BY <1>8, <1>10, <1>11, <1>12 DEF QueueOutgoingCommand
<1>14. PICK u \in Seq(Control(n)) : u = l
  BY <1>2, <1>3, RulesFields
<1>15. /\ q \in Peer(n) /\ q.state = st /\ q.address = from /\ q.connect_id = k
       /\ q.number = one /\ q.outgoing = l
       /\ q.sent = p.sent /\ q.acknowledgements = p.acknowledgements
  BY <1>6, <1>11, <1>12, <1>14 DEF Peer
<1>16. PICK c : c = Core(q)
  OBVIOUS
<1>17. c.state = st /\ c.address = from /\ c.connect_id = k /\ c.number = one
  BY <1>15, <1>16 DEF Core
<1>18. c \in Cores(n)
  BY <1>15, <1>16 DEF Core, Cores, Peer
<1>19. c \in GuestCores(f, g, s)
  BY <1>1, <1>4, <1>11, <1>17, <1>18 DEF GuestCores, CountedStates
<1>20. q \in Abiding(n, r, s)
  BY <1>2, <1>3, <1>15, <1>16, <1>19, AbidingFields DEF Abiding
<1> QED BY <1>1, <1>2, <1>4, <1>5, <1>13, <1>20

\* Each guest calls Connect once.
OneAttempt == MAX_CONNECTS <= 1

LEMMA FirstAttempt ==
    ASSUME OneAttempt, NEW q \in Seq(HOSTS), NEW h,
           Cardinality({i \in DOMAIN q : q[i] = h}) < MAX_CONNECTS
    PROVE  \A i \in DOMAIN q : q[i] # h
<1>1. PICK n \in Nat : DOMAIN q = 1..n
  OBVIOUS
<1>2. PICK S : S = {i \in DOMAIN q : q[i] = h}
  OBVIOUS
<1>3. IsFiniteSet(S)
  <2>1. IsFiniteSet(1..n) /\ S \subseteq 1..n
    BY <1>1, <1>2, FS_Interval
  <2> QED BY <2>1, FS_Subset
<1>4. Cardinality(S) \in Nat /\ MAX_CONNECTS \in Nat
  BY <1>3, FS_CardinalityType, LifecycleAssumption
<1>5. Cardinality(S) = 0
  BY <1>2, <1>4 DEF OneAttempt
<1>6. S = {}
  BY <1>3, <1>5, FS_EmptySet
<1> QED BY <1>2, <1>6

LEMMA ConnectKeeps ==
    ASSUME OneAttempt, Inv, EventsTyped, NEW e \in Accounts, Suits(e), NEW h \in HOSTS,
           Connect(h)
    PROVE  BothEnds'
<1> DEFINE free == {s \in Slots(h) : hosts[h].peers[s].state = "DISCONNECTED"}
<1>1. /\ connects \in Seq(HOSTS) /\ connects' = Append(connects, h) /\ h \in Guests
      /\ network' = network /\ events' = events /\ DOMAIN hosts = HOSTS
  BY DEF Inv, Connect, Guests
<1>2. PICK n, x, host, r :
         /\ n \in Nat /\ x \in Nat
         /\ n = Len(connects) /\ n = Len(e.asked) /\ host = hosts[h]
         /\ host \in Tallied(h, n, x) /\ r = RulesAt(e, h) /\ r \in Rules(h, n)
         /\ Housed(h, n, r, host)
  BY HostOnAccount
<1>3. PICK s \in Slots(h) : s = Min(free) /\ hosts[h].peers[s].state = "DISCONNECTED" /\ s \in Nat
  <2>1. free \in SUBSET Nat /\ free # {}
    BY SlotsLemma DEF Connect
  <2>2. Min(free) \in free
    <3> HIDE DEF free
    <3> QED BY <2>1, MinOfSet
  <2> QED BY <2>1, <2>2
<1>4. \A i \in DOMAIN connects : connects[i] # h
  <2>1. Cardinality({i \in DOMAIN connects : connects[i] = h}) < MAX_CONNECTS
    BY DEF Connect
  <2> QED BY <1>1, <2>1, FirstAttempt
<1>5. e.asked = connects /\ \A i \in DOMAIN e.asked : e.asked[i] # h
  BY <1>4 DEF Suits
<1>6. PICK f : f = Asking(e, h, s)
  OBVIOUS
<1>7. /\ f \in Accounts /\ f.asked = Append(e.asked, h) /\ Len(f.asked) = n + 1
      /\ DOMAIN f.asked = 1..(n + 1) /\ f.asked[n + 1] = h
      /\ \A i \in DOMAIN e.asked : i \in DOMAIN f.asked /\ f.asked[i] = e.asked[i]
      /\ f.told = e.told /\ f.home[h] = s
  <2>1. /\ f \in Accounts /\ f.asked = Append(e.asked, h)
        /\ Len(f.asked) = Len(e.asked) + 1 /\ DOMAIN f.asked = 1..(Len(e.asked) + 1)
        /\ f.asked[Len(e.asked) + 1] = h
        /\ \A i \in DOMAIN e.asked : i \in DOMAIN f.asked /\ f.asked[i] = e.asked[i]
        /\ f.told = e.told /\ f.away = e.away /\ f.home[h] = s
        /\ \A o \in Guests : o # h => f.home[o] = e.home[o]
    <3>1. h \in Guests /\ s \in Nat
      BY <1>1, <1>3
    <3> QED BY <1>6, <3>1, AskingFields
  <2> QED BY <1>2, <2>1
<1>8. Grows(e, f)
  BY <1>1, <1>3, <1>5, <1>6, AskingGrows
<1>9. h \notin e.told /\ h \notin f.told
  <2>1. \A id \in DOMAIN e.asked : ~Owns(e, h, id)
    BY <1>5 DEF Owns
  <2> QED BY <1>7, <2>1 DEF Suits, Witnessed
<1>10. PICK u : u = GuestRules(f, h) /\ u = RulesAt(f, h)
  BY <1>1 DEF RulesAt, Guests
<1>11. Housed(h, n + 1, u, host)
  <2>1. h \in f.told => h \in e.told
    BY <1>9
  <2>2. Housed(h, Len(e.asked), RulesAt(e, h), host)
    BY <1>2
  <2>3. Housed(h, Len(f.asked), RulesAt(f, h), host)
    BY <1>7, <1>8, <2>1, <2>2, HousedMore
  <2> QED BY <1>7, <1>10, <2>3
<1>12. PICK id : id = n + 1 /\ Owns(f, h, id)
  BY <1>2, <1>7 DEF Owns
<1>13. PICK p \in Abiding(n + 1, u, s) : p = host.peers[s] /\ p.state = "DISCONNECTED"
  BY <1>2, <1>3, <1>11 DEF Housed
<1>14. PICK o : o = QueueOutgoingCommand([p EXCEPT !.state = "CONNECTING", !.address = SERVER,
                                                   !.connect_id = id], "CONNECT", id, s)
  OBVIOUS
<1>15. o \in Abiding(n + 1, u, s)
  BY <1>1, <1>7, <1>9, <1>10, <1>12, <1>13, <1>14, AttemptAbides
<1>16. PICK m : m = UpdatePeer(host, s, o)
  OBVIOUS
<1>17. hosts' = [hosts EXCEPT ![h] = m]
  BY <1>2, <1>3, <1>12, <1>13, <1>14, <1>16 DEF Connect
<1>18. Housed(h, n + 1, u, m)
  <2>1. n + 1 \in Nat /\ n <= n + 1
    BY <1>2
  <2>2. host \in Host(h, n + 1)
    <3>1. Peer(n) \subseteq Peer(n + 1)
      BY <1>2, <2>1, Widen
    <3>2. host \in Host(h, n)
      BY <1>2 DEF Tallied
    <3> QED BY <3>1, <3>2 DEF Host
  <2> QED BY <1>11, <1>15, <1>16, <2>1, <2>2, UpdateHoused
<1>19. Housed(h, Len(f.asked), RulesAt(f, h), m)
  BY <1>7, <1>10, <1>18
<1>20. Witnessed(e)' /\ EventsTyped'
  BY <1>1, EventsSame, WitnessedLater DEF Suits
<1>21. Witnessed(f)'
  <2>1. ASSUME NEW i \in DOMAIN f.asked, NEW j \in DOMAIN f.asked, f.asked[i] = f.asked[j]
        PROVE  i = j
    <3>1. DOMAIN e.asked = 1..n
      BY <1>2, AccountFields
    <3>2. i \in DOMAIN e.asked \/ i = n + 1
      BY <1>2, <1>7, <3>1
    <3>3. j \in DOMAIN e.asked \/ j = n + 1
      BY <1>2, <1>7, <3>1
    <3> QED BY <1>5, <1>7, <1>20, <2>1, <3>2, <3>3 DEF Witnessed
  <2>2. ASSUME NEW g \in f.told
        PROVE  \E i \in DOMAIN f.asked : Owns(f, g, i) /\ Heard(g, i)'
    <3>1. PICK i \in DOMAIN e.asked : Owns(e, g, i) /\ Heard(g, i)'
      BY <1>7, <1>20 DEF Witnessed
    <3> QED BY <1>7, <3>1 DEF Owns
  <2> QED BY <2>1, <2>2 DEF Witnessed
<1>22. f.asked = connects' /\ (\A g \in f.told : g # h => g \in e.told)
  BY <1>1, <1>5, <1>7
<1>23. DOMAIN network' \subseteq Fits(f)
  BY <1>1, <1>7, <1>8, FitsMore DEF Suits
<1> QED BY <1>1, <1>7, <1>8, <1>17, <1>19, <1>20, <1>21, <1>22, <1>23, SuitsStep

LEMMA InitBothEnds == Init => BothEnds
<1> SUFFICES ASSUME Init PROVE BothEnds
  OBVIOUS
<1>1. connects = <<>> /\ network = EmptyBag /\ Len(<<>>) = 0
  BY DEF Init
<1>2. EventsTyped
  BY EmptySequence DEF Init, EventsTyped
<1>3. PICK o \in Seq(Guests) : o = <<>> /\ DOMAIN o = {}
  <2>1. <<>> \in Seq(Guests)
    BY EmptySequence
  <2>2. DOMAIN <<>> = {}
    OBVIOUS
  <2> QED BY <2>1, <2>2
<1>4. PICK b \in [Guests -> Nat] : b = [g \in Guests |-> 0]
  OBVIOUS
<1>5. PICK a \in [Guests -> Slots(SERVER)] : a = [g \in Guests |-> 1]
  <2>1. 1 \in Slots(SERVER)
    BY LifecycleAssumption DEF Slots
  <2> QED BY <2>1
<1>6. PICK e : e = [asked |-> o, told |-> {}, home |-> b, away |-> a]
  OBVIOUS
<1>7. e \in Accounts /\ e.asked = o /\ e.told = {}
  BY <1>6 DEF Accounts
<1>8. Witnessed(e)
  BY <1>3, <1>7 DEF Witnessed
<1>9. DOMAIN network \subseteq Fits(e)
  BY <1>1 DEF EmptyBag, SetToBag
<1>10. ASSUME NEW h \in HOSTS PROVE Housed(h, Len(e.asked), RulesAt(e, h), hosts[h])
  <2>1. PICK n, r : n \in Nat /\ n = Len(e.asked) /\ r = RulesAt(e, h) /\ r \in Rules(h, n)
    BY <1>7, AccountFields, RulesAtLemma
  <2>2. ASSUME NEW s \in Slots(h) PROVE hosts[h].peers[s] \in Abiding(n, r, s)
    <3>1. PICK p \in Peer(n) : p = EmptyPeer
      BY <2>1, EmptyPeerLemma
    <3>2. hosts[h].peers[s] = p
      BY <3>1 DEF Init
    <3>3. p.outgoing = <<>> /\ p.sent = <<>> /\ p.acknowledgements = <<>>
      BY <3>1 DEF EmptyPeer
    <3>4. p.outgoing \in Seq(r.commands) /\ p.sent \in Seq(r.commands)
          /\ p.acknowledgements \in Seq(r.answers)
      BY <3>3, EmptySequence
    <3>5. Core(p) = Free
      BY <3>1 DEF EmptyPeer, Core, Free
    <3>6. Free \in r.cores[s]
      BY <2>1, RulesFields DEF Closed
    <3> QED BY <3>1, <3>2, <3>4, <3>5, <3>6 DEF Abiding
  <2> QED BY <2>1, <2>2 DEF Housed
<1>11. Suits(e)
  BY <1>1, <1>3, <1>7, <1>8, <1>9, <1>10 DEF Suits
<1> QED BY <1>2, <1>7, <1>11 DEF BothEnds

LEMMA NextBothEnds ==
    ASSUME OneAttempt PROVE Inv /\ BothEnds /\ [Next]_vars => BothEnds'
<1> SUFFICES ASSUME Inv, BothEnds, [Next]_vars PROVE BothEnds'
  OBVIOUS
<1> PICK e \in Accounts : Suits(e)
  BY DEF BothEnds
<1> EventsTyped
  BY DEF BothEnds
<1>1. ASSUME NEW h \in HOSTS, Connect(h) PROVE BothEnds'
  BY <1>1, ConnectKeeps
<1>2. ASSUME NEW h \in HOSTS, DispatchIncomingCommands(h) PROVE BothEnds'
  BY <1>2, DispatchKeeps
<1>3. ASSUME NEW h \in HOSTS, NEW s \in Slots(h), DisconnectLater(h, s) PROVE BothEnds'
  BY <1>3, DisconnectLaterKeeps
<1>4. ASSUME NEW h \in HOSTS, NEW s \in Slots(h), DisconnectNow(h, s) PROVE BothEnds'
  BY <1>4, DisconnectNowKeeps
<1>5. ASSUME NEW h \in HOSTS, NEW s \in Slots(h), NEW expired, NEW ping \in BOOLEAN,
             SendOutgoingCommands(h, s, expired, ping)
      PROVE  BothEnds'
  BY <1>5, SendKeeps
<1>6. ASSUME NEW d \in DOMAIN network, Lose(d) PROVE BothEnds'
  <2>1. PICK B : B = network (-) SetToBag({d}) /\ network' = B
    BY <1>6 DEF Lose
  <2>2. DOMAIN B \subseteq DOMAIN network
    BY <2>1, BagLemma
  <2>3. hosts' = hosts /\ connects' = connects /\ events' = events
    BY <1>6 DEF Lose
  <2>4. DOMAIN network' \subseteq Fits(e)
    BY <2>1, <2>2 DEF Suits
  <2> QED BY <2>3, <2>4, EventsSame, SameHosts
<1>7. ASSUME NEW d \in DOMAIN network, NEW h \in HOSTS, Receive(h, d) PROVE BothEnds'
  <2>1. PICK B : B = network (-) SetToBag({d}) /\ network' = B
    BY <1>7 DEF Receive
  <2>2. DOMAIN B \subseteq DOMAIN network
    BY <2>1, BagLemma
  <2> QED BY <1>7, <2>1, <2>2, ReceiveKeeps DEF Receive
<1>8. ASSUME NEW d \in DOMAIN network, NEW h \in HOSTS, ReceiveAndKeep(h, d) PROVE BothEnds'
  <2>1. network' = network /\ ReceiveIncomingCommands(h, d)
    BY <1>8 DEF ReceiveAndKeep
  <2> QED BY <2>1, ReceiveKeeps
<1>9. CASE UNCHANGED vars
  <2>1. hosts' = hosts /\ network' = network /\ events' = events /\ connects' = connects
    BY <1>9 DEF vars, bounds
  <2>2. DOMAIN network' \subseteq Fits(e)
    BY <2>1 DEF Suits
  <2> QED BY <2>1, <2>2, EventsSame, SameHosts
<1> QED BY <1>1, <1>2, <1>3, <1>4, <1>5, <1>6, <1>7, <1>8, <1>9 DEF Next

\* A counted peer of either side.
LEMMA CountedEnds ==
    ASSUME Inv, NEW e \in Accounts, Suits(e)
    PROVE  /\ \A s \in Slots(SERVER) : Counted(hosts[SERVER], s) =>
                 LET far == hosts[SERVER].peers[s]
                 IN  /\ far.address \in e.told /\ far.address \in Guests
                     /\ Owns(e, far.address, far.connect_id)
                     /\ far.outgoing_peer_id = e.home[far.address] /\ s = e.away[far.address]
           /\ \A g \in Guests : \A t \in Slots(g) : Counted(hosts[g], t) =>
                 LET near == hosts[g].peers[t]
                 IN  /\ g \in e.told /\ Owns(e, g, near.connect_id)
                     /\ near.outgoing_peer_id = e.away[g] /\ t = e.home[g]
<1>1. ASSUME NEW s \in Slots(SERVER), Counted(hosts[SERVER], s)
      PROVE  LET far == hosts[SERVER].peers[s]
             IN  /\ far.address \in e.told /\ far.address \in Guests
                 /\ Owns(e, far.address, far.connect_id)
                 /\ far.outgoing_peer_id = e.home[far.address] /\ s = e.away[far.address]
  <2>1. Housed(SERVER, Len(e.asked), ServerRules(e), hosts[SERVER])
    BY LifecycleAssumption DEF Suits, RulesAt
  <2>2. PICK p \in Abiding(Len(e.asked), ServerRules(e), s) : p = hosts[SERVER].peers[s]
    BY <2>1 DEF Housed
  <2>3. p.state \in CountedStates /\ p.state # "DISCONNECTED"
    BY <1>1, <2>2 DEF Counted, CountedStates
  <2> QED BY <2>2, <2>3, ServerPeer
<1>2. ASSUME NEW g \in Guests, NEW t \in Slots(g), Counted(hosts[g], t)
      PROVE  LET near == hosts[g].peers[t]
             IN  /\ g \in e.told /\ Owns(e, g, near.connect_id)
                 /\ near.outgoing_peer_id = e.away[g] /\ t = e.home[g]
  <2>1. Housed(g, Len(e.asked), GuestRules(e, g), hosts[g])
    BY DEF Suits, RulesAt, Guests
  <2>2. PICK p \in Abiding(Len(e.asked), GuestRules(e, g), t) : p = hosts[g].peers[t]
    BY <2>1 DEF Housed
  <2>3. p.state \in CountedStates /\ p.state # "DISCONNECTED"
    BY <1>2, <2>2 DEF Counted, CountedStates
  <2> QED BY <2>2, <2>3, GuestPeer
<1> QED BY <1>1, <1>2

\* The invariant of both ends: while each guest asks for one connection at most,
\* every datagram, command and peer belongs to the guest that asked, and the
\* server connects no other slot than the one the guest was told to hold.
THEOREM EndsKeepAccounts ==
    ASSUME OneAttempt PROVE Spec => []BothEnds
<1>1. Init => BothEnds
  BY InitBothEnds
<1>2. Inv /\ BothEnds /\ [Next]_vars => BothEnds'
  BY NextBothEnds
<1> QED BY <1>1, <1>2, LifecycleInvariant, PTL DEF Spec

\* While each guest calls Connect once, the server takes a connection for
\* established only after the guest's application was told CONNECT: the
\* acknowledgement of VERIFY_CONNECT that connects a slot of the server is of no
\* earlier command and no other slot, however often datagrams are lost,
\* repeated or reordered.
THEOREM ServerWaitsForGuest ==
    ASSUME OneAttempt PROVE Spec => []GuestConnectsFirst
<1>1. Inv /\ BothEnds => GuestConnectsFirst
  <2> SUFFICES ASSUME Inv, BothEnds, NEW s \in Slots(SERVER), Counted(hosts[SERVER], s)
               PROVE  \E h \in HOSTS \ {SERVER} :
                         \E i \in DOMAIN events[h] :
                            events[h][i] = [type |-> "CONNECT",
                                            connect_id |-> hosts[SERVER].peers[s].connect_id]
    BY DEF GuestConnectsFirst
  <2>1. PICK e \in Accounts : Suits(e)
    BY DEF BothEnds
  <2>2. PICK g, id : /\ g \in Guests /\ id = hosts[SERVER].peers[s].connect_id
                     /\ g \in e.told /\ Owns(e, g, id)
    BY <2>1, CountedEnds
  <2>3. PICK k \in DOMAIN e.asked : Owns(e, g, k) /\ Heard(g, k)
    BY <2>1, <2>2 DEF Suits, Witnessed
  <2>4. k = id
    BY <2>1, <2>2, <2>3 DEF Suits, Witnessed, Owns
  <2> QED BY <2>2, <2>3, <2>4 DEF Heard, Connected, Guests
<1> QED BY <1>1, LifecycleInvariant, EndsKeepAccounts, PTL

\* While each guest calls Connect once, two connected ends of one connection
\* hold each other's slot: however many slots of the server a repeated CONNECT
\* takes, the one that is connected is the one the guest sends to.
THEOREM ConnectedEndsAgree ==
    ASSUME OneAttempt PROVE Spec => []EndsAgree
<1>1. Inv /\ BothEnds => EndsAgree
  <2> SUFFICES ASSUME Inv, BothEnds, NEW g \in Guests, NEW t \in Slots(g),
                      NEW s \in Slots(SERVER), Counted(hosts[g], t), Counted(hosts[SERVER], s),
                      hosts[g].peers[t].connect_id = hosts[SERVER].peers[s].connect_id
               PROVE  /\ hosts[g].peers[t].outgoing_peer_id = s
                      /\ hosts[SERVER].peers[s].outgoing_peer_id = t
    BY DEF EndsAgree, Guests
  <2>1. PICK e \in Accounts : Suits(e)
    BY DEF BothEnds
  <2>2. PICK near, far : near = hosts[g].peers[t] /\ far = hosts[SERVER].peers[s]
    OBVIOUS
  <2>3. /\ Owns(e, far.address, far.connect_id)
        /\ far.outgoing_peer_id = e.home[far.address] /\ s = e.away[far.address]
    BY <2>1, <2>2, CountedEnds
  <2>4. Owns(e, g, near.connect_id) /\ near.outgoing_peer_id = e.away[g] /\ t = e.home[g]
    BY <2>1, <2>2, CountedEnds
  <2>5. far.address = g
    BY <2>2, <2>3, <2>4 DEF Owns
  <2> QED BY <2>2, <2>3, <2>4, <2>5
<1> QED BY <1>1, LifecycleInvariant, EndsKeepAccounts, PTL
-----------------------------------------------------------------------------
(* A connection is closed on request.                                      *)

\* For each guest its connections, and those of them an application asked to
\* disconnect.
Bonds ==
    [g \in HOSTS |->
        LET ids == {i \in DOMAIN connects : connects[i] = g}
        IN  [guest |-> g, ids |-> ids, asked |-> ids \cap asked]]

\* The states that lead to an end; the ones in which the server has nothing to
\* send; and the ones it never enters.
Ending == {"ZOMBIE", "ACKNOWLEDGING_DISCONNECT", "DISCONNECTING", "DISCONNECT_LATER"}
Silent == {"DISCONNECTED", "ZOMBIE", "ACKNOWLEDGING_DISCONNECT"}
Barred == {"CONNECTING", "DISCONNECTING", "DISCONNECT_LATER"}

\* What a peer in the state st may have to send, of the connections of b.
Orders(h, n, b, st) ==
    {c \in Control(n) :
        /\ c.type = "DISCONNECT" => h # SERVER /\ b.asked # {}
        /\ c.type = "VERIFY_CONNECT" => c.connect_id \in b.ids
        /\ h = SERVER => st \notin Silent}

\* What it may have to acknowledge.
Replies(h, b, st) ==
    {a \in Answers :
        a.type = "DISCONNECT" =>
           /\ b.asked # {}
           /\ h = SERVER => st \in {"ZOMBIE", "ACKNOWLEDGING_DISCONNECT"}}

\* A peer that belongs to one guest and neither ends nor speaks of an end before
\* an application asks.
Meek(h, n, b) ==
    {p \in Peer(n) :
        /\ p.connect_id \in b.ids \cup {0}
        /\ p.state \in Ending => b.asked # {}
        /\ h = SERVER => p.state \notin Barred
        /\ h = SERVER /\ p.state # "DISCONNECTED" => p.address = b.guest
        /\ p.outgoing \in Seq(Orders(h, n, b, p.state))
        /\ p.sent \in Seq(Orders(h, n, b, p.state))
        /\ p.acknowledgements \in Seq(Replies(h, b, p.state))}

LEMMA MeekFields ==
    ASSUME NEW h, NEW n, NEW b, NEW p \in Meek(h, n, b)
    PROVE  /\ p \in Peer(n) /\ p.connect_id \in b.ids \cup {0}
           /\ p.state \in Ending => b.asked # {}
           /\ h = SERVER => p.state \notin Barred
           /\ h = SERVER /\ p.state # "DISCONNECTED" => p.address = b.guest
           /\ p.outgoing \in Seq(Orders(h, n, b, p.state))
           /\ p.sent \in Seq(Orders(h, n, b, p.state))
           /\ p.acknowledgements \in Seq(Replies(h, b, p.state))
  BY DEF Meek

LEMMA WordsFit ==
    ASSUME NEW h, NEW n, NEW b, NEW st
    PROVE  Orders(h, n, b, st) \subseteq Control(n) /\ Replies(h, b, st) \subseteq Answers
  BY DEF Orders, Replies

\* A peer keeps its state and replaces its lists.
LEMMA MeekLists ==
    ASSUME NEW h, NEW n, NEW b, NEW p \in Meek(h, n, b), NEW q \in Peer(n),
           q.state = p.state, q.connect_id = p.connect_id, q.address = p.address,
           q.outgoing \in Seq(Orders(h, n, b, p.state)),
           q.sent \in Seq(Orders(h, n, b, p.state)),
           q.acknowledgements \in Seq(Replies(h, b, p.state))
    PROVE  q \in Meek(h, n, b)
  BY DEF Meek

LEMMA MeekCore ==
    ASSUME NEW h, NEW n, NEW b, NEW p \in Meek(h, n, b), NEW q \in Peer(n), Core(q) = Core(p),
           q.outgoing \in Seq(Orders(h, n, b, p.state)),
           q.sent \in Seq(Orders(h, n, b, p.state)),
           q.acknowledgements \in Seq(Replies(h, b, p.state))
    PROVE  q \in Meek(h, n, b)
  BY SameCore, MeekLists

LEMMA MeekRemoves ==
    ASSUME NEW h, NEW n \in Nat, NEW b, NEW p \in Meek(h, n, b), NEW rsn
    PROVE  LET q == RemoveSentReliableCommand(p, rsn)
           IN  q \in Meek(h, n, b) /\ Core(q) = Core(p)
<1>1. PICK S : S = Orders(h, n, b, p.state)
  OBVIOUS
<1>2. p.sent \in Seq(S) /\ p.outgoing \in Seq(S) /\ p \in Peer(n)
      /\ p.acknowledgements \in Seq(Replies(h, b, p.state))
  BY <1>1, MeekFields
<1>3. PICK l \in Seq(S) : RemoveSentReliableCommand(p, rsn) \in {p, [p EXCEPT !.sent = l]}
  BY <1>2, RemovalLemma
<1>4. PICK q : q = [p EXCEPT !.sent = l]
  OBVIOUS
<1>5. PICK o \in Seq(Control(n)) : o = l
  BY <1>1, WordsFit
<1>6. /\ q \in Peer(n) /\ q.sent = l /\ q.outgoing = p.outgoing
      /\ q.acknowledgements = p.acknowledgements /\ Core(q) = Core(p)
  BY <1>2, <1>4, <1>5 DEF Peer, Core
<1>7. q \in Meek(h, n, b)
  BY <1>1, <1>2, <1>6, MeekCore
<1> QED BY <1>3, <1>4, <1>6, <1>7

LEMMA MeekTimesOut ==
    ASSUME NEW h, NEW n \in Nat, NEW b, NEW p \in Meek(h, n, b), NEW expired
    PROVE  LET q == Timeout(p, expired) IN q \in Meek(h, n, b) /\ Core(q) = Core(p)
<1>1. PICK S : S = Orders(h, n, b, p.state)
  OBVIOUS
<1>2. p.sent \in Seq(S) /\ p.outgoing \in Seq(S) /\ p \in Peer(n)
      /\ p.acknowledgements \in Seq(Replies(h, b, p.state))
  BY <1>1, MeekFields
<1>3. PICK l \in Seq(S) : l = Expirations(p, expired)[Len(p.sent)]
  BY <1>2, ExpirationsLemma
<1>4. PICK q : q = [p EXCEPT !.outgoing = l]
  OBVIOUS
<1>5. PICK o \in Seq(Control(n)) : o = l
  BY <1>1, WordsFit
<1>6. /\ q \in Peer(n) /\ q.outgoing = l /\ q.sent = p.sent
      /\ q.acknowledgements = p.acknowledgements /\ Core(q) = Core(p)
  BY <1>2, <1>4, <1>5 DEF Peer, Core
<1>7. q \in Meek(h, n, b)
  BY <1>1, <1>2, <1>6, MeekCore
<1> QED BY <1>3, <1>4, <1>6, <1>7 DEF Timeout

LEMMA MeekLoads ==
    ASSUME NEW h, NEW n \in Nat, NEW b, NEW p \in Meek(h, n, b)
    PROVE  LoadReliableCommands(p) \in Meek(h, n, b)
<1>1. PICK S : S = Orders(h, n, b, p.state)
  OBVIOUS
<1>2. p.sent \in Seq(S) /\ p.outgoing \in Seq(S) /\ p \in Peer(n)
      /\ p.acknowledgements \in Seq(Replies(h, b, p.state))
  BY <1>1, MeekFields
<1>3. PICK l \in Seq(S) : l = p.sent \o p.outgoing
  <2>1. PICK a \in Seq(S), o \in Seq(S) : a = p.sent /\ o = p.outgoing
    BY <1>2
  <2>2. a \o o \in Seq(S)
    OBVIOUS
  <2> QED BY <2>1, <2>2
<1>4. PICK none : none = <<>> /\ none \in Seq(S) /\ none \in Seq(Control(n))
  BY EmptySequence
<1>5. PICK q : q = [p EXCEPT !.sent = l, !.outgoing = none]
  OBVIOUS
<1>6. PICK o \in Seq(Control(n)) : o = l
  BY <1>1, WordsFit
<1>7. /\ q \in Peer(n) /\ q.outgoing = none /\ q.sent = l
      /\ q.acknowledgements = p.acknowledgements /\ Core(q) = Core(p)
  BY <1>2, <1>4, <1>5, <1>6 DEF Peer, Core
<1>8. q \in Meek(h, n, b)
  BY <1>1, <1>2, <1>4, <1>7, MeekCore
<1> QED BY <1>3, <1>4, <1>5, <1>8 DEF LoadReliableCommands

\* A peer with nothing to send and nothing to acknowledge.
Mute(p) == p.outgoing = <<>> /\ p.sent = <<>> /\ p.acknowledgements = <<>>

LEMMA MeekResetsQueues ==
    ASSUME NEW h, NEW n \in Nat, NEW b, NEW p \in Meek(h, n, b)
    PROVE  LET q == ResetPeerQueues(p)
           IN  q \in Meek(h, n, b) /\ Core(q) = Core(p) /\ q.state = p.state /\ Mute(q)
<1>1. PICK q : q = ResetPeerQueues(p)
  OBVIOUS
<1>2. p \in Peer(n) /\ q \in Peer(n) /\ q.state = p.state
  BY <1>1, MeekFields, ResetQueuesLemma
<1>3. Mute(q) /\ Core(q) = Core(p)
  BY <1>1, <1>2 DEF ResetPeerQueues, Core, Peer, Mute
<1>4. q \in Meek(h, n, b)
  BY <1>2, <1>3, EmptySequence, MeekCore DEF Mute
<1> QED BY <1>1, <1>2, <1>3, <1>4

\* A peer is reset, and has nothing to send if it is the server's.
LEMMA MeekResets ==
    ASSUME NEW h, NEW n \in Nat, NEW b, NEW p \in Meek(h, n, b),
           h = SERVER => p.state \in Silent \/ Mute(p)
    PROVE  LET q == Reset(p)
           IN  q \in Meek(h, n, b) /\ q.state = "DISCONNECTED"
<1>1. PICK q : q = Reset(p)
  OBVIOUS
<1>2. p \in Peer(n) /\ q \in Peer(n) /\ q.state = "DISCONNECTED"
  BY <1>1, MeekFields, ResetLemma
<1>3. /\ q.outgoing = p.outgoing /\ q.sent = p.sent /\ q.acknowledgements = <<>>
      /\ q.connect_id = 0
  BY <1>1 DEF Reset, EmptyPeer
<1>4. q.acknowledgements \in Seq(Replies(h, b, q.state))
  BY <1>3, EmptySequence
<1>5. q.outgoing \in Seq(Orders(h, n, b, q.state)) /\ q.sent \in Seq(Orders(h, n, b, q.state))
  <2>1. CASE h = SERVER /\ Mute(p)
    BY <1>3, <2>1, EmptySequence DEF Mute
  <2>2. CASE h # SERVER \/ p.state \in Silent
    <3>1. Orders(h, n, b, p.state) = Orders(h, n, b, q.state)
      BY <1>2, <2>2 DEF Orders, Silent
    <3> QED BY <1>3, <3>1, MeekFields
  <2> QED BY <2>1, <2>2
<1>6. q \in Meek(h, n, b)
  BY <1>2, <1>3, <1>4, <1>5 DEF Meek, Ending, Barred
<1> QED BY <1>1, <1>2, <1>6

\* A peer changes nothing but its state.
LEMMA MeekTurns ==
    ASSUME NEW h, NEW n \in Nat, NEW b, NEW p \in Meek(h, n, b), NEW q \in Peer(n),
           OnlyState(p, q), p.state # "DISCONNECTED",
           q.state \in Ending => b.asked # {},
           h = SERVER => /\ q.state \notin Barred
                         /\ \/ Mute(p)
                            \/ p.state = "ACKNOWLEDGING_CONNECT" /\ q.state = "CONNECTED"
                            \/ /\ p.state \in {"ACKNOWLEDGING_DISCONNECT", "ZOMBIE"}
                               /\ q.state = "ZOMBIE"
    PROVE  q \in Meek(h, n, b)
<1>1. /\ q.address = p.address /\ q.connect_id = p.connect_id /\ q.outgoing = p.outgoing
      /\ q.sent = p.sent /\ q.acknowledgements = p.acknowledgements
  BY DEF OnlyState
<1>2. /\ q.outgoing \in Seq(Orders(h, n, b, q.state))
      /\ q.sent \in Seq(Orders(h, n, b, q.state))
      /\ q.acknowledgements \in Seq(Replies(h, b, q.state))
  <2>1. CASE Mute(p)
    BY <1>1, <2>1, EmptySequence DEF Mute
  <2>2. CASE ~Mute(p)
    <3>1. Orders(h, n, b, p.state) = Orders(h, n, b, q.state)
      BY <2>2 DEF Orders, Silent
    <3>2. Replies(h, b, p.state) = Replies(h, b, q.state)
      BY <2>2 DEF Replies
    <3> QED BY <1>1, <3>1, <3>2, MeekFields
  <2> QED BY <2>1, <2>2
<1> QED BY <1>1, <1>2, MeekFields DEF Meek

\* A peer has a PING, or the DISCONNECT of a guest, to send.
LEMMA MeekQueues ==
    ASSUME NEW h, NEW n \in Nat, NEW b, NEW p \in Meek(h, n, b),
           NEW type, type = "PING" \/ type = "DISCONNECT",
           h = SERVER => type = "PING" /\ p.state \notin Silent,
           type = "DISCONNECT" => b.asked # {}
    PROVE  LET q == QueueOutgoingCommand(p, type, 0, Nobody)
           IN  q \in Meek(h, n, b) /\ q.state = p.state
<1>1. p \in Peer(n) /\ type \in Types /\ 0 \in 0..n /\ Nobody \in Nat /\ type # "CONNECT"
      /\ TRUE \in BOOLEAN
  BY MeekFields DEF Types, Nobody
<1>2. PICK c \in Control(n) : c = Command(p, type, 0, Nobody, TRUE)
  BY <1>1, CommandLemma
<1>3. c.type = type
  BY <1>2 DEF Command
<1>4. PICK S : S = Orders(h, n, b, p.state)
  OBVIOUS
<1>5. c \in S
  BY <1>3, <1>4 DEF Orders
<1>6. PICK l \in Seq(S) : l = Append(p.outgoing, c)
  BY <1>4, <1>5, MeekFields, AppendIn
<1>7. PICK q : q = QueueOutgoingCommand(p, type, 0, Nobody)
  OBVIOUS
<1>8. q \in Peer(n) /\ q.state = p.state
  BY <1>1, <1>7, QueueLemma
<1>9. PICK m : m = p.number + 1
  OBVIOUS
<1>10. q = [p EXCEPT !.number = m, !.outgoing = l]
  BY <1>2, <1>6, <1>7, <1>9 DEF QueueOutgoingCommand
<1>11. /\ q.outgoing = l /\ q.address = p.address /\ q.connect_id = p.connect_id
       /\ q.sent = p.sent /\ q.acknowledgements = p.acknowledgements
  BY <1>1, <1>10 DEF Peer
<1>12. q \in Meek(h, n, b)
  BY <1>4, <1>8, <1>11, MeekFields, MeekLists
<1> QED BY <1>7, <1>8, <1>12

\* A guest asks the other end to close.
LEMMA MeekLeaves ==
    ASSUME NEW h, NEW n \in Nat, NEW b, NEW p \in Meek(h, n, b), h # SERVER, b.asked # {}
    PROVE  Leaving(p) \in Meek(h, n, b) /\ Leaving(p).state = p.state
<1>1. PICK q \in Meek(h, n, b) : q = ResetPeerQueues(p) /\ q.state = p.state
  BY MeekResetsQueues
<1>2. PICK type : type = "DISCONNECT"
  OBVIOUS
<1>3. PICK l : l = QueueOutgoingCommand(q, type, 0, Nobody)
  OBVIOUS
<1>4. l \in Meek(h, n, b) /\ l.state = q.state
  <2>1. h = SERVER => type = "PING" /\ q.state \notin Silent
    OBVIOUS
  <2>2. type = "DISCONNECT" => b.asked # {}
    OBVIOUS
  <2> QED BY <1>1, <1>2, <1>3, <2>1, <2>2, MeekQueues
<1> QED BY <1>1, <1>2, <1>3, <1>4 DEF Leaving

\* What a peer says is still said when more was asked for.
LEMMA MeekMore ==
    ASSUME NEW h, NEW n \in Nat, NEW m \in Nat, n <= m, NEW b, NEW d,
           b.guest = d.guest, b.ids \subseteq d.ids, b.asked \subseteq d.asked
    PROVE  Meek(h, n, b) \subseteq Meek(h, m, d)
<1> SUFFICES ASSUME NEW p \in Meek(h, n, b) PROVE p \in Meek(h, m, d)
  OBVIOUS
<1>1. p \in Peer(m)
  BY MeekFields, Widen
<1>2. Orders(h, n, b, p.state) \subseteq Orders(h, m, d, p.state)
  <2>1. Control(n) \subseteq Control(m)
    BY Widen
  <2> QED BY <2>1 DEF Orders
<1>3. Replies(h, b, p.state) \subseteq Replies(h, d, p.state)
  BY DEF Replies
<1>4. /\ p.outgoing \in Seq(Orders(h, m, d, p.state))
      /\ p.sent \in Seq(Orders(h, m, d, p.state))
      /\ p.acknowledgements \in Seq(Replies(h, d, p.state))
  BY <1>2, <1>3, MeekFields
<1> QED BY <1>1, <1>4, MeekFields DEF Meek

-----------------------------------------------------------------------------
(* What the walk over the commands of a datagram ends.                     *)

\* The walk leaves the peers of o alone or to the guest of b, and tells of an
\* end only if one was asked for.
Serene(h, n, b, o, walk) ==
    /\ \A t \in Slots(h) : walk.host.peers[t] \in {o.peers[t]} \cup Meek(h, n, b)
    /\ HasPeer(h, walk) => PeerOf(walk) \in Meek(h, n, b)
    /\ walk.event.type = "DISCONNECT" => b.asked # {} /\ walk.event.connect_id \in b.ids

\* The peer of the walk is replaced.
LEMMA SerenePuts ==
    ASSUME NEW h \in HOSTS, NEW n \in Nat, NEW x \in Nat, NEW b, NEW o,
           NEW walk \in Walk(h, n, x), HasPeer(h, walk), Serene(h, n, b, o, walk),
           NEW p \in Meek(h, n, b), NEW q, q.slot = walk.slot,
           Puts(walk.host, q.host, walk.slot, p),
           q.event.type = "DISCONNECT" => b.asked # {} /\ q.event.connect_id \in b.ids
    PROVE  Serene(h, n, b, o, q) /\ HasPeer(h, q) /\ PeerOf(q) = p
<1>1. walk.slot \in Slots(h) /\ walk.host.peers \in [Slots(h) -> Peer(n)]
  BY WalkFields, HostFields DEF HasPeer
<1>2. q.host.peers = [walk.host.peers EXCEPT ![walk.slot] = p]
  BY DEF Puts
<1>3. PeerOf(q) = p /\ HasPeer(h, q)
  BY <1>1, <1>2 DEF PeerOf, HasPeer
<1>4. ASSUME NEW t \in Slots(h) PROVE q.host.peers[t] \in {o.peers[t]} \cup Meek(h, n, b)
  <2>1. CASE t = walk.slot
    BY <1>1, <1>2, <2>1
  <2>2. CASE t # walk.slot
    BY <1>1, <1>2, <2>2 DEF Serene
  <2> QED BY <2>1, <2>2
<1> QED BY <1>3, <1>4 DEF Serene

\* The peers stay as they are.
LEMMA SereneStays ==
    ASSUME NEW h, NEW n, NEW b, NEW o, NEW walk, Serene(h, n, b, o, walk),
           NEW q, q.slot = walk.slot, q.host = walk.host,
           q.event = walk.event \/ q.event.type # "DISCONNECT"
    PROVE  Serene(h, n, b, o, q)
  BY DEF Serene, HasPeer, PeerOf

\* The peer of a walk.
LEMMA SerenePeer ==
    ASSUME NEW h \in HOSTS, NEW n \in Nat, NEW x \in Nat, NEW b, NEW o,
           NEW walk \in Walk(h, n, x), HasPeer(h, walk), Serene(h, n, b, o, walk)
    PROVE  \E host \in Tallied(h, n, x), s \in Slots(h), p \in Meek(h, n, b) :
              /\ host = walk.host /\ s = walk.slot /\ p = host.peers[s]
              /\ p = PeerOf(walk) /\ p \in Peer(n)
<1>1. walk.host \in Tallied(h, n, x) /\ PeerOf(walk) = walk.host.peers[walk.slot]
  BY WalkFields
<1>2. walk.slot \in Slots(h) /\ PeerOf(walk) \in Meek(h, n, b)
  BY DEF HasPeer, Serene
<1> QED BY <1>1, <1>2, MeekFields

LEMMA AcknowledgesSerenely ==
    ASSUME NEW h \in HOSTS, NEW n \in Nat, NEW x \in Nat, NEW b, NEW o,
           NEW walk \in Walk(h, n, x), HasPeer(h, walk), Serene(h, n, b, o, walk),
           NEW c \in Control(n),
           c.type = "DISCONNECT" =>
              b.asked # {} /\ (h = SERVER => PeerOf(walk).state \in Silent)
    PROVE  Serene(h, n, b, o, QueueAcknowledgement(walk, c))
<1> DEFINE e == [rsn |-> c.rsn, type |-> c.type]
           v == [walk EXCEPT !.host.peers[walk.slot].acknowledgements = Append(@, e)]
<1>1. CASE QueueAcknowledgement(walk, c) = walk
  BY <1>1
<1>2. CASE QueueAcknowledgement(walk, c) # walk
  <2>1. QueueAcknowledgement(walk, c) = v
    BY <1>2 DEF QueueAcknowledgement
  <2>2. PICK host \in Tallied(h, n, x), s \in Slots(h), p \in Meek(h, n, b) :
           /\ host = walk.host /\ s = walk.slot /\ p = host.peers[s]
           /\ p = PeerOf(walk) /\ p \in Peer(n)
    BY SerenePeer
  <2>3. e \in Replies(h, b, p.state)
    <3>1. e \in Answers
      BY ControlFields DEF Answers
    <3>2. p.state \notin {"DISCONNECTED", "ZOMBIE"}
      BY <1>2, <2>2 DEF QueueAcknowledgement
    <3> QED BY <2>2, <3>1, <3>2 DEF Replies, Silent
  <2> HIDE DEF e
  <2>4. PICK a \in Seq(Replies(h, b, p.state)) : a = Append(p.acknowledgements, e)
    BY <2>3, MeekFields, AppendIn
  <2>5. PICK y \in Seq(Answers) : y = a
    <3>1. Replies(h, b, p.state) \subseteq Answers
      BY DEF Replies
    <3> QED BY <2>4, <3>1
  <2>6. PICK m : m = WithAnswers(p, a)
    OBVIOUS
  <2>7. /\ m \in Peer(n) /\ m.acknowledgements = a /\ m.outgoing = p.outgoing
        /\ m.sent = p.sent /\ Core(m) = Core(p)
    BY <2>2, <2>5, <2>6 DEF WithAnswers, Peer, Core
  <2>8. m \in Meek(h, n, b)
    BY <2>4, <2>7, MeekFields, MeekCore
  <2>9. PICK z : z = UpdatePeer(host, s, m)
    OBVIOUS
  <2>10. Puts(host, z, s, m)
    BY <2>2, <2>9 DEF Puts, UpdatePeer, Tallied, Host
  <2>11. v = [walk EXCEPT !.host = z]
    BY <2>2, <2>4, <2>6, <2>9 DEF UpdatePeer, WithAnswers
  <2> HIDE DEF v
  <2>12. v.host = z /\ v.slot = walk.slot /\ v.event = walk.event
    BY <2>11 DEF Walk
  <2>13. v.event.type = "DISCONNECT" => b.asked # {} /\ v.event.connect_id \in b.ids
    BY <2>12 DEF Serene
  <2> QED BY <2>1, <2>2, <2>8, <2>10, <2>12, <2>13, SerenePuts
<1> QED BY <1>1, <1>2

LEMMA ConnectsSerenely ==
    ASSUME NEW h \in HOSTS, NEW n \in Nat, NEW x \in Nat, NEW b, NEW o,
           NEW walk \in Walk(h, n, x), HasPeer(h, walk), Serene(h, n, b, o, walk),
           PeerOf(walk).state # "DISCONNECTED",
           h = SERVER => PeerOf(walk).state = "ACKNOWLEDGING_CONNECT"
    PROVE  Serene(h, n, b, o, NotifyConnect(walk))
<1>1. PICK host \in Tallied(h, n, x), s \in Slots(h), p \in Meek(h, n, b) :
         /\ host = walk.host /\ s = walk.slot /\ p = host.peers[s]
         /\ p = PeerOf(walk) /\ p \in Peer(n)
  BY SerenePeer
<1>2. PICK st \in States : st = "CONNECTED" /\ st # "DISCONNECTED"
  BY DEF States
<1>3. PICK m : m = ChangeState(host, s, st)
  OBVIOUS
<1>4. PICK q \in Peer(n) : q.state = st /\ OnlyState(p, q) /\ Puts(host, m, s, q)
  <2>1. host.peers[s].state # "DISCONNECTED" /\ st \in States /\ st # "DISCONNECTED"
    BY <1>1, <1>2
  <2>2. \E q \in Peer(n) : /\ q.state = st /\ OnlyState(host.peers[s], q)
                          /\ Puts(host, m, s, q)
    BY <1>1, <1>3, <2>1, ChangeStateLemma
  <2> QED BY <1>1, <2>2
<1>5. q \in Meek(h, n, b)
  <2>1. q.state \notin Ending /\ q.state \notin Barred /\ q.state = "CONNECTED"
    BY <1>2, <1>4 DEF Ending, Barred
  <2> QED BY <1>1, <1>4, <2>1, MeekTurns
<1>6. PICK v : v = [walk EXCEPT !.host = m]
  OBVIOUS
<1>7. v.host = m /\ v.slot = walk.slot
  BY <1>6 DEF Walk
<1>8. PICK id : id = PeerOf(v).connect_id
  OBVIOUS
<1>9. PICK w : w = [v EXCEPT !.event = [type |-> "CONNECT", connect_id |-> id]]
  OBVIOUS
<1>10. w.host = m /\ w.slot = walk.slot /\ w.event.type # "DISCONNECT"
  BY <1>6, <1>9 DEF Walk
<1>11. NotifyConnect(walk) = w
  BY <1>1, <1>2, <1>3, <1>6, <1>8, <1>9 DEF NotifyConnect, Tells
<1> QED BY <1>1, <1>4, <1>5, <1>10, <1>11, SerenePuts

LEMMA RemovesSerenely ==
    ASSUME NEW h \in HOSTS, NEW n \in Nat, NEW x \in Nat, NEW b, NEW o,
           NEW walk \in Walk(h, n, x), HasPeer(h, walk), Serene(h, n, b, o, walk), NEW rsn
    PROVE  LET q == [Tells(walk, "RECEIVE_ACK") EXCEPT
                        !.host = UpdatePeer(@, walk.slot,
                                            RemoveSentReliableCommand(PeerOf(walk), rsn))]
           IN  /\ q \in Walk(h, n, x) /\ q.slot = walk.slot /\ HasPeer(h, q)
               /\ Serene(h, n, b, o, q) /\ Core(PeerOf(q)) = Core(PeerOf(walk))
               /\ q.event.type # "DISCONNECT"
<1>1. PICK host \in Tallied(h, n, x), s \in Slots(h), p \in Meek(h, n, b) :
         /\ host = walk.host /\ s = walk.slot /\ p = host.peers[s]
         /\ p = PeerOf(walk) /\ p \in Peer(n)
  BY SerenePeer
<1>2. PICK l \in Meek(h, n, b) : l = RemoveSentReliableCommand(p, rsn) /\ Core(l) = Core(p)
  BY MeekRemoves
<1>3. PICK m : m = UpdatePeer(host, s, l)
  OBVIOUS
<1>4. Puts(host, m, s, l)
  BY <1>1, <1>3 DEF Puts, UpdatePeer, Tallied, Host
<1>5. PICK id : id = p.connect_id
  OBVIOUS
<1>6. PICK v : v = [walk EXCEPT !.event = [type |-> "RECEIVE_ACK", connect_id |-> id]]
  OBVIOUS
<1>7. PICK q : q = [v EXCEPT !.host = m]
  OBVIOUS
<1>8. q.host = m /\ q.slot = walk.slot /\ q.event.type = "RECEIVE_ACK" /\ v.host = host
  BY <1>1, <1>6, <1>7 DEF Walk
<1>9. q = [Tells(walk, "RECEIVE_ACK") EXCEPT
             !.host = UpdatePeer(@, walk.slot, RemoveSentReliableCommand(PeerOf(walk), rsn))]
  BY <1>1, <1>2, <1>3, <1>5, <1>6, <1>7, <1>8 DEF Tells
<1>10. q \in Walk(h, n, x)
  BY <1>9, RemovedFromWalk
<1>11. Serene(h, n, b, o, q) /\ HasPeer(h, q) /\ PeerOf(q) = l
  BY <1>1, <1>2, <1>4, <1>8, SerenePuts
<1> QED BY <1>1, <1>2, <1>8, <1>9, <1>10, <1>11

\* Only a guest hears that the other end has closed.
LEMMA DisconnectsSerenely ==
    ASSUME NEW h \in HOSTS, NEW n \in Nat, NEW x \in Nat, NEW b, NEW o,
           NEW walk \in Walk(h, n, x), HasPeer(h, walk), Serene(h, n, b, o, walk),
           PeerOf(walk).state = "DISCONNECTING"
    PROVE  Serene(h, n, b, o, NotifyDisconnect(walk))
<1>1. PICK host \in Tallied(h, n, x), s \in Slots(h), p \in Meek(h, n, b) :
         /\ host = walk.host /\ s = walk.slot /\ p = host.peers[s]
         /\ p = PeerOf(walk) /\ p \in Peer(n)
  BY SerenePeer
<1>2. b.asked # {} /\ h # SERVER /\ p.connect_id \in b.ids
  BY <1>1, MeekFields, PeerFields DEF Ending, Barred
<1>3. PICK l \in Meek(h, n, b) : l = Reset(p)
  BY <1>2, MeekResets
<1>4. PICK m : m = UpdatePeer(host, s, l)
  OBVIOUS
<1>5. Puts(host, m, s, l)
  BY <1>1, <1>4 DEF Puts, UpdatePeer, Tallied, Host
<1>6. PICK id : id = p.connect_id
  OBVIOUS
<1>7. PICK v : v = [walk EXCEPT !.event = [type |-> "DISCONNECT", connect_id |-> id]]
  OBVIOUS
<1>8. PICK q : q = [v EXCEPT !.host = m]
  OBVIOUS
<1>9. q.host = m /\ q.slot = walk.slot /\ q.event.connect_id = id /\ v.host = host
  BY <1>1, <1>7, <1>8 DEF Walk
<1>10. NotifyDisconnect(walk) = q
  BY <1>1, <1>3, <1>4, <1>6, <1>7, <1>8, <1>9 DEF NotifyDisconnect, Tells
<1> QED BY <1>1, <1>2, <1>5, <1>6, <1>9, <1>10, SerenePuts

\* A guest that waited for its acknowledgements leaves.
LEMMA LeavesSerenely ==
    ASSUME NEW h \in HOSTS, NEW n \in Nat, NEW x \in Nat, NEW b, NEW o,
           NEW walk \in Walk(h, n, x), HasPeer(h, walk), Serene(h, n, b, o, walk),
           walk.event.type # "DISCONNECT", PeerOf(walk).state = "DISCONNECT_LATER"
    PROVE  Serene(h, n, b, o, [walk EXCEPT !.host = DisconnectConnected(@, walk.slot)])
<1>1. PICK host \in Tallied(h, n, x), s \in Slots(h), p \in Meek(h, n, b) :
         /\ host = walk.host /\ s = walk.slot /\ p = host.peers[s]
         /\ p = PeerOf(walk) /\ p \in Peer(n)
  BY SerenePeer
<1>2. b.asked # {} /\ h # SERVER
  BY <1>1, MeekFields DEF Ending, Barred
<1>3. PICK m : m = DisconnectConnected(host, s)
  OBVIOUS
<1>4. host.peers[s].state # "DISCONNECTED"
  BY <1>1
<1>5. PICK q \in Peer(n) : /\ q.state = "DISCONNECTING" /\ OnlyState(Leaving(host.peers[s]), q)
                          /\ Puts(host, m, s, q)
  BY <1>1, <1>3, <1>4, DisconnectConnectedLemma
<1>6. PICK l \in Meek(h, n, b) : l = Leaving(p) /\ l.state = p.state
  BY <1>2, MeekLeaves
<1>7. q \in Meek(h, n, b)
  <2>1. OnlyState(l, q) /\ l.state # "DISCONNECTED"
    BY <1>1, <1>5, <1>6
  <2> QED BY <1>2, <2>1, MeekTurns
<1>8. PICK v : v = [walk EXCEPT !.host = m]
  OBVIOUS
<1>9. v.host = m /\ v.slot = walk.slot /\ v.event = walk.event
  BY <1>8 DEF Walk
<1>10. Serene(h, n, b, o, v)
  BY <1>1, <1>5, <1>7, <1>9, SerenePuts
<1>11. v = [walk EXCEPT !.host = DisconnectConnected(@, walk.slot)]
  BY <1>1, <1>3, <1>8
<1> QED BY <1>10, <1>11

LEMMA AcknowledgementSerenely ==
    ASSUME NEW h \in HOSTS, NEW n \in Nat, NEW x \in Nat, NEW b, NEW o,
           NEW walk \in Walk(h, n, x), HasPeer(h, walk), Serene(h, n, b, o, walk), NEW c
    PROVE  Serene(h, n, b, o, HandleAcknowledge(walk, c))
<1>1. PICK removed : removed =
         [Tells(walk, "RECEIVE_ACK") EXCEPT
             !.host = UpdatePeer(@, walk.slot,
                                 RemoveSentReliableCommand(PeerOf(walk), c.rsn))]
  OBVIOUS
<1>2. /\ removed \in Walk(h, n, x) /\ removed.slot = walk.slot /\ HasPeer(h, removed)
      /\ Serene(h, n, b, o, removed) /\ Core(PeerOf(removed)) = Core(PeerOf(walk))
      /\ removed.event.type # "DISCONNECT"
  BY <1>1, RemovesSerenely
<1>3. PeerOf(removed).state = PeerOf(walk).state
  BY <1>2, SameCore
<1>4. PICK told : told = Tells(walk, "RECEIVE_ACK")
  OBVIOUS
<1>5. Serene(h, n, b, o, told)
  <2>1. told.host = walk.host /\ told.slot = walk.slot /\ told.event.type = "RECEIVE_ACK"
    BY <1>4 DEF Tells, Walk
  <2> QED BY <2>1, SereneStays
<1>6. PICK over : over = [removed EXCEPT !.over = TRUE]
  OBVIOUS
<1>7. Serene(h, n, b, o, over)
  <2>1. over.host = removed.host /\ over.slot = removed.slot /\ over.event = removed.event
    BY <1>2, <1>6, OverKeeps
  <2> QED BY <1>2, <2>1, SereneStays
<1>8. ASSUME PeerOf(walk).state = "ACKNOWLEDGING_CONNECT"
      PROVE  Serene(h, n, b, o, NotifyConnect(removed))
  BY <1>2, <1>3, <1>8, ConnectsSerenely
<1>9. ASSUME PeerOf(walk).state = "DISCONNECTING"
      PROVE  Serene(h, n, b, o, NotifyDisconnect(removed))
  BY <1>2, <1>3, <1>9, DisconnectsSerenely
<1>10. PICK left : left = [removed EXCEPT !.host = DisconnectConnected(@, removed.slot)]
  OBVIOUS
<1>11. ASSUME PeerOf(walk).state = "DISCONNECT_LATER" PROVE Serene(h, n, b, o, left)
  BY <1>2, <1>3, <1>10, <1>11, LeavesSerenely
<1>12. \/ HandleAcknowledge(walk, c) \in {told, over, removed}
       \/ /\ PeerOf(walk).state = "ACKNOWLEDGING_CONNECT"
          /\ HandleAcknowledge(walk, c) = NotifyConnect(removed)
       \/ /\ PeerOf(walk).state = "DISCONNECTING"
          /\ HandleAcknowledge(walk, c) = NotifyDisconnect(removed)
       \/ /\ PeerOf(walk).state = "DISCONNECT_LATER"
          /\ HandleAcknowledge(walk, c) = [removed EXCEPT !.host = DisconnectConnected(@, walk.slot)]
  BY <1>1, <1>4, <1>6 DEF HandleAcknowledge
<1> QED BY <1>2, <1>5, <1>7, <1>8, <1>9, <1>10, <1>11, <1>12

\* The answer is to the one attempt of the guest.
LEMMA VerifiesSerenely ==
    ASSUME NEW h \in HOSTS, NEW n \in Nat, NEW x \in Nat, NEW b, NEW o,
           NEW walk \in Walk(h, n, x), HasPeer(h, walk), Serene(h, n, b, o, walk),
           h # SERVER, \A i, j \in b.ids : i = j,
           NEW c \in Control(n), c.connect_id \in b.ids
    PROVE  Serene(h, n, b, o, HandleVerifyConnect(walk, c))
<1>1. PICK host \in Tallied(h, n, x), s \in Slots(h), p \in Meek(h, n, b) :
         /\ host = walk.host /\ s = walk.slot /\ p = host.peers[s]
         /\ p = PeerOf(walk) /\ p \in Peer(n)
  BY SerenePeer
<1>2. CASE p.state # "CONNECTING"
  BY <1>1, <1>2 DEF HandleVerifyConnect
<1>3. CASE p.state = "CONNECTING"
  <2>1. c.connect_id = p.connect_id
    BY <1>1, <1>3, MeekFields, PeerFields
  <2>2. PICK one : one = 1
    OBVIOUS
  <2>3. PICK l \in Meek(h, n, b) : l = RemoveSentReliableCommand(p, one) /\ Core(l) = Core(p)
    BY MeekRemoves
  <2>4. /\ l \in Peer(n) /\ l.state = p.state /\ l.address = p.address
        /\ l.connect_id = p.connect_id
    BY <2>3, SameCore, MeekFields
  <2>5. PICK a \in Nat : a = c.outgoing_peer_id
    BY ControlFields
  <2>6. PICK q : q = [l EXCEPT !.outgoing_peer_id = a]
    OBVIOUS
  <2>7. /\ q \in Peer(n) /\ q.state = l.state /\ q.address = l.address
        /\ q.connect_id = l.connect_id /\ q.outgoing = l.outgoing /\ q.sent = l.sent
        /\ q.acknowledgements = l.acknowledgements
    BY <2>4, <2>5, <2>6 DEF Peer
  <2>8. q \in Meek(h, n, b)
    BY <2>7, MeekFields, MeekLists
  <2>9. PICK m : m = UpdatePeer(host, s, q)
    OBVIOUS
  <2>10. m \in Tallied(h, n, x) /\ Puts(host, m, s, q)
    <3>1. q.state \in CountedStates <=> Counted(host, s)
      BY <1>1, <2>4, <2>7 DEF Counted
    <3> QED BY <1>1, <2>7, <2>9, <3>1, UpdateLemma
  <2>11. PICK v : v = [walk EXCEPT !.host = m]
    OBVIOUS
  <2>12. v \in Walk(h, n, x) /\ v.host = m /\ v.slot = walk.slot /\ v.event = walk.event
    BY <2>10, <2>11 DEF Walk
  <2>13. v.event.type = "DISCONNECT" => b.asked # {} /\ v.event.connect_id \in b.ids
    BY <2>12 DEF Serene
  <2>14. Serene(h, n, b, o, v) /\ HasPeer(h, v) /\ PeerOf(v) = q
    BY <1>1, <2>8, <2>10, <2>12, <2>13, SerenePuts
  <2>15. Serene(h, n, b, o, NotifyConnect(v))
    <3>1. PeerOf(v).state # "DISCONNECTED"
      BY <1>3, <2>4, <2>7, <2>14
    <3> QED BY <2>12, <2>14, <3>1, ConnectsSerenely
  <2>16. HandleVerifyConnect(walk, c) = NotifyConnect(v)
    <3>1. HandleVerifyConnect(walk, c) =
             NotifyConnect([walk EXCEPT !.host = UpdatePeer(@, walk.slot,
                [RemoveSentReliableCommand(PeerOf(walk), 1) EXCEPT
                    !.outgoing_peer_id = c.outgoing_peer_id])])
      BY <1>1, <1>3, <2>1 DEF HandleVerifyConnect
    <3> QED BY <1>1, <2>2, <2>3, <2>5, <2>6, <2>9, <2>11, <3>1
  <2> QED BY <2>15, <2>16
<1> QED BY <1>2, <1>3

\* The other end has been asked to close.
LEMMA EndsSerenely ==
    ASSUME NEW h \in HOSTS, NEW n \in Nat, NEW x \in Nat, NEW b, NEW o,
           NEW walk \in Walk(h, n, x), HasPeer(h, walk), Serene(h, n, b, o, walk),
           b.asked # {}, NEW c
    PROVE  LET q == HandleDisconnect(walk, c)
           IN  /\ Serene(h, n, b, o, q)
               /\ h = SERVER => PeerOf(q).state \in Silent
<1>1. PICK host \in Tallied(h, n, x), s \in Slots(h), p \in Meek(h, n, b) :
         /\ host = walk.host /\ s = walk.slot /\ p = host.peers[s]
         /\ p = PeerOf(walk) /\ p \in Peer(n)
  BY SerenePeer
<1>2. PICK l \in Meek(h, n, b) :
         l = ResetPeerQueues(p) /\ Core(l) = Core(p) /\ l.state = p.state /\ Mute(l)
  BY MeekResetsQueues
<1>3. PICK queues : queues = UpdatePeer(host, s, l)
  OBVIOUS
<1>4. queues \in Tallied(h, n, x) /\ queues.peers[s] = l /\ Puts(host, queues, s, l)
  <2>1. l \in Peer(n) /\ (l.state \in CountedStates <=> Counted(host, s))
    BY <1>1, <1>2, MeekFields DEF Counted
  <2> QED BY <1>3, <2>1, UpdateLemma
<1>5. ASSUME NEW k \in Meek(h, n, b), NEW m, Puts(queues, m, s, k) PROVE Puts(host, m, s, k)
  BY <1>1, <1>4, <1>5, HostFields DEF Puts, Tallied
<1>6. ASSUME NEW st \in {"ZOMBIE", "ACKNOWLEDGING_DISCONNECT"}, p.state # "DISCONNECTED",
             NEW m, m = DispatchState(queues, s, st) \/ m = ChangeState(queues, s, st)
      PROVE  \E k \in Meek(h, n, b) : k.state = st /\ Puts(host, m, s, k)
  <2>1. st \in States /\ st # "DISCONNECTED" /\ st \notin Barred
    BY <1>6 DEF States, Barred
  <2>2. queues.peers[s].state # "DISCONNECTED"
    BY <1>2, <1>4, <1>6
  <2>3. PICK k \in Peer(n) : /\ k.state = st /\ OnlyState(queues.peers[s], k)
                            /\ Puts(queues, m, s, k)
    BY <1>4, <1>6, <2>1, <2>2, ChangeStateLemma, DispatchStateLemma
  <2>4. k \in Meek(h, n, b)
    <3>1. OnlyState(l, k) /\ l.state # "DISCONNECTED" /\ k.state \notin Barred
      BY <1>4, <2>1, <2>2, <2>3
    <3> QED BY <1>2, <3>1, MeekTurns
  <2> QED BY <1>5, <2>3, <2>4
<1>7. PICK r \in Meek(h, n, b) : r = Reset(l) /\ r.state = "DISCONNECTED"
  BY <1>2, MeekResets
<1>8. Puts(host, UpdatePeer(queues, s, r), s, r)
  <2>1. Puts(queues, UpdatePeer(queues, s, r), s, r)
    BY <1>4 DEF Puts, UpdatePeer, Tallied, Host
  <2> QED BY <1>5, <2>1
<1>9. PICK m : HandleDisconnect(walk, c) = [walk EXCEPT !.host = m] /\
         \/ p.state # "DISCONNECTED" /\ m = DispatchState(queues, s, "ZOMBIE")
         \/ m = UpdatePeer(queues, s, r)
         \/ /\ p.state # "DISCONNECTED"
            /\ m = ChangeState(queues, s, "ACKNOWLEDGING_DISCONNECT")
         \/ m = walk.host /\ p.state \in Silent
  BY <1>1, <1>2, <1>3, <1>4, <1>7, PeerFields, ZenonT(40)
     DEF HandleDisconnect, Counted, CountedStates, States, Silent
<1>10. PICK q : q = [walk EXCEPT !.host = m]
  OBVIOUS
<1>11. q.host = m /\ q.slot = walk.slot /\ q.event = walk.event
  BY <1>10 DEF Walk
<1>12. q.event.type = "DISCONNECT" => b.asked # {} /\ q.event.connect_id \in b.ids
  BY <1>11 DEF Serene
<1>13. CASE m = walk.host /\ p.state \in Silent
  <2>1. PeerOf(q) = p
    BY <1>1, <1>11, <1>13 DEF PeerOf
  <2> QED BY <1>9, <1>10, <1>11, <1>13, <2>1, SereneStays
<1>14. CASE \E k \in Meek(h, n, b) : k.state \in Silent /\ Puts(host, m, s, k)
  <2>1. PICK k \in Meek(h, n, b) : k.state \in Silent /\ Puts(host, m, s, k)
    BY <1>14
  <2>2. Serene(h, n, b, o, q) /\ PeerOf(q) = k
    BY <1>1, <1>11, <1>12, <2>1, SerenePuts
  <2> QED BY <1>9, <1>10, <2>1, <2>2
<1>15. CASE ~(m = walk.host /\ p.state \in Silent)
  <2>1. \E k \in Meek(h, n, b) : k.state \in Silent /\ Puts(host, m, s, k)
    BY <1>6, <1>7, <1>8, <1>9, <1>15 DEF Silent
  <2> QED BY <1>14, <2>1
<1> QED BY <1>13, <1>15

\* A free slot of the server says nothing of anybody.
LEMMA MeekFree ==
    ASSUME NEW n \in Nat, NEW b, NEW d, NEW p \in Meek(SERVER, n, b), p.state = "DISCONNECTED"
    PROVE  p \in Meek(SERVER, n, d)
<1>1. Orders(SERVER, n, b, p.state) = {} /\ Orders(SERVER, n, d, p.state) = {}
  BY DEF Orders, Silent
<1>2. Replies(SERVER, b, p.state) = Replies(SERVER, d, p.state)
  BY DEF Replies
<1>3. p.connect_id = 0
  BY MeekFields, PeerFields
<1>4. p.state \notin Ending /\ p.state \notin Barred
  BY DEF Ending, Barred
<1>5. /\ p.outgoing \in Seq(Orders(SERVER, n, d, p.state))
      /\ p.sent \in Seq(Orders(SERVER, n, d, p.state))
      /\ p.acknowledgements \in Seq(Replies(SERVER, d, p.state))
  BY <1>1, <1>2, MeekFields
<1> QED BY <1>3, <1>4, <1>5, MeekFields DEF Meek

\* The server answers the CONNECT of a guest.
LEMMA MeekAnswers ==
    ASSUME NEW n \in Nat, NEW b, NEW p \in Meek(SERVER, n, b), p.state = "DISCONNECTED",
           NEW s \in Nat, NEW from \in HOSTS, from = b.guest,
           NEW c \in Control(n), c.type = "CONNECT", c.connect_id \in b.ids
    PROVE  SetupConnectedPeer(p, s, from, c) \in Meek(SERVER, n, b)
<1>1. p \in Peer(n)
  BY MeekFields
<1>2. PICK id \in 0..n, slot \in Nat, st \in States :
         /\ id = c.connect_id /\ slot = c.outgoing_peer_id /\ id # 0
         /\ st = "ACKNOWLEDGING_CONNECT"
  BY ControlFields DEF States
<1>3. PICK o : o = [p EXCEPT !.state = st, !.address = from, !.connect_id = id,
                             !.outgoing_peer_id = slot]
  OBVIOUS
<1>4. /\ o \in Peer(n) /\ o.state = st /\ o.address = from /\ o.connect_id = id
      /\ o.number = p.number /\ o.outgoing = p.outgoing
      /\ o.sent = p.sent /\ o.acknowledgements = p.acknowledgements
  BY <1>1, <1>2, <1>3 DEF Peer
<1>5. PICK v : v = Command(o, "VERIFY_CONNECT", id, s, TRUE)
  OBVIOUS
<1>6. PICK S : S = Orders(SERVER, n, b, st)
  OBVIOUS
<1>7. v \in S
  <2>1. "VERIFY_CONNECT" \in Types
    BY DEF Types
  <2>2. v \in Control(n)
    BY <1>2, <1>4, <1>5, <2>1, CommandLemma
  <2>3. v.type = "VERIFY_CONNECT" /\ v.connect_id = id
    BY <1>5 DEF Command
  <2> QED BY <1>2, <1>6, <2>2, <2>3 DEF Orders, Silent
<1>8. Orders(SERVER, n, b, p.state) \subseteq S
  BY DEF Orders, Silent
<1>9. PICK l \in Seq(S) : l = Append(o.outgoing, v)
  <2>1. PICK a \in Seq(S) : a = o.outgoing
    BY <1>4, <1>8, MeekFields
  <2> QED BY <1>7, <2>1, AppendIn
<1>10. PICK m : m = o.number + 1
  OBVIOUS
<1>11. PICK q : q = [o EXCEPT !.number = m, !.outgoing = l]
  OBVIOUS
<1>12. SetupConnectedPeer(p, s, from, c) = q
  <2>1. SetupConnectedPeer(p, s, from, c) =
           QueueOutgoingCommand(o, "VERIFY_CONNECT", id, s)
    BY <1>2, <1>3 DEF SetupConnectedPeer, Answering
  <2>2. QueueOutgoingCommand(o, "VERIFY_CONNECT", id, s) = q
    BY <1>5, <1>9, <1>10, <1>11 DEF QueueOutgoingCommand
  <2> QED BY <2>1, <2>2
<1>13. q \in Peer(n) /\ q.state = st
  BY <1>1, <1>2, <1>12, SetupConnectedLemma
<1>14. /\ q.address = from /\ q.connect_id = id /\ q.outgoing = l
       /\ q.sent = p.sent /\ q.acknowledgements = p.acknowledgements
  BY <1>4, <1>11 DEF Peer
<1>15. q.sent \in Seq(S) /\ q.outgoing \in Seq(S)
  BY <1>8, <1>9, <1>14, MeekFields
<1>16. q.acknowledgements \in Seq(Replies(SERVER, b, st))
  <2>1. Replies(SERVER, b, p.state) = Replies(SERVER, b, st)
    BY <1>2 DEF Replies
  <2> QED BY <1>14, <2>1, MeekFields
<1>17. st \notin Ending /\ st \notin Barred
  BY <1>2 DEF Ending, Barred
<1> QED BY <1>2, <1>6, <1>12, <1>13, <1>14, <1>15, <1>16, <1>17 DEF Meek

LEMMA AttemptSerenely ==
    ASSUME NEW n \in Nat, NEW x \in Nat, NEW b, NEW o,
           NEW walk \in Walk(SERVER, n, x), Serene(SERVER, n, b, o, walk),
           \A t \in Slots(SERVER) : \E d : o.peers[t] \in Meek(SERVER, n, d),
           NEW from \in HOSTS, from = b.guest,
           NEW c \in Control(n), c.type = "CONNECT", c.connect_id \in b.ids
    PROVE  Serene(SERVER, n, b, o, HandleConnect(walk, SERVER, from, c))
<1> DEFINE peers    == walk.host.peers
           Same(t)  == /\ peers[t].state = "CONNECTING" /\ peers[t].address = from
                       /\ peers[t].connect_id = c.connect_id
           settling == {t \in Slots(SERVER) : peers[t].state = "DISCONNECTED" \/ Same(t)}
           slot     == Min(settling)
           q == [walk EXCEPT !.slot = slot,
                             !.host = UpdatePeer(@, slot,
                                 SetupConnectedPeer(peers[slot], slot, from, c))]
<1>1. CASE walk.slot # Nobody \/ settling = {} \/ (settling # {} /\ Same(slot))
  <2>1. HandleConnect(walk, SERVER, from, c) = [walk EXCEPT !.over = TRUE]
    BY <1>1 DEF HandleConnect
  <2>2. /\ [walk EXCEPT !.over = TRUE].host = walk.host
        /\ [walk EXCEPT !.over = TRUE].slot = walk.slot
        /\ [walk EXCEPT !.over = TRUE].event = walk.event
    BY DEF Walk
  <2> QED BY <2>1, <2>2, SereneStays
<1>2. CASE ~(walk.slot # Nobody \/ settling = {} \/ (settling # {} /\ Same(slot)))
  <2>1. HandleConnect(walk, SERVER, from, c) = q
    BY <1>2 DEF HandleConnect
  <2>2. SERVER \in HOSTS
    BY LifecycleAssumption
  <2>3. settling \in SUBSET Nat /\ settling # {}
    BY <1>2, <2>2, SlotsLemma
  <2>4. slot \in settling /\ ~Same(slot)
    <3>1. ~Same(slot)
      BY <1>2
    <3>2. slot \in settling
      <4> HIDE DEF settling
      <4> QED BY <2>3, MinOfSet
    <3> QED BY <3>1, <3>2
  <2>5. slot \in Slots(SERVER) /\ peers[slot].state = "DISCONNECTED"
    <3> HIDE DEF slot
    <3> QED BY <2>4
  <2>6. PICK s \in Slots(SERVER) : s = slot /\ s \in Nat
    BY <2>2, <2>5, SlotsLemma
  <2>7. PICK host \in Tallied(SERVER, n, x), p \in Meek(SERVER, n, b) :
           host = walk.host /\ p = host.peers[s] /\ p.state = "DISCONNECTED"
    <3>1. walk.host \in Tallied(SERVER, n, x)
      BY <2>2, WalkFields
    <3>2. PICK p : p = peers[s] /\ p.state = "DISCONNECTED"
      BY <2>5, <2>6
    <3>3. p \in {o.peers[s]} \cup Meek(SERVER, n, b)
      BY <2>6, <3>2 DEF Serene
    <3>4. PICK d : p \in Meek(SERVER, n, d)
      BY <2>6, <3>3
    <3>5. p \in Meek(SERVER, n, b)
      BY <3>2, <3>4, MeekFree
    <3> QED BY <3>1, <3>2, <3>5
  <2>8. PICK a \in Meek(SERVER, n, b) : a = SetupConnectedPeer(p, s, from, c)
    BY <2>6, <2>7, MeekAnswers
  <2>9. PICK m : m = UpdatePeer(host, s, a)
    OBVIOUS
  <2>10. m.peers = [host.peers EXCEPT ![s] = a] /\ host.peers \in [Slots(SERVER) -> Peer(n)]
    <3>1. host \in Host(SERVER, n)
      BY DEF Tallied
    <3>2. host.peers \in [Slots(SERVER) -> Peer(n)]
      BY <2>2, <3>1, HostFields
    <3> QED BY <2>9, <3>1, <3>2 DEF UpdatePeer, Host
  <2>11. q = [walk EXCEPT !.slot = s, !.host = m]
    BY <2>6, <2>7, <2>8, <2>9
  <2> HIDE DEF q
  <2>12. q.host = m /\ q.slot = s /\ q.event = walk.event
    BY <2>11 DEF Walk
  <2>13. PeerOf(q) = a
    BY <2>6, <2>10, <2>12 DEF PeerOf
  <2>14. ASSUME NEW t \in Slots(SERVER)
         PROVE  q.host.peers[t] \in {o.peers[t]} \cup Meek(SERVER, n, b)
    <3>1. CASE t = s
      BY <2>6, <2>10, <2>12, <3>1
    <3>2. CASE t # s
      BY <2>7, <2>10, <2>12, <3>2 DEF Serene
    <3> QED BY <3>1, <3>2
  <2>15. q.event.type = "DISCONNECT" => b.asked # {} /\ q.event.connect_id \in b.ids
    BY <2>12 DEF Serene
  <2> QED BY <2>1, <2>13, <2>14, <2>15 DEF Serene
<1> QED BY <1>1, <1>2

-----------------------------------------------------------------------------
(* What hosts say of an end.                                               *)

\* A command that the connections of b account for.
Apt(h, b, c) ==
    /\ c.type = "CONNECT" => h = SERVER /\ c.connect_id \in b.ids
    /\ c.type = "VERIFY_CONNECT" => h # SERVER /\ c.connect_id \in b.ids
    /\ c.type = "DISCONNECT" => b.asked # {}

LEMMA CommandSerenely ==
    ASSUME NEW h \in HOSTS, NEW n \in Nat, NEW x \in Nat, NEW b, NEW o,
           NEW walk \in Walk(h, n, x), Serene(h, n, b, o, walk),
           \A i, j \in b.ids : i = j,
           h = SERVER => \A t \in Slots(h) : \E d : o.peers[t] \in Meek(h, n, d),
           NEW from \in HOSTS, h = SERVER => from = b.guest,
           NEW c \in Control(n), Apt(h, b, c)
    PROVE  Serene(h, n, b, o, HandleCommand(walk, h, from, c))
<1>1. PICK q : q = HandleCommand(walk, h, from, c)
  OBVIOUS
<1>2. CASE walk.over \/ (walk.slot = Nobody /\ c.type # "CONNECT")
  <2>1. q = [walk EXCEPT !.over = TRUE]
    BY <1>1, <1>2 DEF HandleCommand
  <2>2. q.host = walk.host /\ q.slot = walk.slot /\ q.event = walk.event
    BY <2>1, OverKeeps
  <2> QED BY <1>1, <2>2, SereneStays
<1>3. CASE ~walk.over /\ c.type = "CONNECT"
  <2>1. q = HandleConnect(walk, h, from, c)
    BY <1>1, <1>3 DEF HandleCommand
  <2>2. h = SERVER /\ c.connect_id \in b.ids
    BY <1>3 DEF Apt
  <2> QED BY <1>1, <1>3, <2>1, <2>2, AttemptSerenely
<1>4. CASE ~walk.over /\ walk.slot # Nobody /\ c.type # "CONNECT"
  <2>1. HasPeer(h, walk)
    BY <1>4, WalkFields
  <2>2. CASE c.type = "ACKNOWLEDGE"
    <3>1. q = HandleAcknowledge(walk, c)
      BY <1>1, <1>4, <2>2 DEF HandleCommand
    <3> QED BY <1>1, <2>1, <3>1, AcknowledgementSerenely
  <2>3. CASE c.type = "VERIFY_CONNECT"
    <3>1. PICK v : v = HandleVerifyConnect(walk, c)
      OBVIOUS
    <3>2. q = QueueAcknowledgement(v, c)
      BY <1>1, <1>4, <2>3, <3>1 DEF HandleCommand
    <3>3. v \in Walk(h, n, x) /\ v.slot = walk.slot
      BY <2>1, <3>1, HandleVerifyConnectLemma
    <3>4. h # SERVER /\ c.connect_id \in b.ids
      BY <2>3 DEF Apt
    <3>5. Serene(h, n, b, o, v) /\ HasPeer(h, v)
      BY <2>1, <3>1, <3>3, <3>4, VerifiesSerenely DEF HasPeer
    <3>6. c.type # "DISCONNECT"
      BY <2>3
    <3> QED BY <1>1, <3>2, <3>3, <3>5, <3>6, AcknowledgesSerenely
  <2>4. CASE c.type = "DISCONNECT"
    <3>1. PICK v : v = HandleDisconnect(walk, c)
      OBVIOUS
    <3>2. q = QueueAcknowledgement(v, c)
      BY <1>1, <1>4, <2>4, <3>1 DEF HandleCommand
    <3>3. v \in Walk(h, n, x) /\ v.slot = walk.slot
      BY <2>1, <3>1, HandleDisconnectLemma
    <3>4. b.asked # {}
      BY <2>4 DEF Apt
    <3>5. /\ Serene(h, n, b, o, v) /\ HasPeer(h, v)
          /\ h = SERVER => PeerOf(v).state \in Silent
      BY <2>1, <3>1, <3>3, <3>4, EndsSerenely DEF HasPeer
    <3> QED BY <1>1, <3>2, <3>3, <3>4, <3>5, AcknowledgesSerenely
  <2>5. CASE c.type \notin {"ACKNOWLEDGE", "VERIFY_CONNECT", "DISCONNECT"}
    <3>1. q = QueueAcknowledgement(walk, c)
      BY <1>1, <1>4, <2>5 DEF HandleCommand
    <3> QED BY <1>1, <2>1, <2>5, <3>1, AcknowledgesSerenely
  <2> QED BY <2>2, <2>3, <2>4, <2>5
<1> QED BY <1>2, <1>3, <1>4

\* What a host is after a datagram.
LEMMA ReceivedSerenely ==
    ASSUME NEW h \in HOSTS, NEW n \in Nat, NEW x \in Nat, hosts[h] \in Tallied(h, n, x),
           NEW b, \A i, j \in b.ids : i = j,
           IF h = SERVER THEN \A t \in Slots(h) : \E d : hosts[h].peers[t] \in Meek(h, n, d)
                         ELSE \A t \in Slots(h) : hosts[h].peers[t] \in Meek(h, n, b),
           NEW d \in Datagrams(n), d.slot = Nobody \/ EventOccur(h, d),
           d.slot \in Slots(h) => hosts[h].peers[d.slot] \in Meek(h, n, b),
           h = SERVER => d.from = b.guest,
           \A i \in 1..Len(d.commands) : Apt(h, b, d.commands[i])
    PROVE  Serene(h, n, b, hosts[h], Received(h, d))
<1>1. PICK N \in Nat : N = Len(d.commands) /\ \A i \in 1..N : d.commands[i] \in Control(n)
  BY DatagramFields
<1>2. PICK w : w = Walks(h, d)
  OBVIOUS
<1>3. d.slot \in Slots(h) \cup {Nobody} /\ d.from \in HOSTS
  BY DatagramFields DEF EventOccur
<1>4. /\ w[0] = Arrived(h, d) /\ \A i \in 0..N : w[i] \in Walk(h, n, x)
      /\ \A i \in 1..N : w[i] = HandleCommand(w[i - 1], h, d.from, d.commands[i])
  BY <1>1, <1>2, <1>3, WalksLemma
<1>5. PICK S : S = {i \in 0..N : Serene(h, n, b, hosts[h], w[i])}
  OBVIOUS
<1>6. 0 \in S
  <2>1. w[0].host = hosts[h] /\ w[0].slot = d.slot /\ w[0].event.type = "NONE"
    BY <1>4 DEF Arrived, NoEvent
  <2>2. Serene(h, n, b, hosts[h], w[0])
    BY <2>1 DEF Serene, HasPeer, PeerOf
  <2> QED BY <1>1, <1>5, <2>2
<1>7. ASSUME NEW i \in 1..N, i - 1 \in S PROVE i \in S
  <2>1. PICK v, c : v = w[i - 1] /\ c = d.commands[i]
    OBVIOUS
  <2>2. v \in Walk(h, n, x) /\ w[i] = HandleCommand(v, h, d.from, c) /\ c \in Control(n)
    BY <1>1, <1>4, <2>1
  <2>3. Serene(h, n, b, hosts[h], v) /\ Apt(h, b, c)
    BY <1>1, <1>5, <1>7, <2>1
  <2>4. Serene(h, n, b, hosts[h], w[i])
    BY <1>3, <2>2, <2>3, CommandSerenely
  <2> QED BY <1>1, <1>5, <2>4
<1>8. N \in S
  <2>1. \A i \in 0..N : i \in S
    BY <1>1, <1>6, <1>7, IndexInduction
  <2> QED BY <1>1, <2>1
<1>9. Received(h, d) = w[N]
  BY <1>1, <1>2 DEF Received
<1> QED BY <1>5, <1>8, <1>9

-----------------------------------------------------------------------------
(* The invariant of the requests.                                          *)

\* Every peer of the host is meek; those of a guest belong to it.
Gentle(h, n, B, host) ==
    \A s \in Slots(h) : \E g \in HOSTS :
       /\ h # SERVER => g = h
       /\ host.peers[s] \in Meek(h, n, B[g])

\* The guest a datagram comes from or goes to.
Partner(d) == IF d.from = SERVER THEN d.to ELSE d.from

\* A command speaks of an end only if one was asked for.
Tame(b, c) ==
    /\ c.type = "DISCONNECT" => b.asked # {}
    /\ c.type = "VERIFY_CONNECT" => c.connect_id \in b.ids

Mild(B, d) ==
    /\ Partner(d) \in HOSTS
    /\ \A i \in 1..Len(d.commands) : Tame(B[Partner(d)], d.commands[i])

Requested ==
    /\ \A h \in HOSTS : Gentle(h, Len(connects), Bonds, hosts[h])
    /\ \A d \in DOMAIN network : Mild(Bonds, d)
    /\ ClosedOnRequest

\* More connections, or more requests.
More(B, C) ==
    \A g \in HOSTS : /\ B[g].guest = C[g].guest /\ B[g].ids \subseteq C[g].ids
                     /\ B[g].asked \subseteq C[g].asked

LEMMA BondFields ==
    ASSUME NEW g \in HOSTS
    PROVE  /\ Bonds[g].guest = g /\ Bonds[g].ids = {i \in DOMAIN connects : connects[i] = g}
           /\ Bonds[g].asked = Bonds[g].ids \cap asked
  BY DEF Bonds

\* Requests are added.
LEMMA BondsMore ==
    ASSUME connects' = connects, asked \subseteq asked'
    PROVE  /\ More(Bonds, Bonds')
           /\ \A g \in HOSTS : /\ Bonds'[g].guest = g /\ Bonds'[g].ids = Bonds[g].ids
                               /\ Bonds'[g].asked = Bonds[g].ids \cap asked'
  BY DEF Bonds, More

LEMMA BondsSame ==
    ASSUME connects' = connects, asked' = asked PROVE Bonds' = Bonds
  BY DEF Bonds

LEMMA MoreSame == ASSUME NEW B PROVE More(B, B)
  BY DEF More

\* Each guest has one connection.
LEMMA OneBond ==
    ASSUME NEW e, Suits(e), NEW g \in HOSTS
    PROVE  \A i, j \in Bonds[g].ids : i = j
  BY BondFields DEF Suits, Witnessed

LEMMA GentleMore ==
    ASSUME NEW h, NEW n \in Nat, NEW m \in Nat, n <= m, NEW B, NEW C, More(B, C),
           NEW host, Gentle(h, n, B, host)
    PROVE  Gentle(h, m, C, host)
<1>1. ASSUME NEW g \in HOSTS PROVE Meek(h, n, B[g]) \subseteq Meek(h, m, C[g])
  BY MeekMore DEF More
<1> QED BY <1>1 DEF Gentle

LEMMA MildMore ==
    ASSUME NEW B, NEW C, More(B, C), NEW d, Mild(B, d) PROVE Mild(C, d)
<1>1. PICK g \in HOSTS : g = Partner(d)
  BY DEF Mild
<1>2. B[g].ids \subseteq C[g].ids /\ B[g].asked \subseteq C[g].asked
  BY DEF More
<1> QED BY <1>1, <1>2 DEF Mild, Tame

\* A peer is replaced.
LEMMA PutGentle ==
    ASSUME NEW h, NEW n, NEW k, NEW B, NEW host, Gentle(h, n, B, host),
           NEW s \in Slots(h), host.peers \in [Slots(h) -> Peer(k)],
           NEW g \in HOSTS, h # SERVER => g = h, NEW q \in Meek(h, n, B[g]),
           NEW m, Puts(host, m, s, q)
    PROVE  Gentle(h, n, B, m)
<1>1. m.peers = [host.peers EXCEPT ![s] = q]
  BY DEF Puts
<1>2. ASSUME NEW t \in Slots(h), t # s PROVE m.peers[t] = host.peers[t]
  BY <1>1, <1>2
<1>3. m.peers[s] = q
  BY <1>1
<1> QED BY <1>2, <1>3 DEF Gentle

\* A host is replaced, and the network takes no other than mild datagrams.
LEMMA RequestedStep ==
    ASSUME Requested, DOMAIN hosts = HOSTS, NEW k \in Nat, k = Len(connects),
           NEW n \in Nat, n = Len(connects'), k <= n,
           NEW B, B = Bonds, NEW C, C = Bonds', More(B, C),
           NEW h \in HOSTS, NEW m, hosts' = [hosts EXCEPT ![h] = m], Gentle(h, n, C, m),
           NEW X, \A d \in X : Mild(C, d), DOMAIN network' \subseteq DOMAIN network \cup X,
           ClosedOnRequest'
    PROVE  Requested'
<1>1. ASSUME NEW g \in HOSTS PROVE Gentle(g, n, C, hosts'[g])
  <2>1. CASE g = h
    BY <2>1
  <2>2. CASE g # h
    <3>1. PICK host : host = hosts[g] /\ hosts'[g] = host
      BY <2>2
    <3>2. Gentle(g, k, B, host)
      BY <3>1 DEF Requested
    <3> QED BY <3>1, <3>2, GentleMore
  <2> QED BY <2>1, <2>2
<1>2. ASSUME NEW d \in DOMAIN network' PROVE Mild(C, d)
  <2>1. CASE d \in X
    BY <2>1
  <2>2. CASE d \notin X
    <3>1. Mild(B, d)
      BY <2>2 DEF Requested
    <3> QED BY <3>1, MildMore
  <2> QED BY <2>1, <2>2
<1> QED BY <1>1, <1>2 DEF Requested

\* A peer, as the invariants know it.
LEMMA RequestedPeer ==
    ASSUME Inv, Requested, NEW h \in HOSTS, NEW s \in Slots(h)
    PROVE  /\ DOMAIN hosts = HOSTS
           /\ \E n, x, host, g, B, p :
                 /\ n \in Nat /\ x \in Nat /\ n = Len(connects)
                 /\ host = hosts[h] /\ host \in Tallied(h, n, x)
                 /\ host.peers \in [Slots(h) -> Peer(n)]
                 /\ B = Bonds /\ g \in HOSTS /\ (h # SERVER => g = h) /\ B[g].guest = g
                 /\ Gentle(h, n, B, host)
                 /\ p = host.peers[s] /\ p \in Meek(h, n, B[g]) /\ p \in Peer(n)
<1>1. PICK n \in Nat : n = Len(connects)
  BY DEF Inv
<1>2. PICK x \in Nat : hosts[h] \in Tallied(h, n, x)
  BY <1>1 DEF Inv
<1>3. PICK host, B : host = hosts[h] /\ B = Bonds
  OBVIOUS
<1>4. host.peers \in [Slots(h) -> Peer(n)]
  BY <1>2, <1>3, HostFields DEF Tallied
<1>5. Gentle(h, n, B, host)
  BY <1>1, <1>3 DEF Requested
<1>6. PICK g \in HOSTS : (h # SERVER => g = h) /\ host.peers[s] \in Meek(h, n, B[g])
  BY <1>5 DEF Gentle
<1>7. PICK p : p = host.peers[s]
  OBVIOUS
<1>8. p \in Meek(h, n, B[g]) /\ p \in Peer(n)
  BY <1>6, <1>7, MeekFields
<1>9. B[g].guest = g
  BY <1>3, BondFields
<1>10. DOMAIN hosts = HOSTS
  BY DEF Inv
<1> QED BY <1>1, <1>2, <1>3, <1>4, <1>5, <1>6, <1>7, <1>8, <1>9, <1>10

-----------------------------------------------------------------------------
(* What the applications are told.                                         *)

LEMMA ClosedSame ==
    ASSUME ClosedOnRequest, events' = events, asked \subseteq asked' PROVE ClosedOnRequest'
  BY DEF ClosedOnRequest

LEMMA AppendsOnly ==
    ASSUME NEW S, NEW o \in Seq(S), NEW c \in S, NEW q, q = Append(o, c), NEW i \in DOMAIN q
    PROVE  q[i] = c \/ (i \in DOMAIN o /\ q[i] = o[i])
  OBVIOUS

LEMMA ClosedTold ==
    ASSUME EventsTyped, ClosedOnRequest, NEW h \in HOSTS, NEW n \in Nat,
           NEW event \in Tidings(n), IsTold(h, event), asked' = asked,
           event.type = "DISCONNECT" => event.connect_id \in asked
    PROVE  ClosedOnRequest'
<1> DEFINE S == [type : {"CONNECT", "DISCONNECT"}, connect_id : Nat]
<1>1. CASE event.type \notin {"CONNECT", "DISCONNECT"}
  <2>1. events' = events
    BY <1>1 DEF IsTold
  <2> QED BY <2>1, ClosedSame
<1>2. CASE event.type \in {"CONNECT", "DISCONNECT"}
  <2>1. event \in S
    BY <1>2 DEF Tidings
  <2>2. events \in [HOSTS -> Seq(S)]
    BY DEF EventsTyped
  <2>3. events' = [events EXCEPT ![h] = Append(@, event)]
    BY <1>2 DEF IsTold
  <2> HIDE DEF S
  <2>4. PICK o \in Seq(S) : o = events[h]
    BY <2>2
  <2>5. PICK q : q = Append(o, event)
    OBVIOUS
  <2>6. events' = [events EXCEPT ![h] = q]
    BY <2>3, <2>4, <2>5
  <2>7. events'[h] = q /\ \A g \in HOSTS : g # h => events'[g] = events[g]
    BY <2>2, <2>6
  <2>8. ASSUME NEW g \in HOSTS, NEW i \in DOMAIN events'[g], events'[g][i].type = "DISCONNECT"
        PROVE  events'[g][i].connect_id \in asked
    <3>1. CASE g = h
      <4>1. q[i] = event \/ (i \in DOMAIN o /\ q[i] = o[i])
        BY <2>1, <2>5, <2>7, <2>8, <3>1, AppendsOnly
      <4> QED BY <2>4, <2>7, <2>8, <3>1, <4>1 DEF ClosedOnRequest
    <3>2. CASE g # h
      BY <2>7, <2>8, <3>2 DEF ClosedOnRequest
    <3> QED BY <3>1, <3>2
  <2> QED BY <2>8 DEF ClosedOnRequest
<1> QED BY <1>1, <1>2

-----------------------------------------------------------------------------
(* The steps end nothing that no application asked to end.                 *)

LEMMA MeekMutes ==
    ASSUME NEW h, NEW n \in Nat, NEW b, NEW p \in Meek(h, n, b)
    PROVE  LET q == [p EXCEPT !.acknowledgements = <<>>]
           IN  /\ q \in Meek(h, n, b) /\ q.state = p.state /\ q \in Peer(n)
<1>1. PICK a \in Seq(Answers) : a = <<>>
  BY EmptySequence
<1>2. PICK q : q = [p EXCEPT !.acknowledgements = a]
  OBVIOUS
<1>3. p \in Peer(n)
  BY MeekFields
<1>4. /\ q \in Peer(n) /\ q.state = p.state /\ q.address = p.address
      /\ q.connect_id = p.connect_id /\ q.outgoing = p.outgoing /\ q.sent = p.sent
      /\ q.acknowledgements = a
  BY <1>2, <1>3 DEF Peer
<1>5. /\ q.outgoing \in Seq(Orders(h, n, b, p.state))
      /\ q.sent \in Seq(Orders(h, n, b, p.state))
      /\ q.acknowledgements \in Seq(Replies(h, b, p.state))
  BY <1>1, <1>4, EmptySequence, MeekFields
<1>6. q \in Meek(h, n, b)
  BY <1>4, <1>5, MeekLists
<1> QED BY <1>1, <1>2, <1>4, <1>6

LEMMA AnswersGently ==
    ASSUME NEW h \in HOSTS, NEW n \in Nat, NEW x \in Nat, NEW host \in Tallied(h, n, x),
           NEW s \in Slots(h), NEW b, NEW p \in Meek(h, n, b), p = host.peers[s],
           p.state # "DISCONNECTED"
    PROVE  \E q \in Meek(h, n, b) : Puts(host, SendAcknowledgements(host, s), s, q)
<1>1. p \in Peer(n) /\ host.peers \in [Slots(h) -> Peer(n)]
  BY MeekFields, HostFields DEF Tallied
<1>2. PICK o \in Meek(h, n, b) :
         o = [p EXCEPT !.acknowledgements = <<>>] /\ o.state = p.state /\ o \in Peer(n)
  BY MeekMutes
<1>3. PICK sent : sent = UpdatePeer(host, s, o)
  OBVIOUS
<1>4. sent \in Tallied(h, n, x) /\ sent.peers[s] = o /\ Puts(host, sent, s, o)
  <2>1. o.state \in CountedStates <=> Counted(host, s)
    BY <1>2 DEF Counted
  <2>2. o \in Peer(n)
    BY <1>2
  <2> QED BY <1>3, <2>1, <2>2, UpdateLemma
<1>5. CASE SendAcknowledgements(host, s) = sent
  BY <1>4, <1>5
<1>6. CASE \E i \in DOMAIN p.acknowledgements : p.acknowledgements[i].type = "DISCONNECT"
  <2>1. b.asked # {} /\ (h = SERVER => p.state \in {"ZOMBIE", "ACKNOWLEDGING_DISCONNECT"})
    <3>1. PICK a \in Seq(Replies(h, b, p.state)) : a = p.acknowledgements
      BY MeekFields
    <3>2. PICK i \in DOMAIN a : a[i].type = "DISCONNECT"
      BY <1>6, <3>1
    <3>3. a[i] \in Replies(h, b, p.state)
      BY <3>1, <3>2
    <3> QED BY <3>2, <3>3 DEF Replies
  <2>2. PICK st \in States : st = "ZOMBIE" /\ st # "DISCONNECTED"
    BY DEF States
  <2>3. PICK m : m = DispatchState(sent, s, st)
    OBVIOUS
  <2>4. sent.peers[s].state # "DISCONNECTED"
    BY <1>2, <1>4
  <2>5. PICK q \in Peer(n) : q.state = st /\ OnlyState(sent.peers[s], q) /\ Puts(sent, m, s, q)
    BY <1>4, <2>2, <2>3, <2>4, DispatchStateLemma
  <2>6. q \in Meek(h, n, b)
    <3>1. OnlyState(o, q) /\ o.state # "DISCONNECTED" /\ q.state \notin Barred
      BY <1>2, <1>4, <2>2, <2>5 DEF Barred
    <3> QED BY <1>2, <2>1, <2>2, <2>5, <3>1, MeekTurns
  <2>7. Puts(host, m, s, q)
    BY <1>1, <1>4, <2>5 DEF Puts
  <2>8. SendAcknowledgements(host, s) = m
    BY <1>2, <1>3, <1>6, <2>2, <2>3 DEF SendAcknowledgements
  <2> QED BY <2>6, <2>7, <2>8
<1> QED BY <1>2, <1>3, <1>5, <1>6 DEF SendAcknowledgements

\* What a peer sends.
LEMMA SpeaksMildly ==
    ASSUME NEW h \in HOSTS, NEW n \in Nat, NEW g \in HOSTS, h # SERVER => g = h,
           NEW B, B[g].guest = g, NEW p \in Meek(h, n, B[g]), p.state # "DISCONNECTED",
           NEW c, \A i \in 1..Len(c) : Tame(B[g], c[i])
    PROVE  Mild(B, Datagram(h, p, c))
<1>1. PICK d : d = Datagram(h, p, c)
  OBVIOUS
<1>2. d.from = h /\ d.to = p.address /\ d.commands = c
  BY <1>1 DEF Datagram
<1>3. Partner(d) = g
  BY <1>2, MeekFields DEF Partner
<1> QED BY <1>1, <1>2, <1>3 DEF Mild

LEMMA SendRequested ==
    ASSUME Inv, Requested, NEW h \in HOSTS, NEW s \in Slots(h),
           NEW expired, NEW ping \in BOOLEAN, SendOutgoingCommands(h, s, expired, ping)
    PROVE  Requested'
<1>1. /\ DOMAIN hosts = HOSTS /\ connects' = connects /\ asked' = asked /\ events' = events
      /\ Bonds' = Bonds
  BY BondsSame DEF SendOutgoingCommands, Inv
<1>2. PICK n, x, host, g, B, p :
         /\ n \in Nat /\ x \in Nat /\ n = Len(connects)
         /\ host = hosts[h] /\ host \in Tallied(h, n, x)
         /\ host.peers \in [Slots(h) -> Peer(n)]
         /\ B = Bonds /\ g \in HOSTS /\ (h # SERVER => g = h) /\ B[g].guest = g
         /\ Gentle(h, n, B, host)
         /\ p = host.peers[s] /\ p \in Meek(h, n, B[g]) /\ p \in Peer(n)
  BY RequestedPeer
<1>3. PICK b : b = B[g]
  OBVIOUS
<1>4. p.state # "DISCONNECTED" /\ p \in Meek(h, n, b)
  BY <1>2, <1>3 DEF SendOutgoingCommands, Sendable
<1>5. PICK answered : answered = SendAcknowledgements(host, s)
  OBVIOUS
<1>6. PICK a \in Meek(h, n, b) : Puts(host, answered, s, a)
  BY <1>2, <1>4, <1>5, AnswersGently
<1>7. answered \in Tallied(h, n, x) /\ answered.peers[s] = a
  BY <1>2, <1>4, <1>5, <1>6, SendAcknowledgementsLemma DEF Puts
<1>8. PICK timed \in Meek(h, n, b) : timed = Timeout(a, expired) /\ timed.state = a.state
  <2>1. PICK q : q = Timeout(a, expired)
    OBVIOUS
  <2>2. q \in Meek(h, n, b) /\ Core(q) = Core(a)
    BY <1>2, <2>1, MeekTimesOut
  <2> QED BY <2>1, <2>2, SameCore
<1>9. PICK queued \in Meek(h, n, b) :
         queued = IF ping THEN QueueOutgoingCommand(timed, "PING", 0, Nobody) ELSE timed
  <2>1. CASE ~ping
    BY <2>1
  <2>2. CASE ping
    <3>1. PICK ty : ty = "PING"
      OBVIOUS
    <3>2. timed.state \notin Silent
      <4>1. answered.peers[s].state = "CONNECTED"
        BY <1>2, <1>5, <2>2 DEF SendOutgoingCommands
      <4> QED BY <1>7, <1>8, <4>1 DEF Silent
    <3>3. h = SERVER => ty = "PING" /\ timed.state \notin Silent
      BY <3>1, <3>2
    <3>4. ty = "DISCONNECT" => b.asked # {}
      BY <3>1
    <3>5. QueueOutgoingCommand(timed, ty, 0, Nobody) \in Meek(h, n, b)
      BY <1>2, <3>1, <3>3, <3>4, MeekQueues
    <3> QED BY <2>2, <3>1, <3>5
  <2> QED BY <2>1, <2>2
<1>10. PICK loaded \in Meek(h, n, b) : loaded = LoadReliableCommands(queued)
  BY <1>2, MeekLoads
<1>11. PICK m : m = UpdatePeer(answered, s, loaded)
  OBVIOUS
<1>12. Puts(host, m, s, loaded)
  <2>1. m.peers = [answered.peers EXCEPT ![s] = loaded]
    BY <1>7, <1>11 DEF UpdatePeer, Tallied, Host
  <2>2. answered.peers = [host.peers EXCEPT ![s] = a]
    BY <1>6 DEF Puts
  <2> QED BY <1>2, <2>1, <2>2 DEF Puts
<1>13. Gentle(h, n, B, m)
  BY <1>2, <1>3, <1>12, PutGentle
<1>14. PICK acks : acks = [i \in DOMAIN p.acknowledgements |-> Acknowledge(p.acknowledgements[i].rsn)]
  OBVIOUS
<1>15. PICK S : S = {c \in Control(n) : Tame(b, c)}
  OBVIOUS
<1>16. acks \in Seq(S)
  <2>1. PICK o \in Seq(Answers) : o = p.acknowledgements
    BY <1>2, PeerFields
  <2>2. acks \in Seq(Acknowledging(n, Answers))
    BY <1>2, <1>14, <2>1, AcknowledgesAnswers
  <2>3. Acknowledging(n, Answers) \subseteq S
    BY <1>15 DEF Acknowledging, Acks, Tame
  <2> QED BY <2>2, <2>3
<1>17. PICK o \in Seq(S) : o = queued.outgoing
  <2>1. Orders(h, n, b, queued.state) \subseteq S
    BY <1>15 DEF Orders, Tame
  <2> QED BY <2>1, MeekFields
<1>18. PICK w \in Seq(S) : w = acks \o o
  <2>1. PICK y \in Seq(S) : y = acks
    BY <1>16
  <2>2. y \o o \in Seq(S)
    OBVIOUS
  <2> QED BY <2>1, <2>2
<1>19. PICK d : d = Datagram(h, p, w)
  OBVIOUS
<1>20. Mild(B, d)
  <2>1. \A i \in 1..Len(w) : w[i] \in S
    OBVIOUS
  <2>2. \A i \in 1..Len(w) : Tame(B[g], w[i])
    BY <1>3, <1>15, <2>1
  <2> QED BY <1>2, <1>4, <1>19, <2>2, SpeaksMildly
<1>21. hosts' = [hosts EXCEPT ![h] = m] /\ network' = network (+) SetToBag({d})
  BY <1>2, <1>5, <1>7, <1>8, <1>9, <1>10, <1>11, <1>14, <1>17, <1>18, <1>19
     DEF SendOutgoingCommands
<1>22. DOMAIN network' \subseteq DOMAIN network \cup {d}
  <2>1. PICK V : V = network (+) SetToBag({d})
    OBVIOUS
  <2>2. DOMAIN V = DOMAIN network \cup {d}
    BY <2>1, BagLemma
  <2> QED BY <1>21, <2>1, <2>2
<1>23. ClosedOnRequest'
  BY <1>1, ClosedSame DEF Requested
<1>24. PICK X : X = {d}
  OBVIOUS
<1>25. (\A u \in X : Mild(B, u)) /\ DOMAIN network' \subseteq DOMAIN network \cup X
  BY <1>20, <1>22, <1>24
<1>26. B = Bonds' /\ More(B, B) /\ n = Len(connects') /\ n <= n
  BY <1>1, <1>2, MoreSame
<1>27. hosts' = [hosts EXCEPT ![h] = m]
  BY <1>21
<1> QED BY <1>1, <1>2, <1>13, <1>23, <1>25, <1>26, <1>27, RequestedStep

\* A DISCONNECT is flushed.
LEMMA FlushedMildly ==
    ASSUME NEW h \in HOSTS, NEW s \in Slots(h), NEW n \in Nat, NEW g \in HOSTS,
           h # SERVER => g = h,
           NEW B, B[g].guest = g, B[g].asked # {},
           NEW p \in Meek(h, n, B[g]), p.state # "DISCONNECTED",
           network' = network (+) Flushed(h, s, p)
    PROVE  \E d : Mild(B, d) /\ DOMAIN network' \subseteq DOMAIN network \cup {d}
<1>1. PICK c : c = Command(p, "DISCONNECT", 0, Nobody, FALSE)
  OBVIOUS
<1>2. Tame(B[g], c)
  BY <1>1 DEF Command, Tame
<1>3. PICK w : w = <<c>>
  OBVIOUS
<1>4. \A i \in 1..Len(w) : Tame(B[g], w[i])
  <2>1. \A i \in 1..Len(w) : w[i] = c
    BY <1>3
  <2> QED BY <1>2, <2>1
<1>5. PICK d : d = Datagram(h, p, w)
  OBVIOUS
<1>6. Mild(B, d)
  BY <1>4, <1>5, SpeaksMildly
<1>7. PICK V : V = network (+) SetToBag({d})
  OBVIOUS
<1>8. DOMAIN V = DOMAIN network \cup {d}
  BY <1>7, BagLemma
<1>9. network' = V
  BY <1>1, <1>3, <1>5, <1>7 DEF Flushed
<1> QED BY <1>6, <1>8, <1>9

\* An application asks, for a peer in use.
LEMMA AskedPeer ==
    ASSUME Inv, Requested, NEW h \in HOSTS, NEW s \in Slots(h),
           hosts[h].peers[s].state # "DISCONNECTED", Asks(h, s)
    PROVE  /\ DOMAIN hosts = HOSTS /\ connects' = connects /\ ClosedOnRequest'
           /\ \E n, x, host, g, C, p :
                 /\ n \in Nat /\ x \in Nat /\ n = Len(connects)
                 /\ host = hosts[h] /\ host \in Tallied(h, n, x)
                 /\ host.peers \in [Slots(h) -> Peer(n)]
                 /\ C = Bonds' /\ More(Bonds, C)
                 /\ g \in HOSTS /\ (h # SERVER => g = h) /\ C[g].guest = g /\ C[g].asked # {}
                 /\ Gentle(h, n, C, host)
                 /\ p = host.peers[s] /\ p \in Meek(h, n, C[g]) /\ p \in Peer(n)
                 /\ p.state # "DISCONNECTED"
<1>1. PICK n, x, host, g, B, p :
         /\ n \in Nat /\ x \in Nat /\ n = Len(connects)
         /\ host = hosts[h] /\ host \in Tallied(h, n, x)
         /\ host.peers \in [Slots(h) -> Peer(n)]
         /\ B = Bonds /\ g \in HOSTS /\ (h # SERVER => g = h) /\ B[g].guest = g
         /\ Gentle(h, n, B, host)
         /\ p = host.peers[s] /\ p \in Meek(h, n, B[g]) /\ p \in Peer(n)
  BY RequestedPeer
<1>2. /\ DOMAIN hosts = HOSTS /\ connects' = connects /\ events' = events
      /\ asked' = asked \cup {p.connect_id}
  BY <1>1 DEF Inv, Asks, bounds
<1>3. PICK C : C = Bonds'
  OBVIOUS
<1>4. /\ More(B, C) /\ C[g].guest = g /\ C[g].ids = B[g].ids
      /\ C[g].asked = B[g].ids \cap asked'
  BY <1>1, <1>2, <1>3, BondsMore
<1>5. p.state # "DISCONNECTED" /\ p.connect_id \in B[g].ids
  BY <1>1, MeekFields, PeerFields
<1>6. C[g].asked # {}
  BY <1>2, <1>4, <1>5
<1>7. Gentle(h, n, C, host)
  BY <1>1, <1>4, GentleMore
<1>8. p \in Meek(h, n, C[g])
  <2>1. /\ B[g].guest = C[g].guest /\ B[g].ids \subseteq C[g].ids
        /\ B[g].asked \subseteq C[g].asked
    BY <1>1, <1>4 DEF More
  <2> QED BY <1>1, <2>1, MeekMore
<1>9. ClosedOnRequest'
  BY <1>2, ClosedSame DEF Requested
<1>10. /\ n \in Nat /\ x \in Nat /\ n = Len(connects)
       /\ host = hosts[h] /\ host \in Tallied(h, n, x)
       /\ host.peers \in [Slots(h) -> Peer(n)]
       /\ C = Bonds' /\ More(Bonds, C)
       /\ g \in HOSTS /\ (h # SERVER => g = h) /\ C[g].guest = g /\ C[g].asked # {}
       /\ Gentle(h, n, C, host)
       /\ p = host.peers[s] /\ p \in Meek(h, n, C[g]) /\ p \in Peer(n)
       /\ p.state # "DISCONNECTED"
  BY <1>1, <1>3, <1>4, <1>5, <1>6, <1>7, <1>8
<1> QED BY <1>2, <1>9, <1>10

\* It may be told, or the network.
LEMMA AskedStep ==
    ASSUME Requested, DOMAIN hosts = HOSTS, connects' = connects, ClosedOnRequest',
           NEW n \in Nat, n = Len(connects), NEW C, C = Bonds', More(Bonds, C),
           NEW h \in HOSTS, NEW s \in Slots(h),
           NEW g \in HOSTS, h # SERVER => g = h, C[g].guest = g, C[g].asked # {},
           NEW host, host.peers \in [Slots(h) -> Peer(n)], Gentle(h, n, C, host),
           NEW q \in Meek(h, n, C[g]), NEW m, Puts(host, m, s, q),
           hosts' = [hosts EXCEPT ![h] = m],
           NEW p \in Meek(h, n, C[g]), p.state # "DISCONNECTED",
           network' = network \/ network' = network (+) Flushed(h, s, p)
    PROVE  Requested'
<1>1. Gentle(h, n, C, m)
  BY PutGentle
<1>2. PICK X : DOMAIN network' \subseteq DOMAIN network \cup X /\ \A d \in X : Mild(C, d)
  <2>1. CASE network' = network
    <3>1. PICK X : X = {}
      OBVIOUS
    <3>2. DOMAIN network' \subseteq DOMAIN network \cup X /\ \A d \in X : Mild(C, d)
      BY <2>1, <3>1
    <3> QED BY <3>2
  <2>2. CASE network' = network (+) Flushed(h, s, p)
    <3>1. PICK d : Mild(C, d) /\ DOMAIN network' \subseteq DOMAIN network \cup {d}
      BY <2>2, FlushedMildly
    <3>2. PICK X : X = {d}
      OBVIOUS
    <3>3. DOMAIN network' \subseteq DOMAIN network \cup X /\ \A u \in X : Mild(C, u)
      BY <3>1, <3>2
    <3> QED BY <3>3
  <2> QED BY <2>1, <2>2
<1>3. n = Len(connects') /\ n <= n
  OBVIOUS
<1>4. PICK B : B = Bonds /\ More(B, C)
  OBVIOUS
<1> QED BY <1>1, <1>2, <1>3, <1>4, RequestedStep

LEMMA DisconnectLaterRequested ==
    ASSUME Inv, Requested, NEW h \in HOSTS, h # SERVER, NEW s \in Slots(h),
           DisconnectLater(h, s)
    PROVE  Requested'
<1>1. Asks(h, s) /\ hosts[h].peers[s].state # "DISCONNECTED"
  BY DEF DisconnectLater, Counted, CountedStates
<1>2. DOMAIN hosts = HOSTS /\ connects' = connects /\ ClosedOnRequest'
  BY <1>1, AskedPeer
<1>3. PICK n, x, host, g, C, p :
         /\ n \in Nat /\ x \in Nat /\ n = Len(connects)
         /\ host = hosts[h] /\ host \in Tallied(h, n, x)
         /\ host.peers \in [Slots(h) -> Peer(n)]
         /\ C = Bonds' /\ More(Bonds, C)
         /\ g \in HOSTS /\ (h # SERVER => g = h) /\ C[g].guest = g /\ C[g].asked # {}
         /\ Gentle(h, n, C, host)
         /\ p = host.peers[s] /\ p \in Meek(h, n, C[g]) /\ p \in Peer(n)
         /\ p.state # "DISCONNECTED"
  BY <1>1, AskedPeer
<1>4. PICK b : b = C[g] /\ p \in Meek(h, n, b) /\ b.asked # {}
  BY <1>3
<1>5. PICK l \in Meek(h, n, b) : l = ResetPeerQueues(p) /\ l.state = p.state /\ Mute(l)
  BY <1>3, <1>4, MeekResetsQueues
<1>6. PICK m, q :
         /\ q \in Meek(h, n, b) /\ Puts(host, m, s, q) /\ hosts' = [hosts EXCEPT ![h] = m]
         /\ network' = network \/ network' = network (+) Flushed(h, s, l)
  <2>1. CASE /\ hosts' = [hosts EXCEPT ![h].peers[s].state = "DISCONNECT_LATER"]
             /\ network' = network
    <3>1. PICK st \in States : st = "DISCONNECT_LATER" /\ st # "DISCONNECTED"
      BY DEF States
    <3>2. PICK o \in Peer(n) : o = [p EXCEPT !.state = st] /\ o.state = st
      BY <1>3, <3>1, StateUpdate
    <3>3. OnlyState(p, o)
      BY <3>2 DEF OnlyState
    <3>4. o \in Meek(h, n, b)
      BY <1>3, <1>4, <3>3, MeekTurns
    <3>5. PICK m : m = UpdatePeer(host, s, o)
      OBVIOUS
    <3>6. Puts(host, m, s, o)
      BY <1>3, <3>5 DEF Puts, UpdatePeer, Tallied, Host
    <3>7. hosts' = [hosts EXCEPT ![h] = m]
      BY <1>3, <2>1, <3>1, <3>2, <3>5 DEF UpdatePeer
    <3> QED BY <2>1, <3>4, <3>6, <3>7
  <2>2. CASE /\ hosts' = [hosts EXCEPT ![h] = DisconnectConnected(@, s)]
             /\ network' = network
    <3>1. PICK m : m = DisconnectConnected(host, s)
      OBVIOUS
    <3>2. host.peers[s].state # "DISCONNECTED"
      BY <1>3
    <3>3. PICK o \in Peer(n) : /\ o.state = "DISCONNECTING" /\ OnlyState(Leaving(p), o)
                              /\ Puts(host, m, s, o)
      BY <1>3, <3>1, <3>2, DisconnectConnectedLemma
    <3>4. PICK v \in Meek(h, n, b) : v = Leaving(p) /\ v.state = p.state
      <4>1. n \in Nat
        BY <1>3
      <4> QED BY <1>4, <4>1, MeekLeaves, ZenonT(40)
    <3>5. o \in Meek(h, n, b)
      <4>1. OnlyState(v, o) /\ v.state # "DISCONNECTED"
        BY <1>3, <3>3, <3>4
      <4> QED BY <1>3, <1>4, <4>1, MeekTurns
    <3>6. hosts' = [hosts EXCEPT ![h] = m]
      BY <1>2, <1>3, <2>2, <3>1
    <3> QED BY <2>2, <3>3, <3>5, <3>6
  <2>3. CASE DisconnectAtOnce(h, s)
    <3>1. PICK o \in Meek(h, n, b) : o = Reset(l)
      BY <1>3, <1>5, MeekResets
    <3>2. PICK m : m = UpdatePeer(host, s, o)
      OBVIOUS
    <3>3. Puts(host, m, s, o)
      BY <1>3, <3>2 DEF Puts, UpdatePeer, Tallied, Host
    <3>4. hosts' = [hosts EXCEPT ![h] = m] /\ network' = network (+) Flushed(h, s, l)
      BY <1>2, <1>3, <1>5, <2>3, <3>1, <3>2 DEF DisconnectAtOnce
    <3> QED BY <3>3, <3>4
  <2> QED BY <1>3, <2>1, <2>2, <2>3 DEF DisconnectLater
<1>7. l.state # "DISCONNECTED"
  BY <1>3, <1>5
<1> QED BY <1>2, <1>3, <1>4, <1>5, <1>6, <1>7, AskedStep, ZenonT(40)

LEMMA DisconnectNowRequested ==
    ASSUME Inv, Requested, NEW h \in HOSTS, NEW s \in Slots(h), DisconnectNow(h, s)
    PROVE  Requested'
<1>1. Asks(h, s) /\ hosts[h].peers[s].state # "DISCONNECTED"
  BY DEF DisconnectNow
<1>2. DOMAIN hosts = HOSTS /\ connects' = connects /\ ClosedOnRequest'
  BY <1>1, AskedPeer
<1>3. PICK n, x, host, g, C, p :
         /\ n \in Nat /\ x \in Nat /\ n = Len(connects)
         /\ host = hosts[h] /\ host \in Tallied(h, n, x)
         /\ host.peers \in [Slots(h) -> Peer(n)]
         /\ C = Bonds' /\ More(Bonds, C)
         /\ g \in HOSTS /\ (h # SERVER => g = h) /\ C[g].guest = g /\ C[g].asked # {}
         /\ Gentle(h, n, C, host)
         /\ p = host.peers[s] /\ p \in Meek(h, n, C[g]) /\ p \in Peer(n)
         /\ p.state # "DISCONNECTED"
  BY <1>1, AskedPeer
<1>4. PICK b : b = C[g] /\ p \in Meek(h, n, b)
  BY <1>3
<1>5. PICK l \in Meek(h, n, b) : l = ResetPeerQueues(p) /\ l.state = p.state /\ Mute(l)
  BY <1>3, <1>4, MeekResetsQueues
<1>6. PICK o \in Meek(h, n, b) :
         /\ hosts' = [hosts EXCEPT ![h] = UpdatePeer(host, s, o)]
         /\ network' = network \/ network' = network (+) Flushed(h, s, l)
  <2>1. CASE DisconnectAtOnce(h, s)
    <3>1. PICK o \in Meek(h, n, b) : o = Reset(l)
      BY <1>3, <1>5, MeekResets
    <3> QED BY <1>2, <1>3, <1>5, <2>1, <3>1 DEF DisconnectAtOnce
  <2>2. CASE /\ p.state \in {"ZOMBIE", "DISCONNECTING"} /\ network' = network
             /\ hosts' = [hosts EXCEPT ![h] = UpdatePeer(@, s, Reset(p))]
    <3>1. h = SERVER => p.state \in Silent
      BY <1>4, <2>2, MeekFields DEF Barred, Silent
    <3>2. PICK o \in Meek(h, n, b) : o = Reset(p)
      BY <1>3, <1>4, <3>1, MeekResets
    <3> QED BY <1>2, <1>3, <2>2, <3>2
  <2> QED BY <1>3, <2>1, <2>2 DEF DisconnectNow
<1>7. PICK m : m = UpdatePeer(host, s, o)
  OBVIOUS
<1>8. Puts(host, m, s, o)
  BY <1>3, <1>7 DEF Puts, UpdatePeer, Tallied, Host
<1>9. l.state # "DISCONNECTED" /\ hosts' = [hosts EXCEPT ![h] = m]
  BY <1>3, <1>5, <1>6, <1>7
<1>10. o \in Meek(h, n, C[g]) /\ l \in Meek(h, n, C[g])
  BY <1>4
<1>11. network' = network \/ network' = network (+) Flushed(h, s, l)
  BY <1>6
<1> QED BY <1>2, <1>3, <1>8, <1>9, <1>10, <1>11, AskedStep

\* The one connection of a guest that is to end.
LEMMA OneAsked ==
    ASSUME NEW e, Suits(e), NEW g \in HOSTS, Bonds[g].asked # {}, NEW id \in Bonds[g].ids
    PROVE  id \in asked
<1>1. PICK j \in Bonds[g].ids : j \in asked
  BY BondFields
<1>2. j = id
  BY OneBond
<1> QED BY <1>1, <1>2

\* A peer that is reset and says nothing.
LEMMA MeekClears ==
    ASSUME NEW h, NEW n \in Nat, NEW b, NEW p \in Peer(n)
    PROVE  ResetPeerQueues(Reset(p)) \in Meek(h, n, b)
<1>1. PICK o \in Peer(n) : o = Reset(p) /\ o.state = "DISCONNECTED"
  BY ResetLemma
<1>2. PICK q : q = ResetPeerQueues(o)
  OBVIOUS
<1>3. q \in Peer(n) /\ q.state = "DISCONNECTED"
  BY <1>1, <1>2, ResetQueuesLemma
<1>4. Mute(q)
  BY <1>1, <1>2 DEF ResetPeerQueues, Peer, Mute
<1>5. q.connect_id = 0
  BY <1>3, PeerFields
<1> QED BY <1>1, <1>2, <1>3, <1>4, <1>5, EmptySequence DEF Meek, Mute, Ending, Barred

LEMMA MeekFlag ==
    ASSUME NEW h, NEW n \in Nat, NEW b, NEW p \in Meek(h, n, b), NEW flag \in BOOLEAN
    PROVE  [p EXCEPT !.needs_dispatch = flag] \in Meek(h, n, b)
<1>1. p \in Peer(n)
  BY MeekFields
<1>2. PICK q \in Peer(n) : q = [p EXCEPT !.needs_dispatch = flag]
  BY <1>1, AfterDispatch
<1>3. /\ q.state = p.state /\ q.address = p.address /\ q.connect_id = p.connect_id
      /\ q.outgoing = p.outgoing /\ q.sent = p.sent
      /\ q.acknowledgements = p.acknowledgements
  BY <1>1, <1>2 DEF Peer
<1>4. q \in Meek(h, n, b)
  BY <1>3, MeekFields, MeekLists
<1> QED BY <1>2, <1>4

LEMMA DispatchRequested ==
    ASSUME Inv, EventsTyped, NEW e, Suits(e), Requested, NEW h \in HOSTS,
           DispatchIncomingCommands(h)
    PROVE  Requested'
<1>1. /\ DOMAIN hosts = HOSTS /\ connects' = connects /\ network' = network /\ asked' = asked
      /\ Bonds' = Bonds
  BY BondsSame DEF DispatchIncomingCommands, bounds, Inv
<1>2. PICK n \in Nat : n = Len(connects)
  BY DEF Inv
<1>3. PICK x \in Nat : hosts[h] \in Tallied(h, n, x)
  BY <1>2 DEF Inv
<1>4. PICK B, host : B = Bonds /\ host = hosts[h]
  OBVIOUS
<1>5. host.peers \in [Slots(h) -> Peer(n)] /\ Gentle(h, n, B, host)
  <2>1. host \in Host(h, n)
    BY <1>3, <1>4 DEF Tallied
  <2>2. Gentle(h, n, B, host)
    BY <1>2, <1>4 DEF Requested
  <2> QED BY <1>2, <2>1, <2>2, HostFields
<1>6. PICK m :
         /\ hosts' = [hosts EXCEPT ![h] = m]
         /\ \A t \in Slots(h) :
               \/ m.peers[t] = ResetPeerQueues(Reset(hosts[h].peers[t]))
               \/ \E flag \in BOOLEAN :
                     m.peers[t] = [hosts[h].peers[t] EXCEPT !.needs_dispatch = flag]
  BY <1>1, <1>2, <1>3, Dispatching
<1>7. ASSUME NEW t \in Slots(h)
      PROVE  \E g \in HOSTS : (h # SERVER => g = h) /\ m.peers[t] \in Meek(h, n, B[g])
  <2>1. PICK p \in Peer(n) : p = hosts[h].peers[t]
    BY <1>4, <1>5
  <2>2. PICK g \in HOSTS : (h # SERVER => g = h) /\ p \in Meek(h, n, B[g])
    BY <1>4, <1>5, <2>1 DEF Gentle
  <2>3. CASE m.peers[t] = ResetPeerQueues(Reset(p))
    BY <1>2, <2>2, <2>3, MeekClears
  <2>4. ASSUME NEW flag \in BOOLEAN, m.peers[t] = [p EXCEPT !.needs_dispatch = flag]
        PROVE  m.peers[t] \in Meek(h, n, B[g])
    BY <1>2, <2>2, <2>4, MeekFlag
  <2> QED BY <1>6, <2>1, <2>2, <2>3, <2>4
<1>8. Gentle(h, n, B, m)
  BY <1>7 DEF Gentle
<1>9. ClosedOnRequest'
  <2>1. CASE events' = events
    BY <1>1, <2>1, ClosedSame DEF Requested
  <2>2. ASSUME NEW event \in Tidings(n), NEW t \in Slots(h), event.type = "DISCONNECT",
               IsTold(h, event), hosts[h].peers[t].state = "ZOMBIE",
               event.connect_id = hosts[h].peers[t].connect_id
        PROVE  ClosedOnRequest'
    <3>1. PICK p \in Peer(n) : p = hosts[h].peers[t]
      BY <1>4, <1>5
    <3>2. PICK g \in HOSTS : p \in Meek(h, n, B[g])
      BY <1>4, <1>5, <3>1 DEF Gentle
    <3>3. B[g].asked # {} /\ p.connect_id \in B[g].ids
      <4>1. p.state = "ZOMBIE" /\ p.connect_id # 0
        BY <1>2, <2>2, <3>1, PeerFields
      <4>2. p.state \in Ending
        BY <4>1 DEF Ending
      <4> QED BY <3>2, <4>1, <4>2, MeekFields
    <3>4. event.connect_id \in asked
      BY <1>4, <2>2, <3>1, <3>3, OneAsked
    <3> QED BY <1>1, <1>2, <2>2, <3>4, ClosedTold DEF Requested
  <2> QED BY <1>1, <1>2, <1>3, <2>1, <2>2, Dispatching
<1>10. PICK X : X = {} /\ DOMAIN network' \subseteq DOMAIN network \cup X
  BY <1>1
<1>11. (\A d \in X : Mild(B, d)) /\ B = Bonds' /\ More(B, B) /\ n = Len(connects') /\ n <= n
  BY <1>1, <1>2, <1>4, <1>10, MoreSame
<1> QED BY <1>1, <1>2, <1>4, <1>6, <1>8, <1>9, <1>10, <1>11, RequestedStep

\* A guest begins its attempt.
LEMMA MeekAttempt ==
    ASSUME NEW h \in HOSTS, h # SERVER, NEW n \in Nat, NEW b, NEW p \in Meek(h, n, b),
           NEW s \in Nat, NEW id \in b.ids, id \in 1..n
    PROVE  QueueOutgoingCommand([p EXCEPT !.state = "CONNECTING", !.address = SERVER,
                                          !.connect_id = id], "CONNECT", id, s)
              \in Meek(h, n, b)
<1>1. p \in Peer(n) /\ id \in 0..n /\ id # 0
  BY MeekFields
<1>2. PICK st \in States, from \in HOSTS : st = "CONNECTING" /\ from = SERVER
  BY LifecycleAssumption DEF States
<1>3. PICK o : o = [p EXCEPT !.state = st, !.address = from, !.connect_id = id]
  OBVIOUS
<1>4. /\ o \in Peer(n) /\ o.state = st /\ o.address = from /\ o.connect_id = id
      /\ o.number = p.number /\ o.outgoing = p.outgoing
      /\ o.sent = p.sent /\ o.acknowledgements = p.acknowledgements
  BY <1>1, <1>2, <1>3 DEF Peer
<1>5. PICK S : S = Orders(h, n, b, st)
  OBVIOUS
<1>6. Orders(h, n, b, p.state) = S /\ Replies(h, b, p.state) = Replies(h, b, st)
  BY <1>5 DEF Orders, Replies
<1>7. PICK v : v = Command(o, "CONNECT", id, s, TRUE)
  OBVIOUS
<1>8. v \in S
  <2>1. "CONNECT" \in Types
    BY DEF Types
  <2>2. v \in Control(n)
    BY <1>1, <1>4, <1>7, <2>1, CommandLemma
  <2>3. v.type = "CONNECT"
    BY <1>7 DEF Command
  <2> QED BY <1>5, <2>2, <2>3 DEF Orders
<1>9. PICK l \in Seq(S) : l = Append(o.outgoing, v)
  <2>1. PICK a \in Seq(S) : a = o.outgoing
    BY <1>4, <1>6, MeekFields
  <2> QED BY <1>8, <2>1, AppendIn
<1>10. PICK k \in Nat : k = o.number + 1
  BY <1>4, PeerFields
<1>11. PICK q : q = [o EXCEPT !.number = k, !.outgoing = l]
  OBVIOUS
<1>12. QueueOutgoingCommand(o, "CONNECT", id, s) = q
  BY <1>7, <1>9, <1>10, <1>11 DEF QueueOutgoingCommand
<1>13. PICK u \in Seq(Control(n)) : u = l
  BY <1>5, <1>9, WordsFit
<1>14. /\ q \in Peer(n) /\ q.state = st /\ q.connect_id = id /\ q.outgoing = l
       /\ q.sent = p.sent /\ q.acknowledgements = p.acknowledgements
  BY <1>4, <1>10, <1>11, <1>13 DEF Peer
<1>15. st \notin Ending
  BY <1>2 DEF Ending
<1>16. /\ q.outgoing \in Seq(Orders(h, n, b, q.state)) /\ q.sent \in Seq(Orders(h, n, b, q.state))
       /\ q.acknowledgements \in Seq(Replies(h, b, q.state))
  BY <1>5, <1>6, <1>9, <1>14, MeekFields
<1>17. q \in Meek(h, n, b)
  BY <1>14, <1>15, <1>16 DEF Meek
<1> QED BY <1>2, <1>3, <1>12, <1>17

LEMMA ConnectRequested ==
    ASSUME Inv, Requested, NEW h \in HOSTS, Connect(h)
    PROVE  Requested'
<1> DEFINE free == {s \in Slots(h) : hosts[h].peers[s].state = "DISCONNECTED"}
<1>1. /\ connects \in Seq(HOSTS) /\ connects' = Append(connects, h) /\ h # SERVER
      /\ network' = network /\ events' = events /\ asked' = asked /\ DOMAIN hosts = HOSTS
  BY DEF Inv, Connect
<1>2. PICK s \in Slots(h) : s = Min(free) /\ s \in Nat
  <2>1. free \in SUBSET Nat /\ free # {}
    BY SlotsLemma DEF Connect
  <2>2. Min(free) \in free
    <3> HIDE DEF free
    <3> QED BY <2>1, MinOfSet
  <2> QED BY <2>1, <2>2
<1>3. PICK n, x, host, g, B, p :
         /\ n \in Nat /\ x \in Nat /\ n = Len(connects)
         /\ host = hosts[h] /\ host \in Tallied(h, n, x)
         /\ host.peers \in [Slots(h) -> Peer(n)]
         /\ B = Bonds /\ g \in HOSTS /\ (h # SERVER => g = h) /\ B[g].guest = g
         /\ Gentle(h, n, B, host)
         /\ p = host.peers[s] /\ p \in Meek(h, n, B[g]) /\ p \in Peer(n)
  BY RequestedPeer
<1>4. PICK k, C : k = n + 1 /\ C = Bonds'
  OBVIOUS
<1>5. /\ k \in Nat /\ n <= k /\ k \in 1..k
      /\ k = Len(connects') /\ DOMAIN connects' = 1..k /\ connects'[k] = h
      /\ \A i \in DOMAIN connects : i \in DOMAIN connects' /\ connects'[i] = connects[i]
  <2>1. PICK q \in Seq(HOSTS) : q = connects
    BY <1>1
  <2>2. PICK r : r = Append(q, h)
    OBVIOUS
  <2>3. /\ Len(r) = Len(q) + 1 /\ DOMAIN r = 1..(Len(q) + 1) /\ r[Len(q) + 1] = h
        /\ \A i \in DOMAIN q : i \in DOMAIN r /\ r[i] = q[i]
    BY <2>2
  <2> QED BY <1>1, <1>3, <1>4, <2>1, <2>2, <2>3
<1>6. More(B, C) /\ k \in C[h].ids
  <2>1. ASSUME NEW f \in HOSTS
        PROVE  /\ C[f].guest = f /\ C[f].ids = {i \in DOMAIN connects' : connects'[i] = f}
               /\ C[f].asked = C[f].ids \cap asked'
    BY <1>4 DEF Bonds
  <2>2. ASSUME NEW f \in HOSTS
        PROVE  /\ B[f].guest = f /\ B[f].ids = {i \in DOMAIN connects : connects[i] = f}
               /\ B[f].asked = B[f].ids \cap asked
    BY <1>3, BondFields
  <2> QED BY <1>1, <1>5, <2>1, <2>2 DEF More
<1>7. Gentle(h, k, C, host)
  BY <1>3, <1>5, <1>6, GentleMore
<1>8. p \in Meek(h, k, C[h])
  <2>1. /\ B[h].guest = C[h].guest /\ B[h].ids \subseteq C[h].ids
        /\ B[h].asked \subseteq C[h].asked
    BY <1>6 DEF More
  <2>2. p \in Meek(h, n, B[h])
    BY <1>1, <1>3
  <2> QED BY <1>3, <1>5, <2>1, <2>2, MeekMore
<1>9. PICK q : q = QueueOutgoingCommand([p EXCEPT !.state = "CONNECTING", !.address = SERVER,
                                                  !.connect_id = k], "CONNECT", k, s)
  OBVIOUS
<1>10. q \in Meek(h, k, C[h])
  BY <1>1, <1>2, <1>5, <1>6, <1>8, <1>9, MeekAttempt
<1>11. PICK m : m = UpdatePeer(host, s, q)
  OBVIOUS
<1>12. Puts(host, m, s, q)
  BY <1>3, <1>11 DEF Puts, UpdatePeer, Tallied, Host
<1>13. Gentle(h, k, C, m)
  BY <1>3, <1>7, <1>10, <1>12, PutGentle
<1>14. hosts' = [hosts EXCEPT ![h] = m]
  BY <1>2, <1>3, <1>4, <1>9, <1>11 DEF Connect
<1>15. ClosedOnRequest'
  BY <1>1, ClosedSame DEF Requested
<1>16. PICK X : X = {} /\ DOMAIN network' \subseteq DOMAIN network \cup X
  BY <1>1
<1>17. \A d \in X : Mild(C, d)
  BY <1>16
<1> QED BY <1>1, <1>3, <1>4, <1>5, <1>6, <1>13, <1>14, <1>15, <1>16, <1>17, RequestedStep

\* No host changes.
LEMMA SameRequests ==
    ASSUME Requested, hosts' = hosts, connects' = connects, asked' = asked, events' = events,
           DOMAIN network' \subseteq DOMAIN network
    PROVE  Requested'
<1>1. Bonds' = Bonds
  BY BondsSame
<1>2. ClosedOnRequest'
  BY ClosedSame DEF Requested
<1> QED BY <1>1, <1>2 DEF Requested

LEMMA ReceiveRequested ==
    ASSUME Inv, EventsTyped, NEW e \in Accounts, Suits(e), Requested, NEW h \in HOSTS,
           NEW d \in DOMAIN network, ReceiveIncomingCommands(h, d),
           DOMAIN network' \subseteq DOMAIN network
    PROVE  Requested'
<1>1. /\ DOMAIN hosts = HOSTS /\ connects' = connects /\ asked' = asked /\ d.to = h
      /\ Bonds' = Bonds
  BY BondsSame DEF ReceiveIncomingCommands, Inv
<1>2. PICK n \in Nat : n = Len(connects) /\ n = Len(e.asked)
  BY AccountFields DEF Suits
<1>3. PICK x \in Nat : hosts[h] \in Tallied(h, n, x)
  BY <1>2 DEF Inv
<1>4. PICK B, host : B = Bonds /\ host = hosts[h]
  OBVIOUS
<1>5. Gentle(h, n, B, host)
  BY <1>2, <1>4 DEF Requested
<1>6. d \in Fits(e) /\ d \in Datagrams(n) /\ d.from \in HOSTS /\ Mild(B, d)
  BY <1>2, <1>4 DEF Suits, Requested, Fits, Datagrams
<1>7. PICK X : X = {} /\ DOMAIN network' \subseteq DOMAIN network \cup X
  OBVIOUS
<1>8. (\A u \in X : Mild(B, u)) /\ B = Bonds' /\ More(B, B) /\ n = Len(connects') /\ n <= n
  BY <1>1, <1>2, <1>4, <1>7, MoreSame
<1>9. Requested' \/ \E m : hosts' = [hosts EXCEPT ![h] = m] /\ Gentle(h, n, B, m) /\ ClosedOnRequest'
  <2>1. CASE ~(d.slot = Nobody \/ EventOccur(h, d))
    <3>1. hosts' = hosts /\ events' = events
      BY <2>1 DEF ReceiveIncomingCommands
    <3> QED BY <1>1, <3>1, SameRequests
  <2>2. CASE d.slot = Nobody \/ EventOccur(h, d)
    <3>1. PICK g \in HOSTS : g = Partner(d)
      BY <1>6 DEF Mild
    <3>2. PICK b : b = B[g] /\ b.guest = g /\ b.ids = {i \in DOMAIN connects : connects[i] = g}
      BY <1>4, BondFields
    <3>3. \A i, j \in b.ids : i = j
      BY <1>4, <3>2, OneBond
    <3>4. IF h = SERVER THEN d.from = g ELSE h = g
      <4>1. h = SERVER => d.from # SERVER
        BY <1>1, <1>6 DEF Fits, FromServer, Guests
      <4>2. h # SERVER => d.from = SERVER
        BY <1>1, <1>6 DEF Fits, FromGuest
      <4> QED BY <1>1, <3>1, <4>1, <4>2 DEF Partner
    <3>5. ASSUME NEW i \in 1..Len(d.commands) PROVE Apt(h, b, d.commands[i])
      <4>1. PICK c : c = d.commands[i] /\ Tame(b, c)
        BY <1>6, <3>1, <3>2 DEF Mild
      <4>2. CASE h = SERVER
        <5>1. c \in GuestWords(e, g, d.slot)
          BY <1>1, <1>6, <3>4, <4>1, <4>2 DEF Fits, FromGuest, FromServer, Guests
        <5>2. c.type # "VERIFY_CONNECT" /\ (c.type = "CONNECT" => Owns(e, g, c.connect_id))
          BY <5>1 DEF GuestWords, GuestCommands, Acks
        <5>3. c.type = "CONNECT" => c.connect_id \in b.ids
          BY <3>2, <5>2 DEF Owns, Suits
        <5> QED BY <4>1, <4>2, <5>2, <5>3 DEF Apt, Tame
      <4>3. CASE h # SERVER
        <5>1. c \in Acks(n) \cup ServerCommands(n)
          <6>1. FromServer(n, d)
            BY <1>1, <1>2, <1>6, <4>3 DEF Fits, FromGuest
          <6>2. PICK k \in 0..Len(d.commands) :
                   /\ \A j \in 1..k : d.commands[j] \in Acks(n)
                   /\ \A j \in (k + 1)..Len(d.commands) : d.commands[j] \in ServerCommands(n)
            BY <6>1 DEF FromServer
          <6>3. Len(d.commands) \in Nat
            BY <1>6, DatagramFields
          <6>4. i \in 1..k \/ i \in (k + 1)..Len(d.commands)
            BY <6>2, <6>3
          <6> QED BY <4>1, <6>2, <6>4
        <5>2. c.type # "CONNECT"
          BY <5>1 DEF Acks, ServerCommands
        <5> QED BY <4>1, <4>3, <5>2 DEF Apt, Tame
      <4> QED BY <4>1, <4>2, <4>3
    <3>6. IF h = SERVER THEN \A t \in Slots(h) : \E v : hosts[h].peers[t] \in Meek(h, n, v)
                        ELSE \A t \in Slots(h) : hosts[h].peers[t] \in Meek(h, n, b)
      BY <1>4, <1>5, <3>2, <3>4 DEF Gentle
    <3>7. ASSUME d.slot \in Slots(h) PROVE hosts[h].peers[d.slot] \in Meek(h, n, b)
      <4>1. PICK p : p = hosts[h].peers[d.slot]
        OBVIOUS
      <4>2. CASE h # SERVER
        BY <3>6, <3>7, <4>2
      <4>3. CASE h = SERVER
        <5>1. d.slot # Nobody
          BY <3>7, SlotsLemma
        <5>2. p.state # "DISCONNECTED" /\ p.address = d.from
          BY <2>2, <4>1, <5>1 DEF EventOccur, Sendable
        <5>3. PICK f \in HOSTS : p \in Meek(h, n, B[f])
          BY <1>4, <1>5, <3>7, <4>1 DEF Gentle
        <5>4. p.address = B[f].guest
          BY <4>3, <5>2, <5>3, MeekFields
        <5>5. B[f].guest = f
          BY <1>4, BondFields
        <5> QED BY <3>2, <3>4, <4>1, <4>3, <5>2, <5>3, <5>4, <5>5
      <4> QED BY <4>2, <4>3
    <3>8. h = SERVER => d.from = b.guest
      BY <3>2, <3>4
    <3>9. PICK walk : walk = Received(h, d)
      OBVIOUS
    <3>10. Serene(h, n, b, hosts[h], walk)
      BY <1>2, <1>3, <1>6, <2>2, <3>3, <3>5, <3>6, <3>7, <3>8, <3>9, ReceivedSerenely
    <3>11. PICK m, event : m = walk.host /\ event = walk.event
      OBVIOUS
    <3>12. hosts' = [hosts EXCEPT ![h] = m] /\ IsTold(h, event)
      BY <2>2, <3>9, <3>11 DEF ReceiveIncomingCommands
    <3>13. event \in Tidings(n)
      <4>1. d.slot \in Slots(h) \cup {Nobody}
        BY <2>2 DEF EventOccur
      <4> QED BY <1>2, <1>3, <1>6, <3>9, <3>11, <4>1, ReceivedLemma, WalkFields
    <3>14. Gentle(h, n, B, m)
      <4>1. ASSUME NEW t \in Slots(h)
            PROVE  \E f \in HOSTS : (h # SERVER => f = h) /\ m.peers[t] \in Meek(h, n, B[f])
        <5>1. m.peers[t] \in {host.peers[t]} \cup Meek(h, n, b)
          BY <1>4, <3>10, <3>11 DEF Serene
        <5>2. CASE m.peers[t] \in Meek(h, n, b)
          BY <3>2, <3>4, <5>2
        <5>3. CASE m.peers[t] = host.peers[t]
          BY <1>5, <5>3 DEF Gentle
        <5> QED BY <5>1, <5>2, <5>3
      <4> QED BY <4>1 DEF Gentle
    <3>15. ClosedOnRequest'
      <4>1. event.type = "DISCONNECT" => event.connect_id \in asked
        BY <1>4, <3>2, <3>10, <3>11, OneAsked DEF Serene
      <4> QED BY <1>1, <1>2, <3>12, <3>13, <4>1, ClosedTold DEF Requested
    <3> QED BY <3>12, <3>14, <3>15
  <2> QED BY <2>1, <2>2
<1>10. CASE \E m : hosts' = [hosts EXCEPT ![h] = m] /\ Gentle(h, n, B, m) /\ ClosedOnRequest'
  <2>1. PICK m : hosts' = [hosts EXCEPT ![h] = m] /\ Gentle(h, n, B, m) /\ ClosedOnRequest'
    BY <1>10
  <2> QED BY <1>1, <1>2, <1>4, <1>7, <1>8, <2>1, RequestedStep
<1> QED BY <1>9, <1>10

LEMMA InitRequested == Init => Requested
<1> SUFFICES ASSUME Init PROVE Requested
  OBVIOUS
<1>1. connects = <<>> /\ network = EmptyBag /\ Len(<<>>) = 0
  BY DEF Init
<1>2. ASSUME NEW h \in HOSTS PROVE Gentle(h, Len(connects), Bonds, hosts[h])
  <2>1. PICK n, B : n \in Nat /\ n = Len(connects) /\ B = Bonds
    BY <1>1
  <2>2. PICK p \in Peer(n) : p = EmptyPeer
    BY <2>1, EmptyPeerLemma
  <2>3. p.state = "DISCONNECTED" /\ p.connect_id = 0 /\ Mute(p)
    BY <2>2 DEF EmptyPeer, Mute
  <2>4. p \in Meek(h, n, B[h])
    BY <2>2, <2>3, EmptySequence DEF Meek, Mute, Ending, Barred
  <2>5. ASSUME NEW s \in Slots(h) PROVE hosts[h].peers[s] = p
    BY <2>2 DEF Init
  <2> QED BY <2>1, <2>4, <2>5 DEF Gentle
<1>3. DOMAIN network = {}
  BY <1>1 DEF EmptyBag, SetToBag
<1>4. ClosedOnRequest
  <2>1. ASSUME NEW h \in HOSTS PROVE DOMAIN events[h] = {}
    BY DEF Init
  <2> QED BY <2>1 DEF ClosedOnRequest
<1> QED BY <1>2, <1>3, <1>4 DEF Requested

\* The server's application closes at once, if it closes.
ServerClosesAtOnce == "later" \notin Ways[SERVER]

LEMMA NextRequested ==
    ASSUME ServerClosesAtOnce
    PROVE  Inv /\ BothEnds /\ Requested /\ [Next]_vars => Requested'
<1> SUFFICES ASSUME Inv, BothEnds, Requested, [Next]_vars PROVE Requested'
  OBVIOUS
<1> PICK e \in Accounts : Suits(e)
  BY DEF BothEnds
<1> EventsTyped
  BY DEF BothEnds
<1>1. ASSUME NEW h \in HOSTS, Connect(h) PROVE Requested'
  BY <1>1, ConnectRequested
<1>2. ASSUME NEW h \in HOSTS, DispatchIncomingCommands(h) PROVE Requested'
  BY <1>2, DispatchRequested
<1>3. ASSUME NEW h \in HOSTS, NEW s \in Slots(h), DisconnectLater(h, s) PROVE Requested'
  <2>1. h # SERVER
    BY <1>3 DEF DisconnectLater, ServerClosesAtOnce
  <2> QED BY <1>3, <2>1, DisconnectLaterRequested
<1>4. ASSUME NEW h \in HOSTS, NEW s \in Slots(h), DisconnectNow(h, s) PROVE Requested'
  BY <1>4, DisconnectNowRequested
<1>5. ASSUME NEW h \in HOSTS, NEW s \in Slots(h), NEW expired, NEW ping \in BOOLEAN,
             SendOutgoingCommands(h, s, expired, ping)
      PROVE  Requested'
  BY <1>5, SendRequested
<1>6. ASSUME NEW d \in DOMAIN network, Lose(d) PROVE Requested'
  <2>1. PICK B : B = network (-) SetToBag({d}) /\ network' = B
    BY <1>6 DEF Lose
  <2>2. DOMAIN B \subseteq DOMAIN network
    BY <2>1, BagLemma
  <2> QED BY <1>6, <2>1, <2>2, SameRequests DEF Lose
<1>7. ASSUME NEW d \in DOMAIN network, NEW h \in HOSTS, Receive(h, d) PROVE Requested'
  <2>1. PICK B : B = network (-) SetToBag({d}) /\ network' = B
    BY <1>7 DEF Receive
  <2>2. DOMAIN B \subseteq DOMAIN network
    BY <2>1, BagLemma
  <2> QED BY <1>7, <2>1, <2>2, ReceiveRequested DEF Receive
<1>8. ASSUME NEW d \in DOMAIN network, NEW h \in HOSTS, ReceiveAndKeep(h, d) PROVE Requested'
  <2>1. network' = network /\ ReceiveIncomingCommands(h, d)
    BY <1>8 DEF ReceiveAndKeep
  <2> QED BY <2>1, ReceiveRequested
<1>9. CASE UNCHANGED vars
  BY <1>9, SameRequests DEF vars, bounds
<1> QED BY <1>1, <1>2, <1>3, <1>4, <1>5, <1>6, <1>7, <1>8, <1>9 DEF Next

\* While each guest calls Connect once and the server's application closes with
\* DisconnectNow, if at all, nobody hears that a connection is closed before an
\* application asks: neither a late VERIFY_CONNECT nor what an earlier
\* connection left in a slot makes a zombie of a peer, however often datagrams
\* are lost, repeated or reordered.
THEOREM ClosedOnlyOnRequest ==
    ASSUME OneAttempt, ServerClosesAtOnce PROVE Spec => []ClosedOnRequest
<1>1. Init => Requested
  BY InitRequested
<1>2. Inv /\ BothEnds /\ Requested /\ [Next]_vars => Requested'
  BY NextRequested
<1>3. Requested => ClosedOnRequest
  BY DEF Requested
<1> QED BY <1>1, <1>2, <1>3, LifecycleInvariant, EndsKeepAccounts, PTL DEF Spec
=============================================================================
