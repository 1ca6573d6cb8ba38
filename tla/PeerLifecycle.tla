--------------------------- MODULE PeerLifecycle ---------------------------
(***************************************************************************)
(* How a connection between two rudp::Hosts comes about and how it ends:   *)
(* the RUdpPeerState of every peer slot, the control commands (CONNECT,    *)
(* VERIFY_CONNECT, PING, DISCONNECT) in its CommandPod, its                *)
(* acknowledgements, the DispatchHub of each host with its queue and its   *)
(* connected_peers_, and the events the application is told.               *)
(*                                                                         *)
(* Datagrams are lost, repeated and reordered.  A datagram carries the     *)
(* acknowledgements of a peer, then its reliable commands.                 *)
(*                                                                         *)
(* A peer is a record                                                      *)
(*   state, address, connect_id, outgoing_peer_id   as in the code         *)
(*   number    outgoing_reliable_sequence_number_ of its CommandPod        *)
(*   outgoing, sent     the lists of its CommandPod                        *)
(*   acknowledgements   acknowledgements_                                  *)
(*   needs_dispatch     needs_dispatch_                                    *)
(* a host is a record                                                      *)
(*   peers     peers_ of its PeerPod                                       *)
(*   queue     the DispatchQueue, of slots                                 *)
(*   connected connected_peers_ of its DispatchHub                         *)
(* and a command is a record                                               *)
(*   type, rsn, connect_id, outgoing_peer_id                               *)
(*   acknowledge   the flag COMMAND_ACKNOWLEDGE                            *)
(*                                                                         *)
(* A command that is given up stops its peer from sending anything; here   *)
(* it may no longer expire, see MAX_COPIES.                                *)
(*                                                                         *)
(* Session ids are left out: Reset sets them to 0xFF, so that every        *)
(* connection gets the same pair and the check of EventOccur always passes.*)
(* CONNECTION_PENDING and CONNECTION_SUCCEEDED are only entered without an *)
(* Event, which HandleAcknowledge would dereference.                       *)
(***************************************************************************)
EXTENDS Integers, Sequences, FiniteSets, SequencesExt, FiniteSetsExt

CONSTANTS
    HOSTS,              \* the hosts
    SERVER,             \* the one the others connect to
    PEER_COUNT,         \* the number of slots of each host
    Ways,               \* how the application of a host may disconnect:
                        \* "later", "now"
    EarlyTimeouts,      \* may a command expire although something is under way?
    MAX_CONNECTS,       \* bound on the calls of Connect of each guest
    MAX_PINGS,          \* bound on the pings
    MAX_COPIES,         \* bound on the sent list, for a command to time out
    MAX_LOSSES,         \* bound on the datagrams that are lost
    MAX_DUPLICATES      \* bound on the datagrams that are repeated

ASSUME LifecycleAssumption ==
    /\ SERVER \in HOSTS
    /\ PEER_COUNT \in [HOSTS -> Nat \ {0}]
    /\ Ways \in [HOSTS -> SUBSET {"later", "now"}]
    /\ EarlyTimeouts \in BOOLEAN
    /\ {MAX_CONNECTS, MAX_PINGS, MAX_COPIES, MAX_LOSSES, MAX_DUPLICATES}
          \subseteq Nat

VARIABLES
    hosts,      \* see above
    network,    \* the bag of datagrams under way
    events,     \* history: the CONNECT and DISCONNECT events of each host
    asked,      \* history: the connections an application disconnected
    connects,   \* history: who called Connect, in order
    pings, losses, duplicates  \* bound the runs

bounds == <<connects, pings, losses, duplicates>>
vars   == <<hosts, network, events, asked, bounds>>

Slots(h) == 1..PEER_COUNT[h]

\* No host; and PROTOCOL_MAXIMUM_PEER_ID, the slot of a peer whose partner's
\* slot is not known.
Nowhere == "nowhere"
Nobody  == 0

EmptyPeer ==
    [state |-> "DISCONNECTED", address |-> Nowhere, connect_id |-> 0,
     outgoing_peer_id |-> Nobody, number |-> 0, outgoing |-> <<>>, sent |-> <<>>,
     acknowledgements |-> <<>>, needs_dispatch |-> FALSE]

Init ==
    /\ hosts = [h \in HOSTS |->
                   [peers |-> [s \in Slots(h) |-> EmptyPeer],
                    queue |-> <<>>, connected |-> 0]]
    /\ network = EmptyBag
    /\ events = [h \in HOSTS |-> <<>>]
    /\ asked = {}
    /\ connects = <<>> /\ pings = 0 /\ losses = 0 /\ duplicates = 0

-----------------------------------------------------------------------------
(* Peer and CommandPod.                                                    *)

\* Peer::QueueOutgoingCommand, and what SetupOutgoingCommand does of it.
Command(peer, type, id, slot, acknowledge) ==
    [type |-> type, rsn |-> peer.number + 1, connect_id |-> id,
     outgoing_peer_id |-> slot, acknowledge |-> acknowledge]

QueueOutgoingCommand(peer, type, id, slot) ==
    [peer EXCEPT !.number   = @ + 1,
                 !.outgoing = Append(@, Command(peer, type, id, slot, TRUE))]

\* Mutant: the reset forgets connect_id_.
ResetButId(peer) ==
    [EmptyPeer EXCEPT !.outgoing = peer.outgoing, !.sent = peer.sent,
                      !.connect_id = peer.connect_id]

\* Peer::Reset.  The lists of the CommandPod outlive it.
Reset(peer) ==
    [EmptyPeer EXCEPT !.outgoing = peer.outgoing, !.sent = peer.sent]

ResetPeerQueues(peer) ==
    [peer EXCEPT !.outgoing = <<>>, !.sent = <<>>, !.acknowledgements = <<>>,
                 !.needs_dispatch = FALSE]

\* RemoveSentReliableCommand takes the first copy that bears the number.
Matching(peer, rsn) == {i \in DOMAIN peer.sent : peer.sent[i].rsn = rsn}

RemoveSentReliableCommand(peer, rsn) ==
    IF Matching(peer, rsn) = {} THEN peer
    ELSE [peer EXCEPT !.sent = RemoveAt(@, Min(Matching(peer, rsn)))]

RemovedType(peer, rsn) ==
    IF Matching(peer, rsn) = {} THEN "NONE"
    ELSE peer.sent[Min(Matching(peer, rsn))].type

\* Timeout: the expired copies go to the front of the outgoing list and stay
\* in the sent list.
Expire(waiting, c) == <<c>> \o waiting

Expirations(peer, expired) ==
    LET after[i \in 0..Len(peer.sent)] ==
            IF i = 0 THEN peer.outgoing
            ELSE IF i \in expired THEN Expire(after[i - 1], peer.sent[i])
            ELSE after[i - 1]
    IN  after

Timeout(peer, expired) ==
    [peer EXCEPT !.outgoing = Expirations(peer, expired)[Len(peer.sent)]]

-----------------------------------------------------------------------------
(* DispatchHub.                                                            *)

CountedStates == {"CONNECTED", "DISCONNECT_LATER"}

Counted(host, s) == host.peers[s].state \in CountedStates

PurgePeer(host, s) ==
    IF Counted(host, s) THEN [host EXCEPT !.connected = @ - 1] ELSE host

MergePeer(host, s) ==
    IF Counted(host, s) THEN host ELSE [host EXCEPT !.connected = @ + 1]

\* Mutant: the peer is counted after its state has changed.
ChangeStateFirst(host, s, state) ==
    LET changed == [host EXCEPT !.peers[s].state = state]
    IN  IF state \in CountedStates THEN MergePeer(changed, s)
                                   ELSE PurgePeer(changed, s)

ChangeState(host, s, state) ==
    [(IF state \in CountedStates THEN MergePeer(host, s) ELSE PurgePeer(host, s))
        EXCEPT !.peers[s].state = state]

DispatchState(host, s, state) ==
    LET changed == ChangeState(host, s, state)
    IN  IF host.peers[s].needs_dispatch THEN changed
        ELSE [changed EXCEPT !.peers[s].needs_dispatch = TRUE,
                             !.queue = Append(@, s)]

UpdatePeer(host, s, peer) == [host EXCEPT !.peers[s] = peer]

-----------------------------------------------------------------------------
(* Sending.                                                                *)

Datagram(from, peer, commands) ==
    [from |-> from, to |-> peer.address, slot |-> peer.outgoing_peer_id,
     commands |-> commands]

Acknowledge(rsn) ==
    [type |-> "ACKNOWLEDGE", rsn |-> rsn, connect_id |-> 0,
     outgoing_peer_id |-> Nobody, acknowledge |-> FALSE]

Sendable(peer) == peer.state \notin {"DISCONNECTED", "ZOMBIE"}

\* Once the acknowledgement of a DISCONNECT is sent, the peer is a zombie.
SendAcknowledgements(host, s) ==
    LET peer == host.peers[s]
        sent == UpdatePeer(host, s, [peer EXCEPT !.acknowledgements = <<>>])
    IN  IF \E i \in DOMAIN peer.acknowledgements :
              peer.acknowledgements[i].type = "DISCONNECT"
        THEN DispatchState(sent, s, "ZOMBIE") ELSE sent

\* Every reliable command fits the datagram and joins the sent list.
LoadReliableCommands(peer) ==
    [peer EXCEPT !.sent = @ \o peer.outgoing, !.outgoing = <<>>]

\* PeerPod::SendOutgoingCommands for one peer: the acknowledgements, the
\* timeouts, the reliable commands, a ping if there is nothing to send or to
\* wait for.
SendOutgoingCommands(h, s, expired, ping) ==
    LET peer     == hosts[h].peers[s]
        answered == SendAcknowledgements(hosts[h], s)
        timed    == Timeout(answered.peers[s], expired)
        queued   == IF ping THEN QueueOutgoingCommand(timed, "PING", 0, Nobody)
                            ELSE timed
        commands == [i \in DOMAIN peer.acknowledgements |->
                        Acknowledge(peer.acknowledgements[i].rsn)]
                      \o queued.outgoing
    IN  /\ Sendable(peer)
        /\ expired \subseteq DOMAIN peer.sent
        /\ expired # {} =>
              /\ EarlyTimeouts \/ network = EmptyBag
              /\ Len(peer.sent) + Len(peer.outgoing) + Cardinality(expired) <= MAX_COPIES
        /\ ping => /\ answered.peers[s].state = "CONNECTED"
                   /\ peer.outgoing = <<>> /\ peer.sent = <<>>
                   /\ pings < MAX_PINGS
        /\ pings' = pings + (IF ping THEN 1 ELSE 0)
        /\ commands # <<>>
        /\ hosts' = [hosts EXCEPT ![h] =
                        UpdatePeer(answered, s, LoadReliableCommands(queued))]
        /\ network' = network (+) SetToBag({Datagram(h, peer, commands)})
        /\ UNCHANGED <<events, asked, connects, losses, duplicates>>

-----------------------------------------------------------------------------
(* Disconnecting.                                                          *)

\* The datagrams that Flush sends: what every other peer has to send is left
\* for the next Service here.
Flushed(h, s, peer) ==
    SetToBag({Datagram(h, peer, <<Command(peer, "DISCONNECT", 0, Nobody, FALSE)>>)})

\* PeerPod::Disconnect of a connected peer: one DISCONNECT takes the place of
\* all that was queued.
DisconnectConnected(host, s) ==
    LET queued == QueueOutgoingCommand(ResetPeerQueues(host.peers[s]),
                                       "DISCONNECT", 0, Nobody)
    IN  UpdatePeer(PurgePeer(host, s), s,
                   [queued EXCEPT !.state = "DISCONNECTING"])

\* PeerPod::Disconnect of a peer that is not connected yet, and
\* PeerPod::DisconnectNow: a DISCONNECT that nobody acknowledges is sent and
\* the peer is reset.
DisconnectAtOnce(h, s) ==
    LET peer == ResetPeerQueues(hosts[h].peers[s])
    IN  /\ hosts' = [hosts EXCEPT ![h] = UpdatePeer(@, s, Reset(peer))]
        /\ network' = network (+) Flushed(h, s, peer)

Asks(h, s) ==
    /\ asked' = asked \cup {hosts[h].peers[s].connect_id}
    /\ UNCHANGED <<events, bounds>>

\* PeerPod::DisconnectLater: at once, unless something is still on its way.
\* Peers that are closing already are left alone.
Busy(peer) == peer.outgoing # <<>> \/ peer.sent # <<>>

DisconnectLater(h, s) ==
    LET peer == hosts[h].peers[s]
    IN  /\ "later" \in Ways[h]
        /\ Asks(h, s)
        /\ \/ /\ Counted(hosts[h], s) /\ Busy(peer)
              /\ hosts' = [hosts EXCEPT ![h].peers[s].state = "DISCONNECT_LATER"]
              /\ UNCHANGED network
           \/ /\ Counted(hosts[h], s) /\ ~Busy(peer)
              /\ hosts' = [hosts EXCEPT ![h] = DisconnectConnected(@, s)]
              /\ UNCHANGED network
           \/ /\ peer.state \in {"CONNECTING", "ACKNOWLEDGING_CONNECT"}
              /\ DisconnectAtOnce(h, s)

\* PeerPod::DisconnectNow.  The DispatchHub is not told.
DisconnectNow(h, s) ==
    LET peer == hosts[h].peers[s]
    IN  /\ "now" \in Ways[h]
        /\ Asks(h, s)
        /\ peer.state # "DISCONNECTED"
        /\ IF peer.state \in {"ZOMBIE", "DISCONNECTING"}
           THEN /\ hosts' = [hosts EXCEPT ![h] = UpdatePeer(@, s, Reset(peer))]
                /\ UNCHANGED network
           ELSE DisconnectAtOnce(h, s)

-----------------------------------------------------------------------------
(* Receiving.  A walk over the commands of a datagram is a record          *)
(*   host    the host as it is by now                                      *)
(*   slot    the slot of the peer, or Nobody                               *)
(*   event   what the Event tells: its type and the connection             *)
(*   over    ReceiveIncomingCommands has returned, or left the datagram    *)

PeerOf(walk) == walk.host.peers[walk.slot]

NoEvent == [type |-> "NONE", connect_id |-> 0]

Tells(walk, type) ==
    [walk EXCEPT !.event = [type |-> type, connect_id |-> PeerOf(walk).connect_id]]

\* Mutant: a peer that acknowledges a DISCONNECT acknowledges nothing.
AcknowledgeNoDisconnect(walk, c) ==
    IF \/ walk.over
       \/ ~c.acknowledge
       \/ PeerOf(walk).state \in {"DISCONNECTING", "ACKNOWLEDGING_CONNECT",
             "DISCONNECTED", "ZOMBIE", "ACKNOWLEDGING_DISCONNECT"}
    THEN walk
    ELSE [walk EXCEPT !.host.peers[walk.slot].acknowledgements =
                          Append(@, [rsn |-> c.rsn, type |-> c.type])]

\* PeerPod::ReceiveIncomingCommands, after the handler: whether the command
\* is acknowledged depends on the state the handler left.
QueueAcknowledgement(walk, c) ==
    LET state == PeerOf(walk).state
    IN  IF \/ walk.over
           \/ ~c.acknowledge
           \/ state \in {"DISCONNECTING", "ACKNOWLEDGING_CONNECT", "DISCONNECTED",
                          "ZOMBIE"}
           \/ state = "ACKNOWLEDGING_DISCONNECT" /\ c.type # "DISCONNECT"
        THEN walk
        ELSE [walk EXCEPT !.host.peers[walk.slot].acknowledgements =
                              Append(@, [rsn |-> c.rsn, type |-> c.type])]

\* Mutant: the event is left as it is.
NotifyConnectQuietly(walk) ==
    [walk EXCEPT !.host = ChangeState(@, walk.slot, "CONNECTED")]

\* DispatchHub::NotifyConnect, with an Event.
NotifyConnect(walk) ==
    Tells([walk EXCEPT !.host = ChangeState(@, walk.slot, "CONNECTED")], "CONNECT")

\* Mutant: the event is set, and the peer queued for another one.
NotifyDisconnectTwice(walk) ==
    [Tells(walk, "DISCONNECT") EXCEPT !.host = DispatchState(@, walk.slot, "ZOMBIE")]

\* DispatchHub::NotifyDisconnect, of a peer that is DISCONNECTING.
NotifyDisconnect(walk) ==
    [Tells(walk, "DISCONNECT") EXCEPT !.host = UpdatePeer(@, walk.slot, Reset(PeerOf(walk)))]

\* The Event is overwritten before anything is looked at.
HandleAcknowledge(walk, c) ==
    LET peer    == PeerOf(walk)
        type    == RemovedType(peer, c.rsn)
        removed == [Tells(walk, "RECEIVE_ACK") EXCEPT
                      !.host = UpdatePeer(@, walk.slot,
                                          RemoveSentReliableCommand(peer, c.rsn))]
        left    == PeerOf(removed)
    IN  CASE peer.state \in {"DISCONNECTED", "ZOMBIE"} -> Tells(walk, "RECEIVE_ACK")
          [] peer.state = "ACKNOWLEDGING_CONNECT" ->
                IF type = "VERIFY_CONNECT" THEN NotifyConnect(removed)
                                           ELSE [removed EXCEPT !.over = TRUE]
          [] peer.state = "DISCONNECTING" ->
                IF type = "DISCONNECT" THEN NotifyDisconnect(removed)
                                       ELSE [removed EXCEPT !.over = TRUE]
          [] peer.state = "DISCONNECT_LATER" /\ ~Busy(left) ->
                [removed EXCEPT !.host = DisconnectConnected(@, walk.slot)]
          [] OTHER -> removed

Answering(peer, slot, from, c, state) ==
    QueueOutgoingCommand(
        [peer EXCEPT !.state = state, !.address = from, !.connect_id = c.connect_id,
                     !.outgoing_peer_id = c.outgoing_peer_id],
        "VERIFY_CONNECT", c.connect_id, slot)

\* Mutant: whoever asks is connected.
ConnectsAtOnce(peer, slot, from, c) == Answering(peer, slot, from, c, "CONNECTED")

\* Peer::SetupConnectedPeer: the answer to a CONNECT is a VERIFY_CONNECT.
SetupConnectedPeer(peer, slot, from, c) ==
    Answering(peer, slot, from, c, "ACKNOWLEDGING_CONNECT")

\* The first slot that is free, unless a slot before it is CONNECTING with
\* the same id, which a slot that answers a CONNECT never is.
HandleConnect(walk, h, from, c) ==
    LET peers    == walk.host.peers
        Same(t)  == /\ peers[t].state = "CONNECTING" /\ peers[t].address = from
                    /\ peers[t].connect_id = c.connect_id
        settling == {t \in Slots(h) : peers[t].state = "DISCONNECTED" \/ Same(t)}
        slot     == Min(settling)
    IN  IF walk.slot # Nobody \/ settling = {} \/ (settling # {} /\ Same(slot))
        THEN [walk EXCEPT !.over = TRUE]
        ELSE [walk EXCEPT !.slot = slot,
                          !.host = UpdatePeer(@, slot,
                              SetupConnectedPeer(peers[slot], slot, from, c))]

\* Mutant: every answer is taken for the first.
VerifyTwice(walk, c) ==
    NotifyConnect([walk EXCEPT !.host = UpdatePeer(@, walk.slot,
        [RemoveSentReliableCommand(PeerOf(walk), 1) EXCEPT
            !.outgoing_peer_id = c.outgoing_peer_id])])

\* An answer to an earlier attempt turns the peer into a zombie.
HandleVerifyConnect(walk, c) ==
    LET peer == PeerOf(walk)
    IN  CASE peer.state # "CONNECTING" -> walk
          [] peer.state = "CONNECTING" /\ c.connect_id # peer.connect_id ->
                [walk EXCEPT !.host = DispatchState(@, walk.slot, "ZOMBIE"),
                             !.over = TRUE]
          [] OTHER ->
                NotifyConnect([walk EXCEPT !.host = UpdatePeer(@, walk.slot,
                    [RemoveSentReliableCommand(peer, 1) EXCEPT
                        !.outgoing_peer_id = c.outgoing_peer_id])])

HandleDisconnect(walk, c) ==
    LET peer   == PeerOf(walk)
        s      == walk.slot
        queues == UpdatePeer(walk.host, s, ResetPeerQueues(peer))
        host   == CASE peer.state \in {"DISCONNECTING", "CONNECTING"} ->
                         DispatchState(queues, s, "ZOMBIE")
                    [] peer.state = "ACKNOWLEDGING_CONNECT" ->
                         UpdatePeer(queues, s, Reset(queues.peers[s]))
                    [] Counted(walk.host, s) /\ c.acknowledge ->
                         ChangeState(queues, s, "ACKNOWLEDGING_DISCONNECT")
                    [] Counted(walk.host, s) /\ ~c.acknowledge ->
                         DispatchState(queues, s, "ZOMBIE")
                    [] OTHER -> walk.host
    IN  [walk EXCEPT !.host = host]

\* One command of the datagram: its handler, then the acknowledgement.
HandleCommand(walk, h, from, c) ==
    CASE walk.over \/ (walk.slot = Nobody /\ c.type # "CONNECT") ->
            [walk EXCEPT !.over = TRUE]
      [] ~walk.over /\ c.type = "CONNECT" -> HandleConnect(walk, h, from, c)
      [] ~walk.over /\ walk.slot # Nobody /\ c.type = "ACKNOWLEDGE" ->
            HandleAcknowledge(walk, c)
      [] ~walk.over /\ walk.slot # Nobody /\ c.type = "VERIFY_CONNECT" ->
            QueueAcknowledgement(HandleVerifyConnect(walk, c), c)
      [] ~walk.over /\ walk.slot # Nobody /\ c.type = "DISCONNECT" ->
            QueueAcknowledgement(HandleDisconnect(walk, c), c)
      [] OTHER -> QueueAcknowledgement(walk, c)

\* Mutant: the sender's address is not compared.
FromAnyAddress(h, d) ==
    /\ d.slot \in Slots(h)
    /\ Sendable(hosts[h].peers[d.slot])

\* Peer::EventOccur.
EventOccur(h, d) ==
    /\ d.slot \in Slots(h)
    /\ Sendable(hosts[h].peers[d.slot])
    /\ hosts[h].peers[d.slot].address = d.from

\* What the loop over the commands of a datagram starts from.
Arrived(h, d) ==
    [host |-> hosts[h], slot |-> d.slot, event |-> NoEvent, over |-> FALSE]

\* The walks up to each command of the datagram.
Walks(h, d) ==
    LET after[i \in 0..Len(d.commands)] ==
            IF i = 0 THEN Arrived(h, d)
            ELSE HandleCommand(after[i - 1], h, d.from, d.commands[i])
    IN  after

Received(h, d) == Walks(h, d)[Len(d.commands)]

IsTold(h, event) ==
    events' = IF event.type \in {"CONNECT", "DISCONNECT"}
              THEN [events EXCEPT ![h] = Append(@, event)] ELSE events

\* PeerPod::ReceiveIncomingCommands for one datagram.
ReceiveIncomingCommands(h, d) ==
    /\ d.to = h
    /\ IF d.slot = Nobody \/ EventOccur(h, d)
       THEN /\ hosts' = [hosts EXCEPT ![h] = Received(h, d).host]
            /\ IsTold(h, Received(h, d).event)
       ELSE UNCHANGED <<hosts, events>>
    /\ UNCHANGED <<asked, connects, pings>>

Receive(h, d) ==
    /\ ReceiveIncomingCommands(h, d)
    /\ network' = network (-) SetToBag({d})
    /\ UNCHANGED <<losses, duplicates>>

\* The network delivers a datagram that it will deliver again.
ReceiveAndKeep(h, d) ==
    /\ duplicates < MAX_DUPLICATES
    /\ duplicates' = duplicates + 1
    /\ ReceiveIncomingCommands(h, d)
    /\ UNCHANGED <<network, losses>>

Lose(d) ==
    /\ losses < MAX_LOSSES
    /\ losses' = losses + 1
    /\ network' = network (-) SetToBag({d})
    /\ UNCHANGED <<hosts, events, asked, connects, pings, duplicates>>

-----------------------------------------------------------------------------
\* RUdpProtocol::DispatchIncomingCommands: peers leave the queue until one is
\* a zombie, which is reported, reset, and its queues with it.
DispatchIncomingCommands(h) ==
    LET host    == hosts[h]
        zombies == {i \in DOMAIN host.queue :
                      host.peers[host.queue[i]].state = "ZOMBIE"}
        last    == IF zombies = {} THEN Len(host.queue) ELSE Min(zombies)
        taken   == ToSet(SubSeq(host.queue, 1, last))
        s       == host.queue[last]
        After(t) == IF zombies # {} /\ t = s
                    THEN ResetPeerQueues(Reset(host.peers[t]))
                    ELSE [host.peers[t] EXCEPT !.needs_dispatch = @ /\ t \notin taken]
    IN  /\ host.queue # <<>>
        /\ hosts' = [hosts EXCEPT
              ![h].queue = SubSeq(host.queue, last + 1, Len(host.queue)),
              ![h].peers = [t \in Slots(h) |-> After(t)]]
        /\ IF zombies = {} THEN UNCHANGED events
           ELSE IsTold(h, [type |-> "DISCONNECT",
                           connect_id |-> host.peers[s].connect_id])
        /\ UNCHANGED <<network, asked, bounds>>

\* Host::Connect: AvailablePeer and Peer::Setup.
Connect(h) ==
    LET free == {s \in Slots(h) : hosts[h].peers[s].state = "DISCONNECTED"}
        s    == Min(free)
        id   == Len(connects) + 1
        peer == [hosts[h].peers[s] EXCEPT !.state = "CONNECTING",
                                          !.address = SERVER, !.connect_id = id]
    IN  /\ h # SERVER
        /\ Cardinality({i \in DOMAIN connects : connects[i] = h}) < MAX_CONNECTS
        /\ free # {}
        /\ connects' = Append(connects, h)
        /\ hosts' = [hosts EXCEPT ![h] = UpdatePeer(@, s,
                        QueueOutgoingCommand(peer, "CONNECT", id, s))]
        /\ UNCHANGED <<network, events, asked, pings, losses, duplicates>>

Next ==
    \/ \E h \in HOSTS : Connect(h) \/ DispatchIncomingCommands(h)
    \/ \E h \in HOSTS : \E s \in Slots(h) :
          \/ DisconnectLater(h, s)
          \/ DisconnectNow(h, s)
          \/ \E expired \in SUBSET DOMAIN hosts[h].peers[s].sent, ping \in BOOLEAN :
                SendOutgoingCommands(h, s, expired, ping)
    \/ \E d \in DOMAIN network :
          \/ Lose(d)
          \/ \E h \in HOSTS : Receive(h, d) \/ ReceiveAndKeep(h, d)

Spec == Init /\ [][Next]_vars

-----------------------------------------------------------------------------
(* Fairness: Host::Service is called again and again, and the network      *)
(* delivers what it does not lose.                                         *)

Fairness ==
    /\ WF_vars(\E d \in DOMAIN network, h \in HOSTS : Receive(h, d))
    /\ \A h \in HOSTS :
          /\ WF_vars(DispatchIncomingCommands(h))
          /\ \A s \in Slots(h) :
                /\ WF_vars(SendOutgoingCommands(h, s, {}, FALSE))
                /\ WF_vars(SendOutgoingCommands(h, s, DOMAIN hosts[h].peers[s].sent, FALSE))

FairSpec == Spec /\ Fairness

-----------------------------------------------------------------------------
(* Properties.                                                             *)

States == {"DISCONNECTED", "CONNECTING", "ACKNOWLEDGING_CONNECT", "CONNECTED",
           "DISCONNECT_LATER", "DISCONNECTING", "ACKNOWLEDGING_DISCONNECT", "ZOMBIE"}

\* Every peer is in one of the states above and belongs to a connection unless
\* it is free; the queue holds slots, and the counter counts peers.
TypeOK ==
    \A h \in HOSTS :
       /\ hosts[h].connected \in 0..PEER_COUNT[h]
       /\ ToSet(hosts[h].queue) \subseteq Slots(h)
       /\ \A s \in Slots(h) :
             /\ hosts[h].peers[s].state \in States
             /\ hosts[h].peers[s].connect_id \in 0..Len(connects)
             /\ hosts[h].peers[s].state = "DISCONNECTED"
                   <=> hosts[h].peers[s].connect_id = 0

\* connected_peers_, which BandwidthThrottle and Host trust, is the number of
\* the peers that are connected or closing gracefully.
ConnectedPeersCounted ==
    \A h \in HOSTS :
       hosts[h].connected = Cardinality({s \in Slots(h) : Counted(hosts[h], s)})

\* It never falls short of them, however connections end: what is taken off is
\* what was added, also when slots are reset and used again.
NotUndercounted ==
    \A h \in HOSTS :
       Cardinality({s \in Slots(h) : Counted(hosts[h], s)}) <= hosts[h].connected

\* Two connected ends of one connection send to each other: however often a
\* CONNECT is repeated, and however many slots it takes at the server, the
\* guest and exactly one of them hold each other's slot.
EndsAgree ==
    \A h \in HOSTS \ {SERVER} : \A t \in Slots(h), s \in Slots(SERVER) :
       LET near == hosts[h].peers[t]
           far  == hosts[SERVER].peers[s]
       IN  /\ Counted(hosts[h], t) /\ Counted(hosts[SERVER], s)
           /\ near.connect_id = far.connect_id
           => near.outgoing_peer_id = s /\ far.outgoing_peer_id = t

EventsOf(h, id) ==
    [i \in DOMAIN SelectSeq(events[h], LAMBDA e : e.connect_id = id) |->
        SelectSeq(events[h], LAMBDA e : e.connect_id = id)[i].type]

\* The server takes a connection for established only once the guest does.
GuestConnectsFirst ==
    \A s \in Slots(SERVER) : Counted(hosts[SERVER], s) =>
       \E h \in HOSTS \ {SERVER} :
          \E i \in DOMAIN events[h] :
             events[h][i] = [type |-> "CONNECT",
                             connect_id |-> hosts[SERVER].peers[s].connect_id]

\* A host that is told of a connection is told CONNECT, then DISCONNECT, each
\* at most once; only a guest whose attempt failed is told DISCONNECT alone.
EventsInTurn ==
    \A h \in HOSTS, id \in DOMAIN connects :
       \/ EventsOf(h, id) \in {<<>>, <<"CONNECT">>, <<"CONNECT", "DISCONNECT">>}
       \/ h # SERVER /\ EventsOf(h, id) = <<"DISCONNECT">>

\* A peer that is connected was announced to the application.
ConnectedIsAnnounced ==
    \A h \in HOSTS : \A s \in Slots(h) : Counted(hosts[h], s) =>
       EventsOf(h, hosts[h].peers[s].connect_id) = <<"CONNECT">>

\* Nobody hears that a connection is closed before an application asks.
ClosedOnRequest ==
    \A h \in HOSTS : \A i \in DOMAIN events[h] :
       events[h][i].type = "DISCONNECT" => events[h][i].connect_id \in asked

\* The applications of both sides were told of the connection.
ToldBoth(id) ==
    /\ EventsOf(SERVER, id) # <<>>
    /\ \E h \in HOSTS \ {SERVER} : EventsOf(h, id) # <<>>

\* Once both sides were told of a connection and an application disconnects,
\* no host keeps a slot for it: DISCONNECT, its acknowledgement and the reset
\* of either side follow one another to the end.
DisconnectEnds ==
    \A id \in 1..MAX_CONNECTS * (Cardinality(HOSTS) - 1) :
       id \in asked /\ ToldBoth(id) ~>
          \A h \in HOSTS : \A s \in Slots(h) : hosts[h].peers[s].connect_id # id

-----------------------------------------------------------------------------
(* What one would expect of the code and does not hold; README.md names    *)
(* for each an instance that refutes it.                                   *)

\* A peer that is DISCONNECTING, of a connection both sides were told of, does
\* not remain so.
DisconnectingEnds ==
    \A h \in HOSTS : \A s \in Slots(h) :
       /\ hosts[h].peers[s].state = "DISCONNECTING"
       /\ ToldBoth(hosts[h].peers[s].connect_id)
       ~> hosts[h].peers[s].state # "DISCONNECTING"
=============================================================================
