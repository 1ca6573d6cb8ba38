------------------------------ MODULE StarRelay ------------------------------
(***************************************************************************)
(* app::Network and main: a server and its guests form a star.  Each guest *)
(* sends what its user types to the server, which keeps it for its own     *)
(* user and relays it to every other guest.  Every process has three       *)
(* threads without a lock between them:                                    *)
(*   main                reads the user's lines and calls Network::Send    *)
(*   node_runner         calls Network::Poll again and again               *)
(*   message_dispatcher  calls Network::Peek and Network::Receive          *)
(* An action is what a thread does between two points at which the others  *)
(* may find it: one event of Poll, one pass of a loop that sends to peers, *)
(* Peek, or Receive.                                                       *)
(*                                                                         *)
(* rudp::Host is modelled by the other modules and is an ordered, reliable *)
(* channel here, with slots that are opened, connected and reset.  Two     *)
(* threads that touch the same list or the same peer at the same time have *)
(* undefined behaviour: the process may die of it (Overlap), and is not    *)
(* followed any further.  Nothing sets target_peer_id_, so that every      *)
(* message goes to BROADCAST_ID.                                           *)
(***************************************************************************)
EXTENDS Naturals, FiniteSets, SequencesExt

CONSTANTS
    SERVER,        \* the process that called CreateServer
    Guests,        \* the processes that call CreateClient
    UniqueIds,     \* what Hash::uniqueID may return to each guest
    BROADCAST_ID,  \* the number 0
    SERVER_ID,     \* the number 1
    NoGuest,       \* what a slot belongs to before it is opened
    PEER_COUNT,    \* slots of the server
    MAX_MESSAGES,  \* bound on the messages of each process
    MAX_TOTAL,     \* bound on the messages of all together
    READERS,       \* the processes whose dispatcher gets the processor
    MAY_END,       \* the processes that may end, also by Overlap
    MAX_EXITS      \* bound on how many of them do

ASSUME RelayAssumption ==
    /\ SERVER \notin Guests /\ NoGuest \notin Guests
    /\ DOMAIN UniqueIds = Guests
    /\ \A g \in Guests : UniqueIds[g] \subseteq Nat \ {BROADCAST_ID, SERVER_ID}
    /\ READERS \subseteq Guests \cup {SERVER}
    /\ MAY_END \subseteq Guests \cup {SERVER}
    /\ BROADCAST_ID # SERVER_ID
    /\ PEER_COUNT \in Nat \ {0} /\ {MAX_TOTAL, MAX_EXITS} \subseteq Nat
    /\ MAX_MESSAGES \in [Guests \cup {SERVER} -> Nat]

Nodes == Guests \cup {SERVER}
Slots == 1..PEER_COUNT
Ids   == UNION {UniqueIds[g] : g \in Guests}

Message == [from : Nodes, number : Nat]

Nothing == [message |-> <<>>, left |-> {}]

VARIABLES
    unique_id, \* Hash::uniqueID of each guest, of the clock and of addresses
    process,   \* "idle" before CreateClient, "running", "exited", "crashed"
    network,   \* the object app::Network of each process
    sending,   \* main: the message in Send, and the slots still to be served
    relaying,  \* node_runner of the server: likewise, ids still to be served
    taking,    \* message_dispatcher: is it between Peek and Receive?
    peer,      \* the state of a guest's only rudp::Peer
    slots,     \* the server's peers
    up,        \* messages under way from a guest
    down,      \* messages under way to a guest
    parting,   \* the nodes whose DISCONNECT is under way, as pairs from, to
    printed,   \* history: what message_dispatcher has printed
    told,      \* history: of whom the server's ADD_PEER told a guest
    reused,    \* history: the guests whose slot was another's before
    counts     \* messages sent and processes ended (bounds the runs)

vars == <<unique_id, process, network, sending, relaying, taking, peer, slots, up, down,
          parting, printed, told, reused, counts>>

Closed == [active |-> FALSE, connection_status |-> "DISCONNECTED",
           peers |-> <<>>, payloads |-> <<>>]

\* The server has returned from CreateServer.
Init ==
    /\ unique_id \in {f \in [Guests -> Ids] : \A g \in Guests : f[g] \in UniqueIds[g]}
    /\ process = [n \in Nodes |-> IF n = SERVER THEN "running" ELSE "idle"]
    /\ network = [n \in Nodes |->
                     IF n = SERVER
                     THEN [Closed EXCEPT !.active = TRUE, !.connection_status = "CONNECTED"]
                     ELSE Closed]
    /\ sending = [n \in Nodes |-> Nothing]
    /\ relaying = Nothing
    /\ taking = [n \in Nodes |-> FALSE]
    /\ peer = [g \in Guests |-> "DISCONNECTED"]
    /\ slots = [s \in Slots |->
                   [state |-> "DISCONNECTED", data |-> BROADCAST_ID, guest |-> NoGuest]]
    /\ up = [g \in Guests |-> <<>>]
    /\ down = [g \in Guests |-> <<>>]
    /\ parting = {}
    /\ printed = [n \in Nodes |-> <<>>]
    /\ told = [g \in Guests |-> {}]
    /\ reused = {}
    /\ counts = [sent |-> [n \in Nodes |-> 0], exits |-> 0]

\* The id that Network::Send writes in front of a message.
SenderId(m) == IF m.from = SERVER THEN SERVER_ID ELSE unique_id[m.from]

Running(n) == process[n] = "running"

\* node_runner is in Host::Service, and takes the next event from it.
Polls(n) == Running(n) /\ network[n].active /\ (n = SERVER => relaying = Nothing)

SlotsOf(g) == {s \in Slots : slots[s].guest = g /\ slots[s].state # "DISCONNECTED"}

-----------------------------------------------------------------------------
(* The main thread.                                                        *)

\* Network::CreateClient; Host::Connect takes the guest's only peer.
CreateClient(g) ==
    /\ process[g] = "idle"
    /\ process' = [process EXCEPT ![g] = "running"]
    /\ network' = [network EXCEPT ![g].active = TRUE,
                                  ![g].connection_status = "CONNECTING"]
    /\ peer' = [peer EXCEPT ![g] = "CONNECTING"]
    /\ UNCHANGED <<unique_id, sending, relaying, taking, slots, up, down,
                   parting, printed, told, reused, counts>>

\* Network::Send passes its two checks and fills a segment.  The server goes
\* through all its slots (Host::Broadcast), a guest has one peer.
Send(n) ==
    /\ Running(n)
    /\ network[n].active
    /\ network[n].connection_status = "CONNECTED"
    /\ sending[n] = Nothing
    /\ counts.sent[n] < MAX_MESSAGES[n]
    /\ SumFunctionOnSet(counts.sent, Nodes) < MAX_TOTAL
    /\ sending' = [sending EXCEPT ![n] =
                      [message |-> [from |-> n, number |-> counts.sent[n] + 1],
                       left    |-> IF n = SERVER THEN Slots ELSE {1}]]
    /\ counts' = [counts EXCEPT !.sent[n] = @ + 1]
    /\ UNCHANGED <<unique_id, process, network, relaying, taking, peer,
                   slots, up, down, parting, printed, told, reused>>

\* Mutant of SentDown: the newest message goes first.
SentDownFirst(s, m) ==
    IF slots[s].state = "CONNECTED"
    THEN [down EXCEPT ![slots[s].guest] = <<m>> \o @]
    ELSE down

\* What Peer::Send leaves to the transport: it refuses unless connected.
SentDown(s, m) ==
    IF slots[s].state = "CONNECTED"
    THEN [down EXCEPT ![slots[s].guest] = Append(@, m)]
    ELSE down

\* A loop that sends a message has served one more, perhaps the last.
Served(loop, one) ==
    IF loop.left = {one} THEN Nothing ELSE [loop EXCEPT !.left = @ \ {one}]

\* The next pass of Host::Broadcast; Flush when all are served.
BroadcastNext ==
    LET s == Min(sending[SERVER].left)
    IN  /\ Running(SERVER)
        /\ sending[SERVER] # Nothing
        /\ down' = SentDown(s, sending[SERVER].message)
        /\ sending' = [sending EXCEPT ![SERVER] = Served(@, s)]
        /\ UNCHANGED <<unique_id, process, network, relaying, taking, peer,
                       slots, up, parting, printed, told, reused, counts>>

\* A guest's peers_[SERVER_ID]->Send.  Where CloseConnection has emptied peers_
\* since the checks, the operator inserts a null pointer, which is dereferenced.
SendToServer(g) ==
    /\ Running(g)
    /\ sending[g] # Nothing
    /\ sending' = [sending EXCEPT ![g] = Nothing]
    /\ IF SERVER_ID \in DOMAIN network[g].peers
       THEN /\ up' = IF peer[g] = "CONNECTED"
                     THEN [up EXCEPT ![g] = Append(@, sending[g].message)]
                     ELSE up
            /\ UNCHANGED process
       ELSE /\ process' = [process EXCEPT ![g] = "crashed"]
            /\ UNCHANGED up
    /\ UNCHANGED <<unique_id, network, relaying, taking, peer, slots, down,
                   parting, printed, told, reused, counts>>

\* Network::CloseConnection: DisconnectNow of every peer of peers_ that is not
\* disconnected already, and the object is cleared.
Parted(n) ==
    IF n = SERVER
    THEN {<<SERVER, slots[s].guest>> : s \in
             {s \in Slots : /\ slots[s].state # "DISCONNECTED"
                            /\ \E id \in DOMAIN network[SERVER].peers :
                                  network[SERVER].peers[id] = s}}
    ELSE IF network[n].peers # <<>> /\ peer[n] # "DISCONNECTED"
         THEN {<<n, SERVER>>} ELSE {}

\* The user types "exit": main joins the other threads, each when it comes to
\* the end of what it does, and the destructor closes the connection, if it is
\* active.  The messages not sent yet are dropped with the queues of the peer.
Exit(n) ==
    /\ Running(n)
    /\ sending[n] = Nothing
    /\ ~taking[n]
    /\ n = SERVER => relaying = Nothing
    /\ n \in MAY_END /\ counts.exits < MAX_EXITS
    /\ process' = [process EXCEPT ![n] = "exited"]
    /\ network' = [network EXCEPT ![n] = Closed]
    /\ parting' = parting \cup Parted(n)
    /\ peer' = IF n # SERVER /\ Parted(n) # {}
               THEN [peer EXCEPT ![n] = "DISCONNECTED"] ELSE peer
    /\ counts' = [counts EXCEPT !.exits = @ + 1]
    /\ UNCHANGED <<unique_id, sending, relaying, taking, slots, up, down,
                   printed, told, reused>>

-----------------------------------------------------------------------------
(* node_runner: what Host::Service does before there is an event.          *)

\* A CONNECT arrives: the first slot that is DISCONNECTED.  Its data_ is what
\* the last guest left, for Peer::Reset does not touch it.
OpenSlot(g) ==
    LET free == {s \in Slots : slots[s].state = "DISCONNECTED"}
    IN  /\ Polls(SERVER)
        /\ peer[g] = "CONNECTING" /\ process[g] # "idle"
        /\ SlotsOf(g) = {}
        /\ free # {}
        /\ slots' = [slots EXCEPT ![Min(free)].state = "CONNECTING",
                                  ![Min(free)].guest = g]
        /\ UNCHANGED <<unique_id, process, network, sending, relaying,
                       taking, peer, up, down, parting, printed, told,
                       reused, counts>>

(* node_runner of a guest: an event of Network::Poll.                      *)

\* peers_.insert, which keeps what is there.
Inserted(peers, id, slot) ==
    [d \in DOMAIN peers \cup {id} |-> IF d \in DOMAIN peers THEN peers[d] ELSE slot]

\* EventType::CONNECT, with data 0: the peer becomes SERVER_ID.
GuestConnects(g) ==
    /\ Polls(g)
    /\ peer[g] = "CONNECTING"
    /\ SlotsOf(g) # {}
    /\ peer' = [peer EXCEPT ![g] = "CONNECTED"]
    /\ network' = [network EXCEPT ![g].peers = Inserted(@, SERVER_ID, 1),
                                  ![g].connection_status = "CONNECTED"]
    /\ UNCHANGED <<unique_id, process, sending, relaying, taking, slots, up,
                   down, parting, printed, told, reused, counts>>

\* Mutant of Kept: the newest message is read first.
KeptFirst(payloads, m) == <<m>> \o payloads

\* payloads_.push_back
Kept(payloads, m) == Append(payloads, m)

\* EventType::RECEIVE on a channel for messages.  (What comes on the CONFIG
\* channel changes nothing: ADD_PEER is ignored, and REMOVE_PEER carries the
\* guest's own id, which its peers_ does not hold.)
ReceiveFromServer(g) ==
    /\ Polls(g)
    /\ peer[g] = "CONNECTED"
    /\ down[g] # <<>>
    /\ network' = [network EXCEPT ![g].payloads = Kept(@, Head(down[g]))]
    /\ down' = [down EXCEPT ![g] = Tail(@)]
    /\ UNCHANGED <<unique_id, process, sending, relaying, taking, peer,
                   slots, up, parting, printed, told, reused, counts>>

\* EventType::DISCONNECT: CloseConnection, while main and the dispatcher may be
\* in the middle of Send and Receive.  A peer that was never connected has
\* BROADCAST_ID for its data, and nothing is done.
ServerLeaves(g) ==
    /\ Polls(g)
    /\ <<SERVER, g>> \in parting
    /\ parting' = parting \ {<<SERVER, g>>}
    /\ peer' = [peer EXCEPT ![g] = "DISCONNECTED"]
    /\ network' = IF peer[g] = "CONNECTED"
                  THEN [network EXCEPT ![g] = Closed] ELSE network
    /\ UNCHANGED <<unique_id, process, sending, relaying, taking, slots, up,
                   down, printed, told, reused, counts>>

-----------------------------------------------------------------------------
(* node_runner of the server: an event of Network::Poll.                   *)

\* Mutant of ResetSlot: the slot still belongs to the guest.
ResetState(s) == [slots EXCEPT ![s].state = "DISCONNECTED"]

\* The slot is reset; what its queues held is gone.
ResetSlot(s) == [slots EXCEPT ![s].state = "DISCONNECTED", ![s].guest = NoGuest]

Connects(s) ==
    /\ Polls(SERVER)
    /\ slots[s].state = "CONNECTING"
    /\ peer[slots[s].guest] # "CONNECTING"

\* Mutant of IsKnown: whoever connects is let in.
IsNeverKnown(id) == FALSE

\* Is the id in peers_?
IsKnown(id) == id \in DOMAIN network[SERVER].peers

\* EventType::CONNECT with an id that is in peers_ already: Peer::Reset of the
\* slot, of which the guest is not told.
RefuseGuest(s) ==
    /\ Connects(s)
    /\ IsKnown(unique_id[slots[s].guest])
    /\ slots' = ResetSlot(s)
    /\ UNCHANGED <<unique_id, process, network, sending, relaying, taking,
                   peer, up, down, parting, printed, told, reused, counts>>

\* Mutant of AddPeer: both messages carry the new id.
AddPeerItself(g, known) ==
    [told EXCEPT ![g] = @ \cup IF known = {} THEN {} ELSE {unique_id[g]}]

\* For each other id that is in peers_, two ADD_PEER messages, with that id and
\* with the new one, are sent to the new guest.
AddPeer(g, known) ==
    [told EXCEPT ![g] = @ \cup known \cup IF known = {} THEN {} ELSE {unique_id[g]}]

\* EventType::CONNECT.
AcceptGuest(s) ==
    LET g     == slots[s].guest
        known == DOMAIN network[SERVER].peers
    IN  /\ Connects(s)
        /\ ~IsKnown(unique_id[g])
        /\ slots' = [slots EXCEPT ![s].state = "CONNECTED", ![s].data = unique_id[g]]
        /\ network' = [network EXCEPT ![SERVER].peers = Inserted(@, unique_id[g], s)]
        /\ told' = AddPeer(g, known)
        /\ reused' = IF slots[s].data = BROADCAST_ID THEN reused ELSE reused \cup {g}
        /\ UNCHANGED <<unique_id, process, sending, relaying, taking, peer,
                       up, down, parting, printed, counts>>

\* A DISCONNECT arrives.  If the slot is connected there is an event, of which
\* every entry of peers_ but the guest's is told (REMOVE_PEER, see above); the
\* guest's own entry stays.  Else the slot is reset without an event.
GuestLeaves(s) ==
    LET g == slots[s].guest
    IN  /\ Polls(SERVER)
        /\ slots[s].state # "DISCONNECTED"
        /\ <<g, SERVER>> \in parting
        /\ parting' = parting \ {<<g, SERVER>>}
        /\ slots' = ResetSlot(s)
        /\ up' = [up EXCEPT ![g] = <<>>]
        /\ UNCHANGED <<unique_id, process, network, sending, relaying,
                       taking, peer, down, printed, told, reused, counts>>

\* Mutant of RelayTargets: everybody.
RelayToAll(m) == DOMAIN network[SERVER].peers

\* Mutant of RelayTargets: the loop is left at the sender instead of going on.
RelayUntilSender(m) == {id \in DOMAIN network[SERVER].peers : id < SenderId(m)}

\* The ids that a message is relayed to: all but its sender's.
RelayTargets(m) == DOMAIN network[SERVER].peers \ {SenderId(m)}

\* EventType::RECEIVE: the message must carry the id of the slot.  It is kept
\* for the server's own user before it is relayed.
ReceiveFromGuest(s) ==
    LET g == slots[s].guest
        m == Head(up[g])
    IN  /\ Polls(SERVER)
        /\ slots[s].state = "CONNECTED"
        /\ up[g] # <<>>
        /\ up' = [up EXCEPT ![g] = Tail(@)]
        /\ IF SenderId(m) = slots[s].data
           THEN /\ network' = [network EXCEPT ![SERVER].payloads = Kept(@, m)]
                /\ relaying' = IF RelayTargets(m) = {} THEN Nothing
                               ELSE [message |-> m, left |-> RelayTargets(m)]
           ELSE UNCHANGED <<network, relaying>>
        /\ UNCHANGED <<unique_id, process, sending, taking, peer, slots,
                       down, parting, printed, told, reused, counts>>

\* The next pass of the loop over peers_, in the order of the ids.
RelayNext ==
    LET id == Min(relaying.left)
    IN  /\ Running(SERVER)
        /\ relaying # Nothing
        /\ down' = SentDown(network[SERVER].peers[id], relaying.message)
        /\ relaying' = Served(relaying, id)
        /\ UNCHANGED <<unique_id, process, network, sending, taking, peer,
                       slots, up, parting, printed, told, reused, counts>>

-----------------------------------------------------------------------------
(* message_dispatcher, started before CreateServer and CreateClient.       *)

\* Mutant of PeekSees: an empty list is taken for one that holds something.
PeekAlwaysSees(n) == Len(network[n].payloads) >= 0

PeekSees(n) == Len(network[n].payloads) > 0

\* Network::Peek.
Peek(n) ==
    /\ Running(n)
    /\ n \in READERS
    /\ ~taking[n]
    /\ PeekSees(n)
    /\ taking' = [taking EXCEPT ![n] = TRUE]
    /\ UNCHANGED <<unique_id, process, network, sending, relaying, peer,
                   slots, up, down, parting, printed, told, reused, counts>>

\* Network::Receive returns a null pointer if there is nothing, and main does
\* not look at the error before it uses it.
Receive(n) ==
    /\ Running(n)
    /\ taking[n]
    /\ taking' = [taking EXCEPT ![n] = FALSE]
    /\ IF network[n].payloads = <<>>
       THEN /\ process' = [process EXCEPT ![n] = "crashed"]
            /\ UNCHANGED <<network, printed>>
       ELSE /\ printed' = [printed EXCEPT ![n] = Append(@, Head(network[n].payloads))]
            /\ network' = [network EXCEPT ![n].payloads = Tail(@)]
            /\ UNCHANGED process
    /\ UNCHANGED <<unique_id, sending, relaying, peer, slots, up, down,
                   parting, told, reused, counts>>

\* Is there something that node_runner would append to payloads_?
Arriving(n) ==
    IF n = SERVER
    THEN \E s \in Slots : slots[s].state = "CONNECTED" /\ up[slots[s].guest] # <<>>
    ELSE down[n] # <<>>

\* Undefined behaviour that ends badly: main is in Send, which touches the
\* peers that node_runner services all the time, or the dispatcher removes
\* from payloads_ what node_runner appends to.
Overlap(n) ==
    /\ Running(n)
    /\ sending[n] # Nothing \/ (taking[n] /\ Arriving(n))
    /\ n \in MAY_END /\ counts.exits < MAX_EXITS
    /\ process' = [process EXCEPT ![n] = "crashed"]
    /\ counts' = [counts EXCEPT !.exits = @ + 1]
    /\ UNCHANGED <<unique_id, network, sending, relaying, taking, peer,
                   slots, up, down, parting, printed, told, reused>>

-----------------------------------------------------------------------------
MainNext(n) ==
    \/ n # SERVER /\ (CreateClient(n) \/ SendToServer(n))
    \/ n = SERVER /\ BroadcastNext
    \/ Send(n)
    \/ Exit(n)

ServerPolls ==
    \/ \E g \in Guests : OpenSlot(g)
    \/ \E s \in Slots : \/ RefuseGuest(s) \/ AcceptGuest(s)
                        \/ GuestLeaves(s) \/ ReceiveFromGuest(s)
    \/ RelayNext

GuestPolls(g) == GuestConnects(g) \/ ReceiveFromServer(g) \/ ServerLeaves(g)

Next ==
    \/ \E n \in Nodes : MainNext(n) \/ Peek(n) \/ Receive(n) \/ Overlap(n)
    \/ ServerPolls
    \/ \E g \in Guests : GuestPolls(g)

Spec == Init /\ [][Next]_vars

(* Fairness.  node_runner runs, Host::Service is called again and again, and *)
(* the transport brings what it accepted.  Nothing is assumed of the user,  *)
(* nor of a DISCONNECT, which is sent once.                                 *)
ServerWorks ==
    \/ RelayNext
    \/ \E s \in Slots : AcceptGuest(s) \/ ReceiveFromGuest(s)

Fairness ==
    /\ WF_vars(ServerWorks)
    /\ \A g \in Guests : WF_vars(ReceiveFromServer(g))

FairSpec == Spec /\ Fairness

-----------------------------------------------------------------------------
(* Properties.                                                             *)

\* Every variable has its type.
TypeOK ==
    /\ unique_id \in [Guests -> Ids]
    /\ process \in [Nodes -> {"idle", "running", "exited", "crashed"}]
    /\ \A n \in Nodes :
          /\ network[n].active \in BOOLEAN
          /\ network[n].connection_status \in {"DISCONNECTED", "CONNECTING", "CONNECTED"}
          /\ network[n].payloads \in Seq(Message)
          /\ IF n = SERVER
             THEN /\ DOMAIN network[n].peers \subseteq Ids
                  /\ \A id \in DOMAIN network[n].peers : network[n].peers[id] \in Slots
             ELSE DOMAIN network[n].peers \subseteq {SERVER_ID}
          /\ sending[n] = Nothing \/ sending[n].message \in Message
    /\ relaying = Nothing \/ /\ relaying.message \in Message
                             /\ relaying.left \subseteq DOMAIN network[SERVER].peers
    /\ taking \in [Nodes -> BOOLEAN]
    /\ peer \in [Guests -> {"DISCONNECTED", "CONNECTING", "CONNECTED"}]
    /\ \A s \in Slots :
          /\ slots[s].state \in {"DISCONNECTED", "CONNECTING", "CONNECTED"}
          /\ slots[s].data \in Ids \cup {BROADCAST_ID}
          /\ slots[s].guest = NoGuest <=> slots[s].state = "DISCONNECTED"
    /\ up \in [Guests -> Seq(Message)] /\ down \in [Guests -> Seq(Message)]
    /\ parting \subseteq Nodes \X Nodes
    /\ printed \in [Nodes -> Seq(Message)]
    /\ told \in [Guests -> SUBSET Ids]
    /\ reused \subseteq Guests

\* What has reached the user of a node, or will next.
Heard(n) == printed[n] \o network[n].payloads

\* Nodes that a stale entry of peers_ has no part in.
Plain == Nodes \ reused

\* Whoever reads the log and looks at what x said misses nothing from the
\* first message on, reads nothing twice, and nothing out of turn.
InSequence(log, x) ==
    \A i, j \in DOMAIN log :
        (/\ i < j /\ log[i].from = x /\ log[j].from = x
         /\ \A k \in (i + 1)..(j - 1) : log[k].from # x)
        => log[j].number = log[i].number + 1

\* From the first message on that a user hears of another one, none is missing,
\* repeated or out of turn, although the two loops that send to the guests,
\* in two threads, go on while guests come and go.
HeardInSequence == \A n \in Plain, x \in Nodes : InSequence(Heard(n), x)

NeverFrom(log, x) == \A i \in DOMAIN log : log[i].from # x

\* Nobody is sent back a message of his own.
NotResentToSelf == \A n \in Plain : NeverFrom(Heard(n), n)

Precedes(n, a, b) ==
    \E i, j \in DOMAIN Heard(n) : i < j /\ Heard(n)[i] = a /\ Heard(n)[j] = b

\* All users hear what guests say in one order.
SameOrder ==
    \A n, k \in Plain :
        \A a, b \in {m \in ToSet(Heard(n)) : m.from # SERVER} :
            Precedes(n, a, b) => ~Precedes(k, b, a)

\* While the connection is active the dispatcher finds what it has seen.
PeekedIsThere ==
    \A n \in Nodes : taking[n] /\ network[n].active => network[n].payloads # <<>>

\* A connected slot is in peers_, under the id it was given, so that Poll's
\* relay and Host::Broadcast, which goes by the slots, reach the same guests.
ConnectedAreRelayedTo ==
    network[SERVER].active =>
        \A s \in Slots :
            slots[s].state = "CONNECTED" =>
                /\ slots[s].data = unique_id[slots[s].guest]
                /\ slots[s].data \in DOMAIN network[SERVER].peers
                /\ network[SERVER].peers[slots[s].data] = s

Members == {slots[s].guest : s \in {s \in Slots : slots[s].state = "CONNECTED"}}

\* Of two members the one that came later was told of the other, whoever came,
\* left or was refused in between.
NewcomerIsTold ==
    \A g, h \in Members : g # h => unique_id[g] \in told[h] \/ unique_id[h] \in told[g]

Gone(n) == process[n] \in {"exited", "crashed"}

\* What a member has said is heard by the server, and by every other member
\* that is one then, unless one of the three ends.
EventuallyHeard ==
    \A x, g \in Guests : \A i \in 1..MAX_MESSAGES[x] :
        LET m == [from |-> x, number |-> i]
        IN  (x # g /\ {x, g} \subseteq Members /\ m \in ToSet(up[x]))
              ~> \/ m \in ToSet(Heard(SERVER)) /\ m \in ToSet(Heard(g))
                 \/ \E n \in {x, g, SERVER} : Gone(n)

-----------------------------------------------------------------------------
(* What one would expect of the code and does not hold; README.md names    *)
(* for each an instance that refutes it.                                   *)

\* The members are told of each other.
ExistingPeersAreTold ==
    \A g, h \in Members : g # h => unique_id[g] \in told[h]

\* Nobody is ever sent back a message of his own, also in a slot that another
\* guest had before.
NeverResentToSelf == \A n \in Nodes : NeverFrom(Heard(n), n)

\* No process dies while its user does nothing but type.
NobodyCrashes == \A n \in Nodes : process[n] # "crashed"

\* A guest that takes itself for connected becomes a member.
ConnectedBecomesMember ==
    \A g \in Guests :
        peer[g] = "CONNECTED" ~> (g \in Members \/ Gone(g) \/ Gone(SERVER))
=============================================================================
