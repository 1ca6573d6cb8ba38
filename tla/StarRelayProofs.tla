--------------------------- MODULE StarRelayProofs ---------------------------
(***************************************************************************)
(* The star for any number of guests, slots and messages, for any ids, and *)
(* whoever ends or dies: its types, who is relayed to, and what every user *)
(* hears.                                                                  *)
(***************************************************************************)
EXTENDS StarRelay, Induction

-----------------------------------------------------------------------------
(* Types, as records and functions.                                        *)

PeerStates == {"DISCONNECTED", "CONNECTING", "CONNECTED"}

PeersMaps == UNION {[D -> Slots] : D \in SUBSET (Ids \cup {SERVER_ID})}

Object == [active : BOOLEAN, connection_status : PeerStates,
           peers : PeersMaps, payloads : Seq(Message)]

Slot == [state : PeerStates, data : Ids \cup {BROADCAST_ID}, guest : Guests \cup {NoGuest}]

\* A message and the members of a set that it has still to be sent to.
Loops(S) == [message : Message, left : (SUBSET S) \ {{}}] \cup {Nothing}

Counts == [sent : [Nodes -> Nat], exits : Nat]

Typed ==
    /\ unique_id \in [Guests -> Ids]
    /\ process \in [Nodes -> {"idle", "running", "exited", "crashed"}]
    /\ network \in [Nodes -> Object]
    /\ sending \in [Nodes -> Loops(Slots)]
    /\ relaying \in Loops(Ids)
    /\ taking \in [Nodes -> BOOLEAN]
    /\ peer \in [Guests -> PeerStates]
    /\ slots \in [Slots -> Slot]
    /\ up \in [Guests -> Seq(Message)] /\ down \in [Guests -> Seq(Message)]
    /\ parting \subseteq Nodes \X Nodes
    /\ printed \in [Nodes -> Seq(Message)]
    /\ told \in [Guests -> SUBSET Ids]
    /\ reused \subseteq Guests
    /\ counts \in Counts

-----------------------------------------------------------------------------
(* Who is who.                                                             *)

IsOpen(s)      == slots[s].state # "DISCONNECTED"
IsConnected(s) == slots[s].state = "CONNECTED"

\* peers_ of the server names slots by ids, that of a guest the server.
PeersHold ==
    /\ DOMAIN network[SERVER].peers \subseteq Ids
    /\ \A g \in Guests : DOMAIN network[g].peers =
                            IF peer[g] = "CONNECTED" THEN {SERVER_ID} ELSE {}

\* An open slot has a guest of its own, which has been started.
SlotsHold ==
    /\ \A s \in Slots : slots[s].guest = NoGuest <=> ~IsOpen(s)
    /\ \A s, t \in Slots : IsOpen(s) /\ slots[s].guest = slots[t].guest => s = t
    /\ \A s \in Slots : IsOpen(s) => process[slots[s].guest] # "idle"
    /\ \A s \in Slots : IsConnected(s) => peer[slots[s].guest] # "CONNECTING"

\* A process that is not started yet has done nothing, and one that says it
\* leaves has ended.
ProcessesHold ==
    /\ process[SERVER] # "idle"
    /\ \A n \in Nodes : process[n] = "idle" => network[n] = Closed /\ ~taking[n]
    /\ \A g \in Guests : process[g] = "idle" => peer[g] = "DISCONNECTED"
    /\ \A g \in Guests : <<g, SERVER>> \in parting => process[g] = "exited"

ServerIsActive == Running(SERVER) => network[SERVER].active

\* An entry of peers_ that outlived its guest makes the slot's next one a
\* guest that has a slot of another.
StaleIsReused ==
    /\ \A id \in DOMAIN network[SERVER].peers :
          slots[network[SERVER].peers[id]].data # BROADCAST_ID
    /\ \A s \in Slots : \A id \in DOMAIN network[SERVER].peers :
          IsConnected(s) /\ slots[s].guest \notin reused /\ network[SERVER].peers[id] = s
             => id = unique_id[slots[s].guest]

\* What is being sent is the latest message of its sender, nobody relays to
\* the sender of a message, and a guest hands over what it says itself.
SendingHolds ==
    /\ \A n \in Nodes : sending[n] # Nothing =>
          sending[n].message = [from |-> n, number |-> counts.sent[n]]
    /\ relaying # Nothing =>
          /\ relaying.message.from \in Guests
          /\ relaying.left \subseteq
                DOMAIN network[SERVER].peers \ {unique_id[relaying.message.from]}
    /\ \A x \in Guests : \A i \in DOMAIN up[x] : up[x][i].from = x

Base ==
    /\ Typed /\ PeersHold /\ SlotsHold /\ ProcessesHold /\ StaleIsReused /\ SendingHolds
    /\ ServerIsActive
    /\ ConnectedAreRelayedTo /\ PeekedIsThere /\ NewcomerIsTold

-----------------------------------------------------------------------------
(* What everybody hears.                                                   *)

\* What a node has heard or will hear, unless the connection ends before.
Feed(n) ==
    IF n \in Guests /\ peer[n] = "CONNECTED" THEN Heard(n) \o down[n] ELSE Heard(n)

\* The number of the last message that a guest has handed to its peer; the
\* number that the server will take from it next, as long as it speaks.
Said(x)     == counts.sent[x] - (IF sending[x] = Nothing THEN 0 ELSE 1)
Expected(x) == IF up[x] # <<>> THEN up[x][1].number ELSE Said(x) + 1
Speaks(x)   == up[x] # <<>> \/ process[x] \in {"idle", "running"}

\* The last message of x in a log has this number.
EndsAt(log, x, number) ==
    \A i \in DOMAIN log :
        log[i].from = x /\ (\A j \in DOMAIN log : j > i => log[j].from # x)
            => log[i].number = number

\* A guest that hears what the server sends.
Listens(n, s) == IsConnected(s) /\ slots[s].guest = n /\ peer[n] = "CONNECTED"

\* Nothing reaches a guest before the server has accepted it.
Quiet(g) == Heard(g) = <<>> /\ down[g] = <<>>

Awaited(g) ==
    \/ process[g] = "idle" \/ peer[g] = "CONNECTING"
    \/ \E s \in Slots : slots[s].state = "CONNECTING" /\ slots[s].guest = g

QuietBefore == \A g \in Guests : Awaited(g) => Quiet(g)

\* What a guest says is under way without a gap, up to the last message.
UpHolds ==
    \A x \in Guests :
        /\ \A i \in DOMAIN up[x] :
              i > 1 => up[x][i].number = up[x][i - 1].number + 1
        /\ up[x] # <<>> /\ process[x] \in {"idle", "running"} =>
              up[x][Len(up[x])].number = Said(x)

\* The message that is being relayed is the last one taken from its sender.
RelayedIsLast ==
    relaying # Nothing /\ Speaks(relaying.message.from) =>
        relaying.message.number = Expected(relaying.message.from) - 1

Paths == Base /\ QuietBefore /\ UpHolds /\ RelayedIsLast

\* Up to where Host::Broadcast has got with a slot.
Own(s) == IF s \in sending[SERVER].left THEN counts.sent[SERVER] - 1 ELSE counts.sent[SERVER]

\* Up to where the logs have got.
OwnReached ==
    \A s \in Slots, n \in Guests : Listens(n, s) => EndsAt(Feed(n), SERVER, Own(s))

RelayReached ==
    \A s \in Slots, n \in Guests \ reused : Listens(n, s) =>
        \A x \in Guests \ {n} :
            IF relaying # Nothing /\ relaying.message.from = x
            THEN EndsAt(Feed(n), x,
                        IF unique_id[n] \in relaying.left THEN relaying.message.number - 1
                                                          ELSE relaying.message.number)
            ELSE Speaks(x) => EndsAt(Feed(n), x, Expected(x) - 1)

ServerReached ==
    network[SERVER].active =>
        \A x \in Guests : Speaks(x) => EndsAt(Feed(SERVER), x, Expected(x) - 1)

\* What the server has not taken yet is in no log.
NothingAhead ==
    \A n \in Plain, x \in Guests : Speaks(x) =>
        \A i \in DOMAIN Feed(n) : Feed(n)[i].from = x => Feed(n)[i].number < Expected(x)

\* What is being relayed is not in the log of who has yet to get it, and in
\* the others nothing that a guest has said comes behind it.
RelayedIsNew ==
    relaying # Nothing =>
        /\ \A n \in Guests \ reused, s \in Slots :
              Listens(n, s) /\ unique_id[n] \in relaying.left =>
                 \A i \in DOMAIN Feed(n) : Feed(n)[i] # relaying.message
        /\ \A n \in Plain : \A i, j \in DOMAIN Feed(n) :
              i < j /\ Feed(n)[i] = relaying.message => Feed(n)[j].from = SERVER

FeedsInSequence == \A n \in Plain, x \in Nodes : InSequence(Feed(n), x)

FeedsNotResent == \A n \in Plain : NeverFrom(Feed(n), n)

FeedsInOneOrder ==
    \A n, k \in Plain :
        \A i, j \in DOMAIN Feed(n), p, q \in DOMAIN Feed(k) :
            i < j /\ p < q /\ Feed(n)[i].from # SERVER /\ Feed(n)[j].from # SERVER
                => ~(Feed(n)[i] = Feed(k)[q] /\ Feed(n)[j] = Feed(k)[p])

Logs ==
    /\ OwnReached /\ RelayReached /\ ServerReached /\ NothingAhead /\ RelayedIsNew
    /\ FeedsInSequence /\ FeedsNotResent /\ FeedsInOneOrder

\* The inductive invariant.
Inv == Paths /\ Logs
-----------------------------------------------------------------------------
(* The values of the model.                                                *)

LEMMA IdsLemma ==
    /\ Ids \subseteq Nat \ {BROADCAST_ID, SERVER_ID}
    /\ SERVER \in Nodes /\ Guests \subseteq Nodes /\ Nodes \ Guests = {SERVER}
    /\ 1 \in Slots /\ Slots \subseteq Nat
  BY RelayAssumption DEF Ids, Nodes, Slots

\* The records of the model.
LEMMA LoopsLemma ==
    ASSUME NEW S
    PROVE  /\ Nothing \in Loops(S)
           /\ \A x \in Loops(S) :
                 /\ x = Nothing <=> x.left = {}
                 /\ x.left \subseteq S
                 /\ x # Nothing => x.message \in Message
           /\ \A m \in Message, L \in SUBSET S :
                 L # {} => /\ [message |-> m, left |-> L] \in Loops(S)
                           /\ [message |-> m, left |-> L] # Nothing
           /\ \A x \in Loops(S) : \A L \in SUBSET S :
                 x # Nothing /\ L # {} => [x EXCEPT !.left = L] \in Loops(S)
  BY DEF Loops, Nothing

LEMMA ServedLemma ==
    ASSUME NEW S, NEW x \in Loops(S), NEW e \in x.left
    PROVE  /\ Served(x, e) \in Loops(S)
           /\ Served(x, e).left = x.left \ {e}
           /\ Served(x, e) # Nothing => Served(x, e).message = x.message
<1>1. CASE x.left = {e}
  BY <1>1 DEF Served, Loops, Nothing
<1>2. CASE x.left # {e}
  <2>1. x \in [message : Message, left : (SUBSET S) \ {{}}]
    BY DEF Loops, Nothing
  <2>2. Served(x, e) = [x EXCEPT !.left = x.left \ {e}]
    BY <1>2 DEF Served
  <2>3. x.left \ {e} \in (SUBSET S) \ {{}}
    BY <1>2, <2>1
  <2> QED BY <2>1, <2>2, <2>3 DEF Loops
<1> QED BY <1>1, <1>2

LEMMA PayloadsUpdate ==
    ASSUME NEW f \in [Nodes -> Object], NEW n \in Nodes, NEW q \in Seq(Message)
    PROVE  LET h == [f EXCEPT ![n].payloads = q]
           IN  /\ h \in [Nodes -> Object]
               /\ h[n].payloads = q
               /\ \A k \in Nodes : /\ h[k].active = f[k].active
                                   /\ h[k].peers = f[k].peers
                                   /\ h[k].connection_status = f[k].connection_status
                                   /\ k # n => h[k] = f[k]
  BY DEF Object

LEMMA SlotStateUpdate ==
    ASSUME NEW f \in [Slots -> Slot], NEW s \in Slots,
           NEW c \in PeerStates, NEW g \in Guests \cup {NoGuest}
    PROVE  LET h == [f EXCEPT ![s].state = c, ![s].guest = g]
           IN  /\ h \in [Slots -> Slot]
               /\ h[s].state = c /\ h[s].guest = g /\ h[s].data = f[s].data
               /\ \A t \in Slots : t # s => h[t] = f[t]
  BY DEF Slot

LEMMA SlotDataUpdate ==
    ASSUME NEW f \in [Slots -> Slot], NEW s \in Slots, NEW c \in PeerStates, NEW id \in Ids
    PROVE  LET h == [f EXCEPT ![s].state = c, ![s].data = id]
           IN  /\ h \in [Slots -> Slot]
               /\ h[s].state = c /\ h[s].guest = f[s].guest /\ h[s].data = id
               /\ \A t \in Slots : t # s => h[t] = f[t]
  BY DEF Slot

\* peers_ with another entry.
LEMMA InsertedLemma ==
    ASSUME NEW f \in PeersMaps, NEW id \in Ids \cup {SERVER_ID}, NEW s \in Slots
    PROVE  /\ Inserted(f, id, s) \in PeersMaps
           /\ DOMAIN Inserted(f, id, s) = DOMAIN f \cup {id}
           /\ \A d \in DOMAIN f : Inserted(f, id, s)[d] = f[d] /\ f[d] \in Slots
           /\ id \notin DOMAIN f => Inserted(f, id, s)[id] = s
<1>1. PICK D \in SUBSET (Ids \cup {SERVER_ID}) : f \in [D -> Slots]
  BY DEF PeersMaps
<1>2. Inserted(f, id, s) \in [D \cup {id} -> Slots]
  BY <1>1 DEF Inserted
<1>3. D \cup {id} \in SUBSET (Ids \cup {SERVER_ID})
  BY <1>1
<1>4. Inserted(f, id, s) \in PeersMaps
  BY <1>2, <1>3 DEF PeersMaps
<1> QED BY <1>1, <1>4 DEF Inserted

LEMMA ClosedLemma ==
    /\ <<>> \in PeersMaps /\ DOMAIN <<>> = {}
    /\ Closed \in Object
<1>1. <<>> \in [{} -> Slots]
  OBVIOUS
<1>2. <<>> \in PeersMaps
  BY <1>1 DEF PeersMaps
<1> QED BY <1>2 DEF Closed, Object, PeerStates

-----------------------------------------------------------------------------
(* Types.                                                                  *)

LEMMA TypedInit == Init => Typed
<1> SUFFICES ASSUME Init PROVE Typed
  OBVIOUS
<1>1. network \in [Nodes -> Object]
  BY ClosedLemma DEF Init, Object, PeerStates
<1>2. unique_id \in [Guests -> Ids] /\ reused \subseteq Guests /\ parting \subseteq Nodes \X Nodes
  BY DEF Init
<1>3. sending \in [Nodes -> Loops(Slots)] /\ relaying \in Loops(Ids)
  BY LoopsLemma DEF Init
<1>4. slots \in [Slots -> Slot]
  BY DEF Init, Slot, PeerStates
<1>5. counts \in Counts
  BY DEF Init, Counts
<1>6. /\ process \in [Nodes -> {"idle", "running", "exited", "crashed"}]
      /\ taking \in [Nodes -> BOOLEAN] /\ peer \in [Guests -> PeerStates]
  BY DEF Init, PeerStates
<1>7. /\ up \in [Guests -> Seq(Message)] /\ down \in [Guests -> Seq(Message)]
      /\ printed \in [Nodes -> Seq(Message)] /\ told \in [Guests -> SUBSET Ids]
  BY DEF Init
<1> QED
  BY <1>1, <1>2, <1>3, <1>4, <1>5, <1>6, <1>7 DEF Typed

LEMMA TypedStep == ASSUME Base, [Next]_vars PROVE Typed'
<1> USE IdsLemma
<1>ty. Typed
  BY DEF Base
<1>pr. process \in [Nodes -> {"idle", "running", "exited", "crashed"}]
  BY <1>ty DEF Typed
<1>nw. network \in [Nodes -> Object]
  BY <1>ty DEF Typed
<1>se. sending \in [Nodes -> Loops(Slots)] /\ relaying \in Loops(Ids)
  BY <1>ty DEF Typed
<1>pe. peer \in [Guests -> PeerStates]
  BY <1>ty DEF Typed
<1>sl. slots \in [Slots -> Slot]
  BY <1>ty DEF Typed
<1>sg. \A s \in Slots : slots[s].state # "DISCONNECTED" => slots[s].guest \in Guests
  BY <1>sl DEF Base, SlotsHold, IsOpen, Slot
<1>ch. up \in [Guests -> Seq(Message)] /\ down \in [Guests -> Seq(Message)]
  BY <1>ty DEF Typed
<1>ps. {"DISCONNECTED", "CONNECTING", "CONNECTED"} = PeerStates
  BY DEF PeerStates
<1>co. counts \in Counts
  BY <1>ty DEF Typed
<1>1. ASSUME NEW g \in Guests, CreateClient(g) PROVE Typed'
  <2>1. network' \in [Nodes -> Object]
    BY <1>1, <1>nw DEF CreateClient, Object, PeerStates
  <2>2. peer' \in [Guests -> PeerStates]
    BY <1>1, <1>pe DEF CreateClient, PeerStates
  <2>3. process' \in [Nodes -> {"idle", "running", "exited", "crashed"}]
    BY <1>1, <1>pr DEF CreateClient
  <2> QED BY <1>1, <1>ty, <2>1, <2>2, <2>3 DEF CreateClient, Typed
<1>2. ASSUME NEW g \in Guests, SendToServer(g) PROVE Typed'
  <2>1. sending[g].message \in Message
    BY <1>2, <1>se, LoopsLemma DEF SendToServer
  <2>2. sending' \in [Nodes -> Loops(Slots)]
    BY <1>2, <1>se, LoopsLemma DEF SendToServer
  <2>3. up' \in [Guests -> Seq(Message)]
    <3>1. Append(up[g], sending[g].message) \in Seq(Message)
      BY <1>ch, <2>1
    <3> QED BY <1>2, <1>ch, <3>1 DEF SendToServer
  <2>4. process' \in [Nodes -> {"idle", "running", "exited", "crashed"}]
    BY <1>2, <1>pr DEF SendToServer
  <2> QED BY <1>2, <1>ty, <2>2, <2>3, <2>4 DEF SendToServer, Typed
<1>3. ASSUME BroadcastNext PROVE Typed'
  <2> DEFINE sent == sending[SERVER]
             s    == Min(sent.left)
  <2>1. sent.message \in Message /\ sent.left \subseteq Slots /\ sent.left # {}
    BY <1>3, <1>se, LoopsLemma DEF BroadcastNext
  <2>2. s \in sent.left
    BY <2>1, MinOfSet
  <2>3. down' \in [Guests -> Seq(Message)]
    BY <1>3, <1>ch, <1>sg, <2>1, <2>2 DEF BroadcastNext, SentDown
  <2>4. sending' \in [Nodes -> Loops(Slots)]
    BY <1>3, <1>se, <2>2, ServedLemma DEF BroadcastNext
  <2> QED BY <1>3, <1>ty, <2>3, <2>4 DEF BroadcastNext, Typed
<1>4. ASSUME NEW n \in Nodes, Send(n) PROVE Typed'
  <2>1. [from |-> n, number |-> counts.sent[n] + 1] \in Message
    BY <1>co DEF Message, Counts
  <2>2. sending' \in [Nodes -> Loops(Slots)]
    <3> DEFINE L == IF n = SERVER THEN Slots ELSE {1}
    <3>1. L \in SUBSET Slots /\ L # {}
      OBVIOUS
    <3>2. [message |-> [from |-> n, number |-> counts.sent[n] + 1], left |-> L] \in Loops(Slots)
      BY <2>1, <3>1, LoopsLemma
    <3> QED BY <1>4, <1>se, <3>2 DEF Send
  <2>3. counts' \in Counts
    BY <1>4, <1>co DEF Send, Counts
  <2> QED BY <1>4, <1>ty, <2>2, <2>3 DEF Send, Typed
<1>5. ASSUME NEW n \in Nodes, Exit(n) PROVE Typed'
  <2>1. network' \in [Nodes -> Object]
    BY <1>5, <1>nw, ClosedLemma DEF Exit
  <2>2. parting' \subseteq Nodes \X Nodes
    <3>1. Parted(n) \subseteq Nodes \X Nodes
      <4>1. CASE n = SERVER
        BY <1>sg, <4>1 DEF Parted
      <4>2. CASE n # SERVER
        BY <4>2 DEF Parted
      <4> QED BY <4>1, <4>2
    <3> QED BY <1>5, <1>ty, <3>1 DEF Exit, Typed
  <2>3. peer' \in [Guests -> PeerStates]
    BY <1>5, <1>pe DEF Exit, PeerStates
  <2>4. counts' \in Counts
    BY <1>5, <1>co DEF Exit, Counts
  <2>5. process' \in [Nodes -> {"idle", "running", "exited", "crashed"}]
    BY <1>5, <1>pr DEF Exit
  <2> QED BY <1>5, <1>ty, <2>1, <2>2, <2>3, <2>4, <2>5 DEF Exit, Typed
<1>6. ASSUME NEW n \in Nodes, Peek(n) PROVE Typed'
  BY <1>6, <1>ty DEF Peek, Typed
<1>7. ASSUME NEW n \in Nodes, Receive(n) PROVE Typed'
  <2>1. network[n].payloads \in Seq(Message)
    BY <1>nw DEF Object
  <2>2. CASE network[n].payloads = <<>>
    BY <1>7, <1>ty, <2>2 DEF Receive, Typed
  <2>3. CASE network[n].payloads # <<>>
    <3>1. Head(network[n].payloads) \in Message /\ Tail(network[n].payloads) \in Seq(Message)
      BY <2>1, <2>3
    <3>2. network' \in [Nodes -> Object]
      <4>1. network' = [network EXCEPT ![n].payloads = Tail(@)]
        BY <1>7, <2>3 DEF Receive
      <4> QED BY <1>nw, <3>1, <4>1, PayloadsUpdate
    <3>3. printed' \in [Nodes -> Seq(Message)]
      <4>1. printed \in [Nodes -> Seq(Message)]
        BY <1>ty DEF Typed
      <4>2. Append(printed[n], Head(network[n].payloads)) \in Seq(Message)
        BY <4>1, <3>1
      <4> QED BY <1>7, <2>3, <4>1, <4>2 DEF Receive
    <3> QED BY <1>7, <1>ty, <2>3, <3>2, <3>3 DEF Receive, Typed
  <2> QED BY <2>2, <2>3
<1>8. ASSUME NEW n \in Nodes, Overlap(n) PROVE Typed'
  <2>1. counts' \in Counts
    BY <1>8, <1>co DEF Overlap, Counts
  <2> QED BY <1>8, <1>ty, <2>1 DEF Overlap, Typed
<1>9. ASSUME NEW g \in Guests, OpenSlot(g) PROVE Typed'
  <2> DEFINE free == {s \in Slots : slots[s].state = "DISCONNECTED"}
             s    == Min(free)
  <2>1. s \in Slots
    BY <1>9, MinOfSet DEF OpenSlot
  <2>2. slots' = [slots EXCEPT ![s].state = "CONNECTING", ![s].guest = g]
    BY <1>9 DEF OpenSlot
  <2> HIDE DEF s
  <2>3. slots' \in [Slots -> Slot]
    <3>1. "CONNECTING" \in PeerStates /\ g \in Guests \cup {NoGuest}
      BY <1>ps
    <3> QED BY <1>sl, <2>1, <2>2, <3>1, SlotStateUpdate
  <2> QED BY <1>9, <1>ty, <2>3 DEF OpenSlot, Typed
<1>10. ASSUME NEW s \in Slots, RefuseGuest(s) PROVE Typed'
  <2>1. slots' \in [Slots -> Slot]
    <3>1. "DISCONNECTED" \in PeerStates /\ NoGuest \in Guests \cup {NoGuest}
      BY <1>ps
    <3>2. slots' = [slots EXCEPT ![s].state = "DISCONNECTED", ![s].guest = NoGuest]
      BY <1>10 DEF RefuseGuest, ResetSlot
    <3> QED BY <1>sl, <3>1, <3>2, SlotStateUpdate
  <2> QED BY <1>10, <1>ty, <2>1 DEF RefuseGuest, Typed
<1>11. ASSUME NEW s \in Slots, AcceptGuest(s) PROVE Typed'
  <2> DEFINE g == slots[s].guest
  <2>1. g \in Guests /\ unique_id[g] \in Ids
    BY <1>11, <1>sg, <1>ty DEF AcceptGuest, Connects, Typed
  <2>2. Inserted(network[SERVER].peers, unique_id[g], s) \in PeersMaps
    BY <1>nw, <2>1, InsertedLemma DEF Object
  <2>3. network' \in [Nodes -> Object]
    BY <1>11, <1>nw, <2>2 DEF AcceptGuest, Object
  <2>4. slots' \in [Slots -> Slot]
    <3> DEFINE id == unique_id[g]
    <3>1. "CONNECTED" \in PeerStates /\ id \in Ids
      BY <1>ps, <2>1
    <3>2. slots' = [slots EXCEPT ![s].state = "CONNECTED", ![s].data = id]
      BY <1>11 DEF AcceptGuest
    <3> HIDE DEF id
    <3> QED BY <1>sl, <3>1, <3>2, SlotDataUpdate
  <2>5. told' \in [Guests -> SUBSET Ids]
    BY <1>11, <1>ty, <2>1 DEF AcceptGuest, AddPeer, Typed, Base, PeersHold
  <2>6. reused' \subseteq Guests
    BY <1>11, <1>ty, <2>1 DEF AcceptGuest, Typed
  <2> QED BY <1>11, <1>ty, <2>3, <2>4, <2>5, <2>6 DEF AcceptGuest, Typed
<1>12. ASSUME NEW s \in Slots, GuestLeaves(s) PROVE Typed'
  <2>1. slots' \in [Slots -> Slot]
    BY <1>12, <1>sl, SlotStateUpdate, ZenonT(30) DEF GuestLeaves, ResetSlot, PeerStates
  <2>2. up' \in [Guests -> Seq(Message)]
    <3>1. <<>> \in Seq(Message)
      OBVIOUS
    <3> QED BY <1>12, <1>ch, <3>1 DEF GuestLeaves
  <2>3. parting' \subseteq Nodes \X Nodes
    BY <1>12, <1>ty DEF GuestLeaves, Typed
  <2> QED BY <1>12, <1>ty, <2>1, <2>2, <2>3 DEF GuestLeaves, Typed
<1>13. ASSUME NEW s \in Slots, ReceiveFromGuest(s) PROVE Typed'
  <2> DEFINE g == slots[s].guest
             m == Head(up[g])
  <2>1. g \in Guests /\ m \in Message /\ Tail(up[g]) \in Seq(Message)
    BY <1>13, <1>sg, <1>ch DEF ReceiveFromGuest
  <2>2. up' \in [Guests -> Seq(Message)]
    BY <1>13, <1>ch, <2>1 DEF ReceiveFromGuest
  <2>3. network' \in [Nodes -> Object]
    <3>1. CASE SenderId(m) = slots[s].data
      <4>1. Kept(network[SERVER].payloads, m) \in Seq(Message)
        BY <1>nw, <2>1 DEF Kept, Object
      <4>2. network' = [network EXCEPT ![SERVER].payloads = Kept(@, m)]
        BY <1>13, <3>1 DEF ReceiveFromGuest
      <4> QED BY <1>nw, <4>1, <4>2, PayloadsUpdate
    <3>2. CASE SenderId(m) # slots[s].data
      BY <1>13, <1>nw, <3>2 DEF ReceiveFromGuest
    <3> QED BY <3>1, <3>2
  <2>4. relaying' \in Loops(Ids)
    <3>1. RelayTargets(m) \in SUBSET Ids
      BY DEF RelayTargets, Base, PeersHold
    <3> QED BY <1>13, <1>se, <2>1, <3>1, LoopsLemma DEF ReceiveFromGuest
  <2> QED BY <1>13, <1>ty, <2>2, <2>3, <2>4 DEF ReceiveFromGuest, Typed
<1>14. ASSUME RelayNext PROVE Typed'
  <2> DEFINE id == Min(relaying.left)
  <2>1. relaying.message \in Message /\ relaying.left \subseteq Ids /\ relaying.left # {}
    BY <1>14, <1>se, LoopsLemma DEF RelayNext
  <2>2. id \in relaying.left
    BY <2>1, MinOfSet
  <2>3. network[SERVER].peers[id] \in Slots
    <3>1. network[SERVER].peers \in PeersMaps /\ id \in DOMAIN network[SERVER].peers
      BY <1>14, <1>nw, <2>2 DEF RelayNext, Base, SendingHolds, Object
    <3> QED BY <3>1, InsertedLemma
  <2>4. down' \in [Guests -> Seq(Message)]
    <3> DEFINE s == network[SERVER].peers[id]
    <3>1. down' = SentDown(s, relaying.message)
      BY <1>14 DEF RelayNext
    <3>2. s \in Slots
      BY <2>3
    <3> HIDE DEF s
    <3>3. CASE slots[s].state = "CONNECTED"
      <4>1. slots[s].guest \in Guests
        BY <1>sg, <3>2, <3>3
      <4> QED BY <1>ch, <2>1, <3>1, <3>3, <4>1 DEF SentDown
    <3>4. CASE slots[s].state # "CONNECTED"
      BY <1>ch, <3>1, <3>4 DEF SentDown
    <3> QED BY <3>3, <3>4
  <2>5. relaying' \in Loops(Ids)
    BY <1>14, <1>se, <2>2, ServedLemma DEF RelayNext
  <2> QED BY <1>14, <1>ty, <2>4, <2>5 DEF RelayNext, Typed
<1>15. ASSUME NEW g \in Guests, GuestConnects(g) PROVE Typed'
  <2>1. Inserted(network[g].peers, SERVER_ID, 1) \in PeersMaps
    BY <1>nw, InsertedLemma DEF Object
  <2>2. network' \in [Nodes -> Object]
    BY <1>15, <1>nw, <2>1 DEF GuestConnects, Object, PeerStates
  <2>3. peer' \in [Guests -> PeerStates]
    BY <1>15, <1>pe DEF GuestConnects, PeerStates
  <2> QED BY <1>15, <1>ty, <2>2, <2>3 DEF GuestConnects, Typed
<1>16. ASSUME NEW g \in Guests, ReceiveFromServer(g) PROVE Typed'
  <2>1. Head(down[g]) \in Message /\ Tail(down[g]) \in Seq(Message)
    BY <1>16, <1>ch DEF ReceiveFromServer
  <2>2. network' \in [Nodes -> Object]
    <3>1. Kept(network[g].payloads, Head(down[g])) \in Seq(Message)
      BY <1>nw, <2>1 DEF Kept, Object
    <3>2. network' = [network EXCEPT ![g].payloads = Kept(@, Head(down[g]))]
      BY <1>16 DEF ReceiveFromServer
    <3> QED BY <1>nw, <3>1, <3>2, PayloadsUpdate
  <2>3. down' \in [Guests -> Seq(Message)]
    BY <1>16, <1>ch, <2>1 DEF ReceiveFromServer
  <2> QED BY <1>16, <1>ty, <2>2, <2>3 DEF ReceiveFromServer, Typed
<1>17. ASSUME NEW g \in Guests, ServerLeaves(g) PROVE Typed'
  <2>1. network' \in [Nodes -> Object]
    BY <1>17, <1>nw, ClosedLemma DEF ServerLeaves
  <2>2. peer' \in [Guests -> PeerStates]
    BY <1>17, <1>pe DEF ServerLeaves, PeerStates
  <2>3. parting' \subseteq Nodes \X Nodes
    BY <1>17, <1>ty DEF ServerLeaves, Typed
  <2> QED BY <1>17, <1>ty, <2>1, <2>2, <2>3 DEF ServerLeaves, Typed
<1>18. CASE UNCHANGED vars
  BY <1>18, <1>ty DEF vars, Typed
<1> QED
  BY <1>1, <1>2, <1>3, <1>4, <1>5, <1>6, <1>7, <1>8, <1>9, <1>10, <1>11, <1>12,
     <1>13, <1>14, <1>15, <1>16, <1>17, <1>18 DEF Next, MainNext, ServerPolls, GuestPolls

-----------------------------------------------------------------------------
(* What the actions that change the slots or an object do to them.         *)

LEMMA OpenSlotEffect ==
    ASSUME Typed, NEW g \in Guests, OpenSlot(g)
    PROVE  \E s \in Slots :
              /\ ~IsOpen(s)
              /\ slots'[s] = [state |-> "CONNECTING", data |-> slots[s].data, guest |-> g]
              /\ \A t \in Slots \ {s} : slots'[t] = slots[t]
<1> DEFINE free == {s \in Slots : slots[s].state = "DISCONNECTED"}
           s    == Min(free)
<1>1. slots' = [slots EXCEPT ![s].state = "CONNECTING", ![s].guest = g] /\ free # {}
  BY DEF OpenSlot
<1>2. s \in Slots /\ ~IsOpen(s)
  <2>1. s \in free
    BY <1>1, IdsLemma, MinOfSet
  <2> QED BY <2>1 DEF IsOpen
<1>3. slots \in [Slots -> Slot]
  BY DEF Typed
<1> HIDE DEF s
<1>4. /\ slots'[s] = [state |-> "CONNECTING", data |-> slots[s].data, guest |-> g]
      /\ \A t \in Slots \ {s} : slots'[t] = slots[t]
  BY <1>1, <1>2, <1>3 DEF Slot
<1> QED BY <1>2, <1>4

LEMMA ResetSlotEffect ==
    ASSUME Typed, NEW s \in Slots, RefuseGuest(s) \/ GuestLeaves(s)
    PROVE  /\ slots[s].state # "DISCONNECTED"
           /\ slots'[s].state = "DISCONNECTED" /\ slots'[s].guest = NoGuest
           /\ slots'[s].data = slots[s].data
           /\ \A t \in Slots \ {s} : slots'[t] = slots[t]
<1>1. slots \in [Slots -> Slot]
  BY DEF Typed
<1>2. slots' = ResetSlot(s) /\ slots[s].state # "DISCONNECTED"
  BY DEF RefuseGuest, GuestLeaves, Connects
<1> QED BY <1>1, <1>2 DEF ResetSlot, Slot

LEMMA AcceptGuestEffect ==
    ASSUME Typed, SlotsHold, NEW s \in Slots, AcceptGuest(s)
    PROVE  LET g == slots[s].guest
           IN  /\ g \in Guests /\ unique_id[g] \in Ids
               /\ slots'[s] = [state |-> "CONNECTED", data |-> unique_id[g], guest |-> g]
               /\ \A t \in Slots \ {s} : slots'[t] = slots[t]
               /\ network'[SERVER].peers = Inserted(network[SERVER].peers, unique_id[g], s)
               /\ \A n \in Nodes : /\ network'[n].payloads = network[n].payloads
                                   /\ network'[n].active = network[n].active
               /\ \A n \in Nodes \ {SERVER} : network'[n] = network[n]
<1> DEFINE g == slots[s].guest
<1>1. slots \in [Slots -> Slot] /\ network \in [Nodes -> Object] /\ SERVER \in Nodes
  BY IdsLemma DEF Typed
<1>2. g \in Guests
  BY <1>1 DEF AcceptGuest, Connects, SlotsHold, IsOpen, Slot
<1>3. unique_id[g] \in Ids
  BY <1>2 DEF Typed
<1>4. /\ slots'[s] = [state |-> "CONNECTED", data |-> unique_id[g], guest |-> g]
      /\ \A t \in Slots \ {s} : slots'[t] = slots[t]
  BY <1>1 DEF AcceptGuest, Slot
<1>5. /\ network'[SERVER].peers = Inserted(network[SERVER].peers, unique_id[g], s)
      /\ \A n \in Nodes : /\ network'[n].payloads = network[n].payloads
                          /\ network'[n].active = network[n].active
      /\ \A n \in Nodes \ {SERVER} : network'[n] = network[n]
  BY <1>1 DEF AcceptGuest, Object
<1> QED BY <1>2, <1>3, <1>4, <1>5

LEMMA CreateClientEffect ==
    ASSUME Typed, NEW g \in Guests, CreateClient(g)
    PROVE  /\ network'[g].peers = network[g].peers /\ network'[g].payloads = network[g].payloads
           /\ network'[g].active
           /\ \A n \in Nodes \ {g} : network'[n] = network[n]
           /\ peer' = [peer EXCEPT ![g] = "CONNECTING"]
<1>1. network \in [Nodes -> Object] /\ g \in Nodes
  BY IdsLemma DEF Typed
<1> QED BY <1>1 DEF CreateClient, Object

LEMMA GuestConnectsEffect ==
    ASSUME Typed, NEW g \in Guests, GuestConnects(g)
    PROVE  /\ network'[g].peers = Inserted(network[g].peers, SERVER_ID, 1)
           /\ network'[g].payloads = network[g].payloads
           /\ network'[g].active = network[g].active
           /\ \A n \in Nodes \ {g} : network'[n] = network[n]
           /\ peer' = [peer EXCEPT ![g] = "CONNECTED"]
<1>1. network \in [Nodes -> Object] /\ g \in Nodes
  BY IdsLemma DEF Typed
<1> QED BY <1>1 DEF GuestConnects, Object

LEMMA ReceiveEffect ==
    ASSUME Typed, NEW n \in Nodes, Receive(n), network[n].payloads # <<>>
    PROVE  /\ network'[n].payloads = Tail(network[n].payloads)
           /\ printed' = [printed EXCEPT ![n] = Append(@, Head(network[n].payloads))]
           /\ \A k \in Nodes : /\ network'[k].peers = network[k].peers
                               /\ network'[k].active = network[k].active
           /\ \A k \in Nodes \ {n} : network'[k] = network[k]
<1>1. network \in [Nodes -> Object]
  BY DEF Typed
<1>2. /\ network' = [network EXCEPT ![n].payloads = Tail(@)]
      /\ printed' = [printed EXCEPT ![n] = Append(@, Head(network[n].payloads))]
  BY DEF Receive
<1> QED BY <1>1, <1>2 DEF Object

LEMMA ReceiveFromServerEffect ==
    ASSUME Typed, NEW g \in Guests, ReceiveFromServer(g)
    PROVE  /\ network'[g].payloads = Append(network[g].payloads, Head(down[g]))
           /\ \A k \in Nodes : /\ network'[k].peers = network[k].peers
                               /\ network'[k].active = network[k].active
           /\ \A k \in Nodes \ {g} : network'[k] = network[k]
<1>1. network \in [Nodes -> Object] /\ g \in Nodes
  BY IdsLemma DEF Typed
<1> QED BY <1>1 DEF ReceiveFromServer, Kept, Object

LEMMA ReceiveFromGuestEffect ==
    ASSUME Typed, SlotsHold, NEW s \in Slots, ReceiveFromGuest(s)
    PROVE  LET g == slots[s].guest
               m == Head(up[g])
           IN  /\ g \in Guests /\ IsConnected(s)
               /\ up[g] # <<>> /\ m \in Message /\ up' = [up EXCEPT ![g] = Tail(@)]
               /\ network'[SERVER].payloads =
                      IF SenderId(m) = slots[s].data
                      THEN Append(network[SERVER].payloads, m) ELSE network[SERVER].payloads
               /\ \A k \in Nodes : /\ network'[k].peers = network[k].peers
                                   /\ network'[k].active = network[k].active
               /\ \A k \in Nodes \ {SERVER} : network'[k] = network[k]
<1> DEFINE g == slots[s].guest
           m == Head(up[g])
<1>1. network \in [Nodes -> Object] /\ SERVER \in Nodes /\ slots \in [Slots -> Slot]
  BY IdsLemma DEF Typed
<1>2. g \in Guests /\ IsConnected(s)
  BY <1>1 DEF ReceiveFromGuest, SlotsHold, IsOpen, IsConnected, Slot
<1>3. up[g] # <<>> /\ m \in Message /\ up' = [up EXCEPT ![g] = Tail(@)]
  BY <1>2 DEF ReceiveFromGuest, Typed
<1>4. CASE SenderId(m) = slots[s].data
  <2>1. network' = [network EXCEPT ![SERVER].payloads = Append(@, m)]
    BY <1>4 DEF ReceiveFromGuest, Kept
  <2>2. /\ network'[SERVER].payloads = Append(network[SERVER].payloads, m)
        /\ \A k \in Nodes : /\ network'[k].peers = network[k].peers
                            /\ network'[k].active = network[k].active
        /\ \A k \in Nodes \ {SERVER} : network'[k] = network[k]
    BY <1>1, <2>1 DEF Object
  <2> QED BY <1>2, <1>3, <1>4, <2>2
<1>5. CASE SenderId(m) # slots[s].data
  BY <1>2, <1>3, <1>5 DEF ReceiveFromGuest
<1> QED BY <1>4, <1>5

-----------------------------------------------------------------------------
(* Peers, slots and processes.                                             *)

LEMMA PeersHoldStep == ASSUME Base, [Next]_vars PROVE PeersHold'
<1>ty. Typed /\ PeersHold /\ peer \in [Guests -> PeerStates]
  BY DEF Base, Typed
<1>id. SERVER \in Nodes /\ Guests \subseteq Nodes /\ SERVER \notin Guests
  BY IdsLemma, RelayAssumption
<1>0. ASSUME \A n \in Nodes : network'[n].peers = network[n].peers, UNCHANGED peer
      PROVE  PeersHold'
  BY <1>ty, <1>id, <1>0 DEF PeersHold
<1>1. ASSUME NEW g \in Guests, CreateClient(g) PROVE PeersHold'
  <2>1. process[g] = "idle" /\ network[g].peers = <<>>
    BY <1>1, <1>id DEF CreateClient, Base, ProcessesHold, Closed
  <2>2. \A n \in Nodes : network'[n].peers = network[n].peers
    BY <1>1, <1>ty, <1>id, CreateClientEffect
  <2>3. peer' = [peer EXCEPT ![g] = "CONNECTING"]
    BY <1>1 DEF CreateClient
  <2> QED BY <1>ty, <1>id, <2>1, <2>2, <2>3, ClosedLemma DEF PeersHold
<1>2. ASSUME NEW g \in Guests, SendToServer(g) PROVE PeersHold'
  BY <1>2, <1>0 DEF SendToServer
<1>3. ASSUME BroadcastNext PROVE PeersHold'
  BY <1>3, <1>0 DEF BroadcastNext
<1>4. ASSUME NEW n \in Nodes, Send(n) PROVE PeersHold'
  BY <1>4, <1>0 DEF Send
<1>5. ASSUME NEW n \in Nodes, Exit(n) PROVE PeersHold'
  <2>1. network'[n] = Closed /\ \A k \in Nodes \ {n} : network'[k] = network[k]
    BY <1>5, <1>ty DEF Exit, Typed
  <2>2. Closed.peers = <<>> /\ DOMAIN <<>> = {}
    BY ClosedLemma DEF Closed
  <2>3. CASE n = SERVER
    <3>1. peer' = peer
      BY <1>5, <2>3 DEF Exit
    <3> QED BY <1>ty, <1>id, <2>1, <2>2, <2>3, <3>1 DEF PeersHold
  <2>4. CASE n # SERVER
    <3>1. n \in Guests
      BY <2>4, IdsLemma
    <3>2. peer[n] = "CONNECTED" => Parted(n) # {}
      BY <1>ty, <2>2, <2>4, <3>1 DEF Parted, PeersHold
    <3>3. peer'[n] # "CONNECTED" /\ \A g \in Guests \ {n} : peer'[g] = peer[g]
      BY <1>5, <1>ty, <2>4, <3>1, <3>2 DEF Exit
    <3> QED BY <1>ty, <1>id, <2>1, <2>2, <2>4, <3>1, <3>3 DEF PeersHold
  <2> QED BY <2>3, <2>4
<1>6. ASSUME NEW n \in Nodes, Peek(n) PROVE PeersHold'
  BY <1>6, <1>0 DEF Peek
<1>7. ASSUME NEW n \in Nodes, Receive(n) PROVE PeersHold'
  <2>1. CASE network[n].payloads = <<>>
    BY <1>7, <1>0, <2>1 DEF Receive
  <2>2. CASE network[n].payloads # <<>>
    <3>1. peer' = peer
      BY <1>7 DEF Receive
    <3> QED BY <1>7, <1>ty, <1>0, <2>2, <3>1, ReceiveEffect
  <2> QED BY <2>1, <2>2
<1>8. ASSUME NEW n \in Nodes, Overlap(n) PROVE PeersHold'
  BY <1>8, <1>0 DEF Overlap
<1>9. ASSUME NEW g \in Guests, OpenSlot(g) PROVE PeersHold'
  BY <1>9, <1>0 DEF OpenSlot
<1>10. ASSUME NEW s \in Slots, RefuseGuest(s) PROVE PeersHold'
  BY <1>10, <1>0 DEF RefuseGuest
<1>11. ASSUME NEW s \in Slots, AcceptGuest(s) PROVE PeersHold'
  <2>1. peer' = peer
    BY <1>11 DEF AcceptGuest
  <2>2. /\ network'[SERVER].peers = Inserted(network[SERVER].peers, unique_id[slots[s].guest], s)
        /\ unique_id[slots[s].guest] \in Ids
        /\ \A n \in Nodes \ {SERVER} : network'[n] = network[n]
    BY <1>11, <1>ty, AcceptGuestEffect DEF Base
  <2>3. DOMAIN network'[SERVER].peers = DOMAIN network[SERVER].peers \cup {unique_id[slots[s].guest]}
    BY <2>2 DEF Inserted
  <2> QED BY <1>ty, <1>id, <2>1, <2>2, <2>3 DEF PeersHold
<1>12. ASSUME NEW s \in Slots, GuestLeaves(s) PROVE PeersHold'
  BY <1>12, <1>0 DEF GuestLeaves
<1>13. ASSUME NEW s \in Slots, ReceiveFromGuest(s) PROVE PeersHold'
  <2>1. peer' = peer
    BY <1>13 DEF ReceiveFromGuest
  <2> QED BY <1>13, <1>ty, <1>0, <2>1, ReceiveFromGuestEffect DEF Base
<1>14. ASSUME RelayNext PROVE PeersHold'
  BY <1>14, <1>0 DEF RelayNext
<1>15. ASSUME NEW g \in Guests, GuestConnects(g) PROVE PeersHold'
  <2>1. /\ network'[g].peers = Inserted(network[g].peers, SERVER_ID, 1)
        /\ \A n \in Nodes \ {g} : network'[n] = network[n]
        /\ peer' = [peer EXCEPT ![g] = "CONNECTED"]
    BY <1>15, <1>ty, GuestConnectsEffect
  <2>2. DOMAIN network[g].peers = {}
    BY <1>15, <1>ty DEF GuestConnects, PeersHold
  <2>3. DOMAIN network'[g].peers = {SERVER_ID}
    BY <2>1, <2>2 DEF Inserted
  <2> QED BY <1>ty, <1>id, <2>1, <2>3 DEF PeersHold
<1>16. ASSUME NEW g \in Guests, ReceiveFromServer(g) PROVE PeersHold'
  <2>1. peer' = peer
    BY <1>16 DEF ReceiveFromServer
  <2> QED BY <1>16, <1>ty, <1>0, <2>1, ReceiveFromServerEffect
<1>17. ASSUME NEW g \in Guests, ServerLeaves(g) PROVE PeersHold'
  <2>1. /\ network'[g].peers = IF peer[g] = "CONNECTED" THEN <<>> ELSE network[g].peers
        /\ \A k \in Nodes \ {g} : network'[k] = network[k]
    BY <1>17, <1>ty, <1>id DEF ServerLeaves, Typed, Closed
  <2>2. peer' = [peer EXCEPT ![g] = "DISCONNECTED"]
    BY <1>17 DEF ServerLeaves
  <2> QED BY <1>ty, <1>id, <2>1, <2>2, ClosedLemma DEF PeersHold
<1>18. CASE UNCHANGED vars
  BY <1>18, <1>0 DEF vars
<1> QED
  BY <1>1, <1>2, <1>3, <1>4, <1>5, <1>6, <1>7, <1>8, <1>9, <1>10, <1>11, <1>12,
     <1>13, <1>14, <1>15, <1>16, <1>17, <1>18, IdsLemma DEF Next, MainNext, ServerPolls, GuestPolls

LEMMA SlotsHoldStep == ASSUME Base, [Next]_vars PROVE SlotsHold'
<1>ty. Typed /\ SlotsHold
  BY DEF Base
<1>ft. peer \in [Guests -> PeerStates] /\ DOMAIN process = Nodes /\ slots \in [Slots -> Slot]
  BY <1>ty DEF Typed
<1>gu. \A s \in Slots : IsOpen(s) => slots[s].guest \in Guests
  BY <1>ty, <1>ft DEF SlotsHold, Slot
<1>0. ASSUME UNCHANGED slots,
             \A g \in Guests : process[g] # "idle" => process'[g] # "idle",
             \A g \in Guests : process[g] # "idle" /\ peer[g] # "CONNECTING"
                                => peer'[g] # "CONNECTING"
      PROVE  SlotsHold'
  BY <1>ty, <1>gu, <1>0 DEF SlotsHold, IsOpen, IsConnected
<1>re. ASSUME NEW s \in Slots, RefuseGuest(s) \/ GuestLeaves(s), UNCHANGED <<process, peer>>
       PROVE  SlotsHold'
  <2>1. /\ slots'[s].state = "DISCONNECTED" /\ slots'[s].guest = NoGuest
        /\ \A t \in Slots \ {s} : slots'[t] = slots[t]
    BY <1>ty, <1>re, ResetSlotEffect
  <2> QED BY <1>ty, <1>re, <2>1 DEF SlotsHold, IsOpen, IsConnected
<1>1. ASSUME NEW g \in Guests, CreateClient(g) PROVE SlotsHold'
  BY <1>1, <1>0, <1>ft, IdsLemma DEF CreateClient
<1>2. ASSUME NEW g \in Guests, SendToServer(g) PROVE SlotsHold'
  BY <1>2, <1>0, <1>ft, IdsLemma DEF SendToServer
<1>3. ASSUME BroadcastNext PROVE SlotsHold'
  BY <1>3, <1>0 DEF BroadcastNext
<1>4. ASSUME NEW n \in Nodes, Send(n) PROVE SlotsHold'
  BY <1>4, <1>0 DEF Send
<1>5. ASSUME NEW n \in Nodes, Exit(n) PROVE SlotsHold'
  BY <1>5, <1>0, <1>ft, IdsLemma DEF Exit
<1>6. ASSUME NEW n \in Nodes, Peek(n) PROVE SlotsHold'
  BY <1>6, <1>0 DEF Peek
<1>7. ASSUME NEW n \in Nodes, Receive(n) PROVE SlotsHold'
  BY <1>7, <1>0, <1>ft, IdsLemma DEF Receive
<1>8. ASSUME NEW n \in Nodes, Overlap(n) PROVE SlotsHold'
  BY <1>8, <1>0, <1>ft, IdsLemma DEF Overlap
<1>9. ASSUME NEW g \in Guests, OpenSlot(g) PROVE SlotsHold'
  <2>1. PICK s \in Slots :
           /\ ~IsOpen(s)
           /\ slots'[s] = [state |-> "CONNECTING", data |-> slots[s].data, guest |-> g]
           /\ \A t \in Slots \ {s} : slots'[t] = slots[t]
    BY <1>9, <1>ty, OpenSlotEffect
  <2>2. process[g] # "idle" /\ \A t \in Slots : IsOpen(t) => slots[t].guest # g
    BY <1>9 DEF OpenSlot, SlotsOf, IsOpen
  <2>3. UNCHANGED <<process, peer>> /\ g # NoGuest
    BY <1>9, RelayAssumption DEF OpenSlot
  <2> QED BY <1>ty, <2>1, <2>2, <2>3 DEF SlotsHold, IsOpen, IsConnected
<1>10. ASSUME NEW s \in Slots, RefuseGuest(s) PROVE SlotsHold'
  BY <1>10, <1>re DEF RefuseGuest
<1>11. ASSUME NEW s \in Slots, AcceptGuest(s) PROVE SlotsHold'
  <2>1. /\ slots'[s] = [state |-> "CONNECTED", data |-> unique_id[slots[s].guest],
                          guest |-> slots[s].guest]
        /\ \A t \in Slots \ {s} : slots'[t] = slots[t]
    BY <1>11, <1>ty, AcceptGuestEffect
  <2>2. IsOpen(s) /\ peer[slots[s].guest] # "CONNECTING" /\ UNCHANGED <<process, peer>>
    BY <1>11 DEF AcceptGuest, Connects, IsOpen
  <2> QED BY <1>ty, <2>1, <2>2 DEF SlotsHold, IsOpen, IsConnected
<1>12. ASSUME NEW s \in Slots, GuestLeaves(s) PROVE SlotsHold'
  BY <1>12, <1>re DEF GuestLeaves
<1>13. ASSUME NEW s \in Slots, ReceiveFromGuest(s) PROVE SlotsHold'
  BY <1>13, <1>0 DEF ReceiveFromGuest
<1>14. ASSUME RelayNext PROVE SlotsHold'
  BY <1>14, <1>0 DEF RelayNext
<1>15. ASSUME NEW g \in Guests, GuestConnects(g) PROVE SlotsHold'
  BY <1>15, <1>0, <1>ft DEF GuestConnects
<1>16. ASSUME NEW g \in Guests, ReceiveFromServer(g) PROVE SlotsHold'
  BY <1>16, <1>0 DEF ReceiveFromServer
<1>17. ASSUME NEW g \in Guests, ServerLeaves(g) PROVE SlotsHold'
  BY <1>17, <1>0, <1>ft DEF ServerLeaves
<1>18. CASE UNCHANGED vars
  BY <1>18, <1>0 DEF vars
<1> QED
  BY <1>1, <1>2, <1>3, <1>4, <1>5, <1>6, <1>7, <1>8, <1>9, <1>10, <1>11, <1>12,
     <1>13, <1>14, <1>15, <1>16, <1>17, <1>18, IdsLemma DEF Next, MainNext, ServerPolls, GuestPolls

LEMMA ProcessesHoldStep == ASSUME Base, [Next]_vars PROVE ProcessesHold'
<1>ty. Typed /\ SlotsHold /\ ProcessesHold
  BY DEF Base
<1>ft. /\ peer \in [Guests -> PeerStates] /\ DOMAIN process = Nodes
       /\ DOMAIN network = Nodes /\ DOMAIN taking = Nodes
       /\ SERVER \notin Guests
  BY <1>ty, RelayAssumption DEF Typed
<1>0. ASSUME \A n \in Nodes :
                process'[n] = "idle" =>
                   process[n] = "idle" /\ network'[n] = network[n] /\ taking'[n] = taking[n],
             \A g \in Guests : process'[g] = "idle" => peer'[g] = peer[g],
             \A g \in Guests : process[g] = "exited" => process'[g] = "exited",
             \A g \in Guests : <<g, SERVER>> \in parting' =>
                                   <<g, SERVER>> \in parting \/ process'[g] = "exited"
      PROVE  ProcessesHold'
  BY <1>ty, <1>0, IdsLemma DEF ProcessesHold
<1>1. ASSUME NEW g \in Guests, CreateClient(g) PROVE ProcessesHold'
  BY <1>1, <1>0, <1>ft, IdsLemma DEF CreateClient
<1>2. ASSUME NEW g \in Guests, SendToServer(g) PROVE ProcessesHold'
  BY <1>2, <1>0, <1>ft, IdsLemma DEF SendToServer, Running
<1>3. ASSUME BroadcastNext PROVE ProcessesHold'
  BY <1>3, <1>0 DEF BroadcastNext
<1>4. ASSUME NEW n \in Nodes, Send(n) PROVE ProcessesHold'
  BY <1>4, <1>0 DEF Send
<1>5. ASSUME NEW n \in Nodes, Exit(n) PROVE ProcessesHold'
  <2>1. process' = [process EXCEPT ![n] = "exited"] /\ process[n] = "running"
    BY <1>5 DEF Exit, Running
  <2>2. \A g \in Guests : <<g, SERVER>> \in parting' => <<g, SERVER>> \in parting \/ g = n
    BY <1>5, <1>ft DEF Exit, Parted
  <2>3. \A k \in Nodes : k # n => network'[k] = network[k] /\ taking'[k] = taking[k]
    BY <1>5, <1>ft DEF Exit
  <2>4. \A g \in Guests : g # n => peer'[g] = peer[g]
    BY <1>5, <1>ft DEF Exit
  <2> QED BY <1>0, <1>ft, <2>1, <2>2, <2>3, <2>4, IdsLemma
<1>6. ASSUME NEW n \in Nodes, Peek(n) PROVE ProcessesHold'
  BY <1>6, <1>0, <1>ft DEF Peek, Running
<1>7. ASSUME NEW n \in Nodes, Receive(n) PROVE ProcessesHold'
  <2>1. process[n] = "running" /\ process'[n] \in {"running", "crashed"}
    BY <1>7, <1>ft DEF Receive, Running
  <2>2. \A k \in Nodes \ {n} : process'[k] = process[k] /\ network'[k] = network[k]
                               /\ taking'[k] = taking[k]
    BY <1>7, <1>ft DEF Receive
  <2>3. UNCHANGED <<peer, parting>>
    BY <1>7 DEF Receive
  <2> QED BY <1>0, <2>1, <2>2, <2>3, IdsLemma
<1>8. ASSUME NEW n \in Nodes, Overlap(n) PROVE ProcessesHold'
  BY <1>8, <1>0, <1>ft, IdsLemma DEF Overlap, Running
<1>9. ASSUME NEW g \in Guests, OpenSlot(g) PROVE ProcessesHold'
  BY <1>9, <1>0 DEF OpenSlot
<1>10. ASSUME NEW s \in Slots, RefuseGuest(s) PROVE ProcessesHold'
  BY <1>10, <1>0 DEF RefuseGuest
<1>11. ASSUME NEW s \in Slots, AcceptGuest(s) PROVE ProcessesHold'
  <2>1. UNCHANGED <<process, peer, parting, taking>>
    BY <1>11 DEF AcceptGuest
  <2>2. \A n \in Nodes \ {SERVER} : network'[n] = network[n]
    BY <1>11, <1>ty, AcceptGuestEffect
  <2> QED BY <1>0, <1>ty, <2>1, <2>2 DEF ProcessesHold
<1>12. ASSUME NEW s \in Slots, GuestLeaves(s) PROVE ProcessesHold'
  BY <1>12, <1>0 DEF GuestLeaves
<1>13. ASSUME NEW s \in Slots, ReceiveFromGuest(s) PROVE ProcessesHold'
  <2>1. UNCHANGED <<process, peer, parting, taking>>
    BY <1>13 DEF ReceiveFromGuest
  <2>2. \A n \in Nodes \ {SERVER} : network'[n] = network[n]
    BY <1>13, <1>ty, ReceiveFromGuestEffect
  <2> QED BY <1>0, <1>ty, <2>1, <2>2 DEF ProcessesHold
<1>14. ASSUME RelayNext PROVE ProcessesHold'
  BY <1>14, <1>0 DEF RelayNext
<1>15. ASSUME NEW g \in Guests, GuestConnects(g) PROVE ProcessesHold'
  <2>1. UNCHANGED <<process, parting, taking>> /\ process[g] = "running"
    BY <1>15 DEF GuestConnects, Polls, Running
  <2>2. /\ \A n \in Nodes \ {g} : network'[n] = network[n]
        /\ \A k \in Guests \ {g} : peer'[k] = peer[k]
    BY <1>15, <1>ty, <1>ft, GuestConnectsEffect
  <2> QED BY <1>0, <2>1, <2>2
<1>16. ASSUME NEW g \in Guests, ReceiveFromServer(g) PROVE ProcessesHold'
  <2>1. UNCHANGED <<process, peer, parting, taking>> /\ process[g] = "running"
    BY <1>16 DEF ReceiveFromServer, Polls, Running
  <2>2. \A n \in Nodes \ {g} : network'[n] = network[n]
    BY <1>16, <1>ty, ReceiveFromServerEffect
  <2> QED BY <1>0, <2>1, <2>2
<1>17. ASSUME NEW g \in Guests, ServerLeaves(g) PROVE ProcessesHold'
  <2>1. UNCHANGED <<process, taking>> /\ process[g] = "running" /\ parting' \subseteq parting
    BY <1>17 DEF ServerLeaves, Polls, Running
  <2>2. /\ \A n \in Nodes \ {g} : network'[n] = network[n]
        /\ \A k \in Guests \ {g} : peer'[k] = peer[k]
    BY <1>17, <1>ft DEF ServerLeaves
  <2> QED BY <1>0, <2>1, <2>2
<1>18. CASE UNCHANGED vars
  BY <1>18, <1>0 DEF vars
<1> QED
  BY <1>1, <1>2, <1>3, <1>4, <1>5, <1>6, <1>7, <1>8, <1>9, <1>10, <1>11, <1>12,
     <1>13, <1>14, <1>15, <1>16, <1>17, <1>18, IdsLemma DEF Next, MainNext, ServerPolls, GuestPolls

LEMMA StaleIsReusedStep == ASSUME Base, [Next]_vars PROVE StaleIsReused'
<1>ty. Typed /\ SlotsHold /\ StaleIsReused
  BY DEF Base
<1>ft. /\ network \in [Nodes -> Object] /\ SERVER \in Nodes /\ SERVER \notin Guests
       /\ slots \in [Slots -> Slot] /\ network[SERVER].peers \in PeersMaps
       /\ \A id \in DOMAIN network[SERVER].peers : network[SERVER].peers[id] \in Slots
  BY <1>ty, IdsLemma, RelayAssumption DEF Typed, Object, PeersMaps
<1>0. ASSUME network'[SERVER].peers = network[SERVER].peers,
             UNCHANGED <<slots, unique_id>>, reused \subseteq reused'
      PROVE  StaleIsReused'
  BY <1>ty, <1>0 DEF StaleIsReused, IsConnected
<1>re. ASSUME NEW s \in Slots, RefuseGuest(s) \/ GuestLeaves(s),
              UNCHANGED <<network, unique_id, reused>>
       PROVE  StaleIsReused'
  <2>1. /\ slots'[s].data = slots[s].data /\ slots'[s].state # "CONNECTED"
        /\ \A t \in Slots \ {s} : slots'[t] = slots[t]
    BY <1>ty, <1>re, ResetSlotEffect
  <2> QED BY <1>ty, <1>ft, <1>re, <2>1 DEF StaleIsReused, IsConnected
<1>1. ASSUME NEW g \in Guests, CreateClient(g) PROVE StaleIsReused'
  <2>1. network'[SERVER].peers = network[SERVER].peers
    BY <1>1, <1>ty, <1>ft, CreateClientEffect
  <2> QED BY <1>1, <1>0, <2>1 DEF CreateClient
<1>2. ASSUME NEW g \in Guests, SendToServer(g) PROVE StaleIsReused'
  BY <1>2, <1>0 DEF SendToServer
<1>3. ASSUME BroadcastNext PROVE StaleIsReused'
  BY <1>3, <1>0 DEF BroadcastNext
<1>4. ASSUME NEW n \in Nodes, Send(n) PROVE StaleIsReused'
  BY <1>4, <1>0 DEF Send
<1>5. ASSUME NEW n \in Nodes, Exit(n) PROVE StaleIsReused'
  <2>1. CASE n = SERVER
    <3>1. DOMAIN network'[SERVER].peers = {}
      BY <1>5, <1>ft, <2>1, ClosedLemma DEF Exit, Closed
    <3> QED BY <3>1 DEF StaleIsReused
  <2>2. CASE n # SERVER
    BY <1>5, <1>0, <1>ft, <2>2 DEF Exit
  <2> QED BY <2>1, <2>2
<1>6. ASSUME NEW n \in Nodes, Peek(n) PROVE StaleIsReused'
  BY <1>6, <1>0 DEF Peek
<1>7. ASSUME NEW n \in Nodes, Receive(n) PROVE StaleIsReused'
  <2>1. CASE network[n].payloads = <<>>
    BY <1>7, <1>0, <2>1 DEF Receive
  <2>2. CASE network[n].payloads # <<>>
    BY <1>7, <1>0, <1>ty, <1>ft, <2>2, ReceiveEffect DEF Receive
  <2> QED BY <2>1, <2>2
<1>8. ASSUME NEW n \in Nodes, Overlap(n) PROVE StaleIsReused'
  BY <1>8, <1>0 DEF Overlap
<1>9. ASSUME NEW g \in Guests, OpenSlot(g) PROVE StaleIsReused'
  <2>1. PICK s \in Slots :
           /\ slots'[s] = [state |-> "CONNECTING", data |-> slots[s].data, guest |-> g]
           /\ \A t \in Slots \ {s} : slots'[t] = slots[t]
    BY <1>9, <1>ty, OpenSlotEffect
  <2>2. UNCHANGED <<network, unique_id, reused>>
    BY <1>9 DEF OpenSlot
  <2> QED BY <1>ty, <1>ft, <2>1, <2>2 DEF StaleIsReused, IsConnected
<1>10. ASSUME NEW s \in Slots, RefuseGuest(s) PROVE StaleIsReused'
  BY <1>10, <1>re DEF RefuseGuest
<1>11. ASSUME NEW s \in Slots, AcceptGuest(s) PROVE StaleIsReused'
  <2>1. /\ slots'[s] = [state |-> "CONNECTED", data |-> unique_id[slots[s].guest],
                          guest |-> slots[s].guest]
        /\ \A t \in Slots \ {s} : slots'[t] = slots[t]
        /\ slots[s].guest \in Guests /\ unique_id[slots[s].guest] \in Ids
        /\ network'[SERVER].peers = Inserted(network[SERVER].peers, unique_id[slots[s].guest], s)
        /\ \A n \in Nodes : /\ network'[n].payloads = network[n].payloads
                            /\ network'[n].active = network[n].active
    BY <1>11, <1>ty, AcceptGuestEffect
  <2>2. unique_id' = unique_id /\ reused \subseteq reused' /\ BROADCAST_ID \notin Ids
    BY <1>11, IdsLemma DEF AcceptGuest
  <2>3. slots[s].data # BROADCAST_ID => slots[s].guest \in reused'
    BY <1>11 DEF AcceptGuest
  <2>4. /\ DOMAIN network'[SERVER].peers =
               DOMAIN network[SERVER].peers \cup {unique_id[slots[s].guest]}
        /\ \A id \in DOMAIN network[SERVER].peers :
              network'[SERVER].peers[id] = network[SERVER].peers[id]
        /\ unique_id[slots[s].guest] \notin DOMAIN network[SERVER].peers
        /\ network'[SERVER].peers[unique_id[slots[s].guest]] = s
    BY <1>11, <2>1 DEF Inserted, AcceptGuest, IsKnown
  <2> QED BY <1>ty, <1>ft, <2>1, <2>2, <2>3, <2>4 DEF StaleIsReused, IsConnected
<1>12. ASSUME NEW s \in Slots, GuestLeaves(s) PROVE StaleIsReused'
  BY <1>12, <1>re DEF GuestLeaves
<1>13. ASSUME NEW s \in Slots, ReceiveFromGuest(s) PROVE StaleIsReused'
  BY <1>13, <1>0, <1>ty, <1>ft, ReceiveFromGuestEffect DEF ReceiveFromGuest
<1>14. ASSUME RelayNext PROVE StaleIsReused'
  BY <1>14, <1>0 DEF RelayNext
<1>15. ASSUME NEW g \in Guests, GuestConnects(g) PROVE StaleIsReused'
  BY <1>15, <1>0, <1>ty, <1>ft, GuestConnectsEffect DEF GuestConnects
<1>16. ASSUME NEW g \in Guests, ReceiveFromServer(g) PROVE StaleIsReused'
  BY <1>16, <1>0, <1>ty, <1>ft, ReceiveFromServerEffect DEF ReceiveFromServer
<1>17. ASSUME NEW g \in Guests, ServerLeaves(g) PROVE StaleIsReused'
  BY <1>17, <1>0, <1>ft DEF ServerLeaves
<1>18. CASE UNCHANGED vars
  BY <1>18, <1>0 DEF vars
<1> QED
  BY <1>1, <1>2, <1>3, <1>4, <1>5, <1>6, <1>7, <1>8, <1>9, <1>10, <1>11, <1>12,
     <1>13, <1>14, <1>15, <1>16, <1>17, <1>18, IdsLemma DEF Next, MainNext, ServerPolls, GuestPolls

LEMMA SendingHoldsStep == ASSUME Base, [Next]_vars PROVE SendingHolds'
<1>ty. Typed /\ SlotsHold /\ PeersHold /\ SendingHolds
  BY DEF Base
<1>ft. /\ network \in [Nodes -> Object] /\ SERVER \in Nodes /\ SERVER \notin Guests
       /\ sending \in [Nodes -> Loops(Slots)] /\ relaying \in Loops(Ids)
       /\ up \in [Guests -> Seq(Message)] /\ Guests \subseteq Nodes
       /\ counts \in Counts
  BY <1>ty, IdsLemma, RelayAssumption DEF Typed
<1>0. ASSUME UNCHANGED <<sending, relaying, up, unique_id>>, counts'.sent = counts.sent,
             DOMAIN network[SERVER].peers \subseteq DOMAIN network'[SERVER].peers
      PROVE  SendingHolds'
  BY <1>ty, <1>0 DEF SendingHolds
<1>1. ASSUME NEW g \in Guests, CreateClient(g) PROVE SendingHolds'
  BY <1>1, <1>0, <1>ty, <1>ft, CreateClientEffect DEF CreateClient
<1>2. ASSUME NEW g \in Guests, SendToServer(g) PROVE SendingHolds'
  <2>1. /\ UNCHANGED <<relaying, unique_id, counts>>
        /\ network' = network
        /\ sending' = [sending EXCEPT ![g] = Nothing]
        /\ up' = up \/ up' = [up EXCEPT ![g] = Append(@, sending[g].message)]
    BY <1>2 DEF SendToServer
  <2>2. sending[g].message.from = g /\ sending[g].message \in Message
    <3>1. sending[g] # Nothing /\ sending[g] \in Loops(Slots) /\ g \in Nodes
      BY <1>2, <1>ft DEF SendToServer
    <3>2. sending[g].message \in Message
      BY <3>1, LoopsLemma
    <3>3. sending[g].message = [from |-> g, number |-> counts.sent[g]]
      BY <1>ty, <3>1 DEF SendingHolds
    <3> QED BY <3>2, <3>3
  <2>3. \A x \in Guests : \A i \in DOMAIN up'[x] : up'[x][i].from = x
    <3>1. CASE up' = up
      BY <1>ty, <3>1 DEF SendingHolds
    <3>2. CASE up' = [up EXCEPT ![g] = Append(@, sending[g].message)]
      <4>1. \A i \in DOMAIN Append(up[g], sending[g].message) :
               Append(up[g], sending[g].message)[i].from = g
        BY <1>ty, <1>ft, <2>2 DEF SendingHolds
      <4> QED BY <1>ty, <1>ft, <3>2, <4>1 DEF SendingHolds
    <3> QED BY <2>1, <3>1, <3>2
  <2> QED BY <1>ty, <1>ft, <2>1, <2>3 DEF SendingHolds
<1>3. ASSUME BroadcastNext PROVE SendingHolds'
  <2> DEFINE s == Min(sending[SERVER].left)
  <2>1. s \in sending[SERVER].left
    BY <1>3, <1>ft, LoopsLemma, MinOfSet, IdsLemma DEF BroadcastNext
  <2>2. sending' = [sending EXCEPT ![SERVER] = Served(@, s)]
    BY <1>3 DEF BroadcastNext
  <2>3. sending[SERVER] # Nothing /\ UNCHANGED <<relaying, up, unique_id, counts, network>>
    BY <1>3 DEF BroadcastNext
  <2> HIDE DEF s
  <2>4. Served(sending[SERVER], s) # Nothing =>
           Served(sending[SERVER], s).message = sending[SERVER].message
    BY <1>ft, <2>1, ServedLemma
  <2> QED BY <1>ty, <1>ft, <2>2, <2>3, <2>4 DEF SendingHolds
<1>4. ASSUME NEW n \in Nodes, Send(n) PROVE SendingHolds'
  <2>1. /\ sending'[n].message = [from |-> n, number |-> counts'.sent[n]]
        /\ \A k \in Nodes \ {n} : sending'[k] = sending[k] /\ counts'.sent[k] = counts.sent[k]
        /\ UNCHANGED <<relaying, up, unique_id, network>>
    BY <1>4, <1>ft DEF Send, Counts
  <2> QED BY <1>ty, <2>1 DEF SendingHolds
<1>5. ASSUME NEW n \in Nodes, Exit(n) PROVE SendingHolds'
  <2>1. UNCHANGED <<sending, relaying, up, unique_id>> /\ counts'.sent = counts.sent
    BY <1>5, <1>ft DEF Exit, Counts
  <2>2. CASE n = SERVER
    <3>1. relaying = Nothing
      BY <1>5, <2>2 DEF Exit
    <3> QED BY <1>ty, <2>1, <3>1 DEF SendingHolds
  <2>3. CASE n # SERVER
    <3>1. network'[SERVER] = network[SERVER]
      BY <1>5, <1>ft, <2>3 DEF Exit
    <3> QED BY <1>0, <2>1, <3>1
  <2> QED BY <2>2, <2>3
<1>6. ASSUME NEW n \in Nodes, Peek(n) PROVE SendingHolds'
  BY <1>6, <1>0 DEF Peek
<1>7. ASSUME NEW n \in Nodes, Receive(n) PROVE SendingHolds'
  <2>1. CASE network[n].payloads = <<>>
    BY <1>7, <1>0, <2>1 DEF Receive
  <2>2. CASE network[n].payloads # <<>>
    BY <1>7, <1>0, <1>ty, <1>ft, <2>2, ReceiveEffect DEF Receive
  <2> QED BY <2>1, <2>2
<1>8. ASSUME NEW n \in Nodes, Overlap(n) PROVE SendingHolds'
  <2>1. counts'.sent = counts.sent
    BY <1>8, <1>ft DEF Overlap, Counts
  <2> QED BY <1>8, <1>0, <2>1 DEF Overlap
<1>9. ASSUME NEW g \in Guests, OpenSlot(g) PROVE SendingHolds'
  BY <1>9, <1>0 DEF OpenSlot
<1>10. ASSUME NEW s \in Slots, RefuseGuest(s) PROVE SendingHolds'
  BY <1>10, <1>0 DEF RefuseGuest
<1>11. ASSUME NEW s \in Slots, AcceptGuest(s) PROVE SendingHolds'
  <2>1. /\ slots'[s] = [state |-> "CONNECTED", data |-> unique_id[slots[s].guest],
                          guest |-> slots[s].guest]
        /\ \A t \in Slots \ {s} : slots'[t] = slots[t]
        /\ slots[s].guest \in Guests /\ unique_id[slots[s].guest] \in Ids
        /\ network'[SERVER].peers = Inserted(network[SERVER].peers, unique_id[slots[s].guest], s)
        /\ \A n \in Nodes : /\ network'[n].payloads = network[n].payloads
                            /\ network'[n].active = network[n].active
    BY <1>11, <1>ty, AcceptGuestEffect
  <2>2. DOMAIN network[SERVER].peers \subseteq DOMAIN network'[SERVER].peers
    BY <2>1 DEF Inserted
  <2> QED BY <1>11, <1>0, <2>2 DEF AcceptGuest
<1>12. ASSUME NEW s \in Slots, GuestLeaves(s) PROVE SendingHolds'
  <2>1. /\ up' = [up EXCEPT ![slots[s].guest] = <<>>]
        /\ UNCHANGED <<sending, relaying, unique_id, counts, network>>
    BY <1>12 DEF GuestLeaves
  <2>2. \A x \in Guests : \A i \in DOMAIN up'[x] : up'[x][i].from = x
    BY <1>ty, <1>ft, <2>1, ClosedLemma DEF SendingHolds
  <2> QED BY <1>ty, <2>1, <2>2 DEF SendingHolds
<1>13. ASSUME NEW s \in Slots, ReceiveFromGuest(s) PROVE SendingHolds'
  <2> DEFINE g == slots[s].guest
             m == Head(up[g])
  <2>1. /\ g \in Guests /\ up[g] # <<>> /\ m \in Message
        /\ up' = [up EXCEPT ![g] = Tail(@)]
        /\ network'[SERVER].peers = network[SERVER].peers
    BY <1>13, <1>ty, <1>ft, ReceiveFromGuestEffect
  <2>2. m.from = g
    BY <1>ty, <1>ft, <2>1 DEF SendingHolds
  <2>3. \A x \in Guests : \A i \in DOMAIN up'[x] : up'[x][i].from = x
    BY <1>ty, <1>ft, <2>1 DEF SendingHolds
  <2>4. UNCHANGED <<sending, unique_id, counts>>
    BY <1>13 DEF ReceiveFromGuest
  <2>5. RelayTargets(m) = DOMAIN network[SERVER].peers \ {unique_id[g]}
    BY <1>ft, <2>1, <2>2 DEF RelayTargets, SenderId
  <2>6. relaying' = Nothing \/ relaying' = [message |-> m, left |-> RelayTargets(m)]
    BY <1>13 DEF ReceiveFromGuest, Polls
  <2> HIDE DEF g, m
  <2> QED BY <1>ty, <2>1, <2>2, <2>3, <2>4, <2>5, <2>6 DEF SendingHolds
<1>14. ASSUME RelayNext PROVE SendingHolds'
  <2> DEFINE id == Min(relaying.left)
  <2>1. id \in relaying.left
    BY <1>14, <1>ft, LoopsLemma, MinOfSet, IdsLemma DEF RelayNext
  <2>2. relaying' = Served(relaying, id)
    BY <1>14 DEF RelayNext
  <2>3. relaying # Nothing /\ UNCHANGED <<sending, up, unique_id, counts, network>>
    BY <1>14 DEF RelayNext
  <2> HIDE DEF id
  <2>4. /\ relaying'.left = relaying.left \ {id}
        /\ relaying' # Nothing => relaying'.message = relaying.message
    BY <1>ft, <2>1, <2>2, ServedLemma
  <2> QED BY <1>ty, <2>3, <2>4 DEF SendingHolds
<1>15. ASSUME NEW g \in Guests, GuestConnects(g) PROVE SendingHolds'
  BY <1>15, <1>0, <1>ty, <1>ft, GuestConnectsEffect DEF GuestConnects
<1>16. ASSUME NEW g \in Guests, ReceiveFromServer(g) PROVE SendingHolds'
  BY <1>16, <1>0, <1>ty, <1>ft, ReceiveFromServerEffect DEF ReceiveFromServer
<1>17. ASSUME NEW g \in Guests, ServerLeaves(g) PROVE SendingHolds'
  BY <1>17, <1>0, <1>ft DEF ServerLeaves
<1>18. CASE UNCHANGED vars
  BY <1>18, <1>0 DEF vars
<1> QED
  BY <1>1, <1>2, <1>3, <1>4, <1>5, <1>6, <1>7, <1>8, <1>9, <1>10, <1>11, <1>12,
     <1>13, <1>14, <1>15, <1>16, <1>17, <1>18, IdsLemma DEF Next, MainNext, ServerPolls, GuestPolls

LEMMA RelayedToStep == ASSUME Base, [Next]_vars PROVE ConnectedAreRelayedTo'
<1>ty. Typed /\ SlotsHold /\ ConnectedAreRelayedTo
  BY DEF Base
<1>ft. /\ network \in [Nodes -> Object] /\ SERVER \in Nodes /\ SERVER \notin Guests
       /\ slots \in [Slots -> Slot]
  BY <1>ty, IdsLemma, RelayAssumption DEF Typed
<1>0. ASSUME network'[SERVER].peers = network[SERVER].peers,
             network'[SERVER].active = network[SERVER].active, UNCHANGED unique_id,
             \A s \in Slots : slots'[s].state = "CONNECTED" => slots'[s] = slots[s]
      PROVE  ConnectedAreRelayedTo'
  BY <1>ty, <1>0 DEF ConnectedAreRelayedTo
<1>1. ASSUME NEW g \in Guests, CreateClient(g) PROVE ConnectedAreRelayedTo'
  BY <1>1, <1>0, <1>ty, <1>ft, CreateClientEffect DEF CreateClient
<1>2. ASSUME NEW g \in Guests, SendToServer(g) PROVE ConnectedAreRelayedTo'
  BY <1>2, <1>0 DEF SendToServer
<1>3. ASSUME BroadcastNext PROVE ConnectedAreRelayedTo'
  BY <1>3, <1>0 DEF BroadcastNext
<1>4. ASSUME NEW n \in Nodes, Send(n) PROVE ConnectedAreRelayedTo'
  BY <1>4, <1>0 DEF Send
<1>5. ASSUME NEW n \in Nodes, Exit(n) PROVE ConnectedAreRelayedTo'
  <2>1. CASE n = SERVER
    <3>1. ~network'[SERVER].active
      BY <1>5, <1>ft, <2>1 DEF Exit, Closed
    <3> QED BY <3>1 DEF ConnectedAreRelayedTo
  <2>2. CASE n # SERVER
    BY <1>5, <1>0, <1>ft, <2>2 DEF Exit
  <2> QED BY <2>1, <2>2
<1>6. ASSUME NEW n \in Nodes, Peek(n) PROVE ConnectedAreRelayedTo'
  BY <1>6, <1>0 DEF Peek
<1>7. ASSUME NEW n \in Nodes, Receive(n) PROVE ConnectedAreRelayedTo'
  <2>1. CASE network[n].payloads = <<>>
    BY <1>7, <1>0, <2>1 DEF Receive
  <2>2. CASE network[n].payloads # <<>>
    BY <1>7, <1>0, <1>ty, <1>ft, <2>2, ReceiveEffect DEF Receive
  <2> QED BY <2>1, <2>2
<1>8. ASSUME NEW n \in Nodes, Overlap(n) PROVE ConnectedAreRelayedTo'
  BY <1>8, <1>0 DEF Overlap
<1>9. ASSUME NEW g \in Guests, OpenSlot(g) PROVE ConnectedAreRelayedTo'
  <2>1. PICK s \in Slots :
           /\ slots'[s] = [state |-> "CONNECTING", data |-> slots[s].data, guest |-> g]
           /\ \A t \in Slots \ {s} : slots'[t] = slots[t]
    BY <1>9, <1>ty, OpenSlotEffect
  <2>2. UNCHANGED <<network, unique_id>>
    BY <1>9 DEF OpenSlot
  <2> QED BY <1>0, <2>1, <2>2
<1>10. ASSUME NEW s \in Slots, RefuseGuest(s) PROVE ConnectedAreRelayedTo'
  <2>1. /\ slots'[s].state = "DISCONNECTED"
        /\ \A t \in Slots \ {s} : slots'[t] = slots[t]
    BY <1>10, <1>ty, ResetSlotEffect
  <2> QED BY <1>10, <1>0, <2>1 DEF RefuseGuest
<1>11. ASSUME NEW s \in Slots, AcceptGuest(s) PROVE ConnectedAreRelayedTo'
  <2>1. /\ slots'[s] = [state |-> "CONNECTED", data |-> unique_id[slots[s].guest],
                          guest |-> slots[s].guest]
        /\ \A t \in Slots \ {s} : slots'[t] = slots[t]
        /\ slots[s].guest \in Guests /\ unique_id[slots[s].guest] \in Ids
        /\ network'[SERVER].peers = Inserted(network[SERVER].peers, unique_id[slots[s].guest], s)
        /\ \A n \in Nodes : /\ network'[n].payloads = network[n].payloads
                            /\ network'[n].active = network[n].active
    BY <1>11, <1>ty, AcceptGuestEffect
  <2>2. unique_id' = unique_id /\ unique_id[slots[s].guest] \notin DOMAIN network[SERVER].peers
    BY <1>11 DEF AcceptGuest, IsKnown
  <2>3. /\ DOMAIN network'[SERVER].peers =
               DOMAIN network[SERVER].peers \cup {unique_id[slots[s].guest]}
        /\ \A id \in DOMAIN network[SERVER].peers :
              network'[SERVER].peers[id] = network[SERVER].peers[id]
        /\ network'[SERVER].peers[unique_id[slots[s].guest]] = s
    BY <2>1, <2>2 DEF Inserted
  <2> QED BY <1>ty, <1>ft, <2>1, <2>2, <2>3 DEF ConnectedAreRelayedTo
<1>12. ASSUME NEW s \in Slots, GuestLeaves(s) PROVE ConnectedAreRelayedTo'
  <2>1. /\ slots'[s].state = "DISCONNECTED"
        /\ \A t \in Slots \ {s} : slots'[t] = slots[t]
    BY <1>12, <1>ty, ResetSlotEffect
  <2> QED BY <1>12, <1>0, <2>1 DEF GuestLeaves
<1>13. ASSUME NEW s \in Slots, ReceiveFromGuest(s) PROVE ConnectedAreRelayedTo'
  BY <1>13, <1>0, <1>ty, <1>ft, ReceiveFromGuestEffect DEF ReceiveFromGuest
<1>14. ASSUME RelayNext PROVE ConnectedAreRelayedTo'
  BY <1>14, <1>0 DEF RelayNext
<1>15. ASSUME NEW g \in Guests, GuestConnects(g) PROVE ConnectedAreRelayedTo'
  BY <1>15, <1>0, <1>ty, <1>ft, GuestConnectsEffect DEF GuestConnects
<1>16. ASSUME NEW g \in Guests, ReceiveFromServer(g) PROVE ConnectedAreRelayedTo'
  BY <1>16, <1>0, <1>ty, <1>ft, ReceiveFromServerEffect DEF ReceiveFromServer
<1>17. ASSUME NEW g \in Guests, ServerLeaves(g) PROVE ConnectedAreRelayedTo'
  BY <1>17, <1>0, <1>ft DEF ServerLeaves
<1>18. CASE UNCHANGED vars
  BY <1>18, <1>0 DEF vars
<1> QED
  BY <1>1, <1>2, <1>3, <1>4, <1>5, <1>6, <1>7, <1>8, <1>9, <1>10, <1>11, <1>12,
     <1>13, <1>14, <1>15, <1>16, <1>17, <1>18, IdsLemma DEF Next, MainNext, ServerPolls, GuestPolls

LEMMA PeekedIsThereStep == ASSUME Base, [Next]_vars PROVE PeekedIsThere'
<1>ty. Typed /\ SlotsHold /\ PeekedIsThere
  BY DEF Base
<1>ft. /\ network \in [Nodes -> Object] /\ Guests \subseteq Nodes /\ taking \in [Nodes -> BOOLEAN]
       /\ \A n \in Nodes : network[n].payloads \in Seq(Message)
  BY <1>ty, IdsLemma DEF Typed, Object
<1>0. ASSUME \A n \in Nodes :
                \/ taking'[n] = taking[n] /\ network'[n].active = network[n].active
                   /\ (network[n].payloads # <<>> => network'[n].payloads # <<>>)
                \/ ~taking'[n] \/ ~network'[n].active \/ network'[n].payloads # <<>>
      PROVE  PeekedIsThere'
  BY <1>ty, <1>0 DEF PeekedIsThere
<1>1. ASSUME NEW g \in Guests, CreateClient(g) PROVE PeekedIsThere'
  <2>1. ~taking'[g] /\ taking' = taking
    BY <1>1, <1>ft DEF CreateClient, Base, ProcessesHold
  <2>2. \A n \in Nodes \ {g} : network'[n] = network[n]
    BY <1>1, <1>ty, CreateClientEffect
  <2> QED BY <1>0, <2>1, <2>2
<1>2. ASSUME NEW g \in Guests, SendToServer(g) PROVE PeekedIsThere'
  BY <1>2, <1>0 DEF SendToServer
<1>3. ASSUME BroadcastNext PROVE PeekedIsThere'
  BY <1>3, <1>0 DEF BroadcastNext
<1>4. ASSUME NEW n \in Nodes, Send(n) PROVE PeekedIsThere'
  BY <1>4, <1>0 DEF Send
<1>5. ASSUME NEW n \in Nodes, Exit(n) PROVE PeekedIsThere'
  <2>1. /\ taking' = taking /\ ~network'[n].active
        /\ \A k \in Nodes \ {n} : network'[k] = network[k]
    BY <1>5, <1>ft DEF Exit, Closed
  <2> QED BY <1>0, <2>1
<1>6. ASSUME NEW n \in Nodes, Peek(n) PROVE PeekedIsThere'
  <2>1. network' = network /\ \A k \in Nodes \ {n} : taking'[k] = taking[k]
    BY <1>6, <1>ft DEF Peek
  <2>2. network[n].payloads # <<>>
    BY <1>6, <1>ft DEF Peek, PeekSees
  <2> QED BY <1>0, <2>1, <2>2
<1>7. ASSUME NEW n \in Nodes, Receive(n) PROVE PeekedIsThere'
  <2>1. ~taking'[n] /\ \A k \in Nodes \ {n} : taking'[k] = taking[k] /\ network'[k] = network[k]
    BY <1>7, <1>ft DEF Receive
  <2> QED BY <1>0, <2>1
<1>8. ASSUME NEW n \in Nodes, Overlap(n) PROVE PeekedIsThere'
  BY <1>8, <1>0 DEF Overlap
<1>9. ASSUME NEW g \in Guests, OpenSlot(g) PROVE PeekedIsThere'
  BY <1>9, <1>0 DEF OpenSlot
<1>10. ASSUME NEW s \in Slots, RefuseGuest(s) PROVE PeekedIsThere'
  BY <1>10, <1>0 DEF RefuseGuest
<1>11. ASSUME NEW s \in Slots, AcceptGuest(s) PROVE PeekedIsThere'
  <2>1. \A n \in Nodes : /\ network'[n].payloads = network[n].payloads
                         /\ network'[n].active = network[n].active
    BY <1>11, <1>ty, AcceptGuestEffect
  <2> QED BY <1>11, <1>0, <2>1 DEF AcceptGuest
<1>12. ASSUME NEW s \in Slots, GuestLeaves(s) PROVE PeekedIsThere'
  BY <1>12, <1>0 DEF GuestLeaves
<1>13. ASSUME NEW s \in Slots, ReceiveFromGuest(s) PROVE PeekedIsThere'
  <2> DEFINE m == Head(up[slots[s].guest])
  <2>1. /\ \A n \in Nodes : network'[n].active = network[n].active
        /\ \A n \in Nodes \ {SERVER} : network'[n] = network[n]
        /\ \/ network'[SERVER].payloads = network[SERVER].payloads
           \/ network'[SERVER].payloads = Append(network[SERVER].payloads, m)
        /\ m \in Message
    BY <1>13, <1>ty, ReceiveFromGuestEffect
  <2>2. taking' = taking
    BY <1>13 DEF ReceiveFromGuest
  <2>3. Append(network[SERVER].payloads, m) # <<>>
    BY <1>ft, <2>1, IdsLemma
  <2> QED BY <1>0, <2>1, <2>2, <2>3
<1>14. ASSUME RelayNext PROVE PeekedIsThere'
  BY <1>14, <1>0 DEF RelayNext
<1>15. ASSUME NEW g \in Guests, GuestConnects(g) PROVE PeekedIsThere'
  BY <1>15, <1>0, <1>ty, <1>ft, GuestConnectsEffect DEF GuestConnects
<1>16. ASSUME NEW g \in Guests, ReceiveFromServer(g) PROVE PeekedIsThere'
  <2>1. /\ \A n \in Nodes : network'[n].active = network[n].active
        /\ \A n \in Nodes \ {g} : network'[n] = network[n]
        /\ network'[g].payloads = Append(network[g].payloads, Head(down[g]))
    BY <1>16, <1>ty, ReceiveFromServerEffect
  <2>2. taking' = taking /\ Head(down[g]) \in Message
    BY <1>16, <1>ty DEF ReceiveFromServer, Typed
  <2>3. Append(network[g].payloads, Head(down[g])) # <<>>
    BY <1>ft, <2>2
  <2> QED BY <1>0, <2>1, <2>2, <2>3
<1>17. ASSUME NEW g \in Guests, ServerLeaves(g) PROVE PeekedIsThere'
  <2>1. /\ taking' = taking /\ (network'[g] = network[g] \/ ~network'[g].active)
        /\ \A k \in Nodes \ {g} : network'[k] = network[k]
    BY <1>17, <1>ft DEF ServerLeaves, Closed
  <2> QED BY <1>0, <2>1
<1>18. CASE UNCHANGED vars
  BY <1>18, <1>0 DEF vars
<1> QED
  BY <1>1, <1>2, <1>3, <1>4, <1>5, <1>6, <1>7, <1>8, <1>9, <1>10, <1>11, <1>12,
     <1>13, <1>14, <1>15, <1>16, <1>17, <1>18, IdsLemma DEF Next, MainNext, ServerPolls, GuestPolls

LEMMA NewcomerIsToldStep == ASSUME Base, [Next]_vars PROVE NewcomerIsTold'
<1>ty. Typed /\ SlotsHold /\ NewcomerIsTold /\ ConnectedAreRelayedTo
  BY DEF Base
<1>ft. told \in [Guests -> SUBSET Ids] /\ slots \in [Slots -> Slot]
  BY <1>ty DEF Typed
<1>0. ASSUME \A s \in Slots : slots'[s].state = "CONNECTED" => slots'[s] = slots[s],
             UNCHANGED <<unique_id, told>>
      PROVE  NewcomerIsTold'
  BY <1>ty, <1>0 DEF NewcomerIsTold, Members
<1>1. ASSUME NEW g \in Guests, CreateClient(g) PROVE NewcomerIsTold'
  BY <1>1, <1>0 DEF CreateClient
<1>2. ASSUME NEW g \in Guests, SendToServer(g) PROVE NewcomerIsTold'
  BY <1>2, <1>0 DEF SendToServer
<1>3. ASSUME BroadcastNext PROVE NewcomerIsTold'
  BY <1>3, <1>0 DEF BroadcastNext
<1>4. ASSUME NEW n \in Nodes, Send(n) PROVE NewcomerIsTold'
  BY <1>4, <1>0 DEF Send
<1>5. ASSUME NEW n \in Nodes, Exit(n) PROVE NewcomerIsTold'
  BY <1>5, <1>0 DEF Exit
<1>6. ASSUME NEW n \in Nodes, Peek(n) PROVE NewcomerIsTold'
  BY <1>6, <1>0 DEF Peek
<1>7. ASSUME NEW n \in Nodes, Receive(n) PROVE NewcomerIsTold'
  BY <1>7, <1>0 DEF Receive
<1>8. ASSUME NEW n \in Nodes, Overlap(n) PROVE NewcomerIsTold'
  BY <1>8, <1>0 DEF Overlap
<1>9. ASSUME NEW g \in Guests, OpenSlot(g) PROVE NewcomerIsTold'
  <2>1. PICK s \in Slots :
           /\ slots'[s] = [state |-> "CONNECTING", data |-> slots[s].data, guest |-> g]
           /\ \A t \in Slots \ {s} : slots'[t] = slots[t]
    BY <1>9, <1>ty, OpenSlotEffect
  <2>2. UNCHANGED <<unique_id, told>>
    BY <1>9 DEF OpenSlot
  <2> QED BY <1>0, <2>1, <2>2
<1>10. ASSUME NEW s \in Slots, RefuseGuest(s) PROVE NewcomerIsTold'
  <2>1. /\ slots'[s].state = "DISCONNECTED"
        /\ \A t \in Slots \ {s} : slots'[t] = slots[t]
    BY <1>10, <1>ty, ResetSlotEffect
  <2> QED BY <1>10, <1>0, <2>1 DEF RefuseGuest
<1>11. ASSUME NEW s \in Slots, AcceptGuest(s) PROVE NewcomerIsTold'
  <2> DEFINE new == slots[s].guest
  <2>1. /\ slots'[s].guest = new /\ new \in Guests
        /\ \A t \in Slots \ {s} : slots'[t] = slots[t]
    <3>1. /\ slots'[s] = [state |-> "CONNECTED", data |-> unique_id[new], guest |-> new]
          /\ new \in Guests
          /\ \A t \in Slots \ {s} : slots'[t] = slots[t]
      BY <1>11, <1>ty, AcceptGuestEffect
    <3> QED BY <3>1
  <2>2. /\ unique_id' = unique_id /\ network[SERVER].active
        /\ told' = AddPeer(new, DOMAIN network[SERVER].peers)
    BY <1>11 DEF AcceptGuest, Connects, Polls
  <2> HIDE DEF new
  <2>3. /\ \A g \in Guests : told[g] \subseteq told'[g]
        /\ DOMAIN network[SERVER].peers \subseteq told'[new]
    BY <1>ft, <2>1, <2>2 DEF AddPeer
  <2>4. \A g \in Members : unique_id[g] \in told'[new]
    BY <1>ty, <2>2, <2>3 DEF Members, ConnectedAreRelayedTo
  <2>5. Members' \subseteq Members \cup {new}
    BY <2>1 DEF Members
  <2>6. Members \subseteq Guests
    BY <1>ty, <1>ft DEF Members, SlotsHold, IsOpen, Slot
  <2> QED BY <1>ty, <2>2, <2>3, <2>4, <2>5, <2>6 DEF NewcomerIsTold
<1>12. ASSUME NEW s \in Slots, GuestLeaves(s) PROVE NewcomerIsTold'
  <2>1. /\ slots'[s].state = "DISCONNECTED"
        /\ \A t \in Slots \ {s} : slots'[t] = slots[t]
    BY <1>12, <1>ty, ResetSlotEffect
  <2> QED BY <1>12, <1>0, <2>1 DEF GuestLeaves
<1>13. ASSUME NEW s \in Slots, ReceiveFromGuest(s) PROVE NewcomerIsTold'
  BY <1>13, <1>0 DEF ReceiveFromGuest
<1>14. ASSUME RelayNext PROVE NewcomerIsTold'
  BY <1>14, <1>0 DEF RelayNext
<1>15. ASSUME NEW g \in Guests, GuestConnects(g) PROVE NewcomerIsTold'
  BY <1>15, <1>0 DEF GuestConnects
<1>16. ASSUME NEW g \in Guests, ReceiveFromServer(g) PROVE NewcomerIsTold'
  BY <1>16, <1>0 DEF ReceiveFromServer
<1>17. ASSUME NEW g \in Guests, ServerLeaves(g) PROVE NewcomerIsTold'
  BY <1>17, <1>0 DEF ServerLeaves
<1>18. CASE UNCHANGED vars
  BY <1>18, <1>0 DEF vars
<1> QED
  BY <1>1, <1>2, <1>3, <1>4, <1>5, <1>6, <1>7, <1>8, <1>9, <1>10, <1>11, <1>12,
     <1>13, <1>14, <1>15, <1>16, <1>17, <1>18, IdsLemma DEF Next, MainNext, ServerPolls, GuestPolls

LEMMA ServerIsActiveStep == ASSUME Base, [Next]_vars PROVE ServerIsActive'
<1>ty. Typed /\ SlotsHold /\ ServerIsActive
  BY DEF Base
<1>ft. /\ network \in [Nodes -> Object] /\ SERVER \in Nodes /\ SERVER \notin Guests
       /\ DOMAIN process = Nodes
  BY <1>ty, IdsLemma, RelayAssumption DEF Typed
<1>0. ASSUME process'[SERVER] = "running" => process[SERVER] = "running",
             network'[SERVER].active = network[SERVER].active
      PROVE  ServerIsActive'
  BY <1>ty, <1>0 DEF ServerIsActive, Running
<1>1. ASSUME NEW g \in Guests, CreateClient(g) PROVE ServerIsActive'
  BY <1>1, <1>0, <1>ty, <1>ft, CreateClientEffect DEF CreateClient
<1>2. ASSUME NEW g \in Guests, SendToServer(g) PROVE ServerIsActive'
  BY <1>2, <1>0, <1>ft DEF SendToServer
<1>3. ASSUME BroadcastNext PROVE ServerIsActive'
  BY <1>3, <1>0 DEF BroadcastNext
<1>4. ASSUME NEW n \in Nodes, Send(n) PROVE ServerIsActive'
  BY <1>4, <1>0 DEF Send
<1>5. ASSUME NEW n \in Nodes, Exit(n) PROVE ServerIsActive'
  <2>1. CASE n = SERVER
    BY <1>5, <1>ft, <2>1 DEF Exit, ServerIsActive, Running
  <2>2. CASE n # SERVER
    BY <1>5, <1>0, <1>ft, <2>2 DEF Exit
  <2> QED BY <2>1, <2>2
<1>6. ASSUME NEW n \in Nodes, Peek(n) PROVE ServerIsActive'
  BY <1>6, <1>0 DEF Peek
<1>7. ASSUME NEW n \in Nodes, Receive(n) PROVE ServerIsActive'
  <2>1. CASE network[n].payloads = <<>>
    BY <1>7, <1>0, <1>ft, <2>1 DEF Receive
  <2>2. CASE network[n].payloads # <<>>
    BY <1>7, <1>0, <1>ty, <1>ft, <2>2, ReceiveEffect DEF Receive
  <2> QED BY <2>1, <2>2
<1>8. ASSUME NEW n \in Nodes, Overlap(n) PROVE ServerIsActive'
  BY <1>8, <1>0, <1>ft DEF Overlap
<1>9. ASSUME NEW g \in Guests, OpenSlot(g) PROVE ServerIsActive'
  BY <1>9, <1>0 DEF OpenSlot
<1>10. ASSUME NEW s \in Slots, RefuseGuest(s) PROVE ServerIsActive'
  BY <1>10, <1>0 DEF RefuseGuest
<1>11. ASSUME NEW s \in Slots, AcceptGuest(s) PROVE ServerIsActive'
  BY <1>11, <1>0, <1>ty, <1>ft, AcceptGuestEffect DEF AcceptGuest
<1>12. ASSUME NEW s \in Slots, GuestLeaves(s) PROVE ServerIsActive'
  BY <1>12, <1>0 DEF GuestLeaves
<1>13. ASSUME NEW s \in Slots, ReceiveFromGuest(s) PROVE ServerIsActive'
  BY <1>13, <1>0, <1>ty, <1>ft, ReceiveFromGuestEffect DEF ReceiveFromGuest
<1>14. ASSUME RelayNext PROVE ServerIsActive'
  BY <1>14, <1>0 DEF RelayNext
<1>15. ASSUME NEW g \in Guests, GuestConnects(g) PROVE ServerIsActive'
  BY <1>15, <1>0, <1>ty, <1>ft, GuestConnectsEffect DEF GuestConnects
<1>16. ASSUME NEW g \in Guests, ReceiveFromServer(g) PROVE ServerIsActive'
  BY <1>16, <1>0, <1>ty, <1>ft, ReceiveFromServerEffect DEF ReceiveFromServer
<1>17. ASSUME NEW g \in Guests, ServerLeaves(g) PROVE ServerIsActive'
  BY <1>17, <1>0, <1>ft DEF ServerLeaves
<1>18. CASE UNCHANGED vars
  BY <1>18, <1>0 DEF vars
<1> QED
  BY <1>1, <1>2, <1>3, <1>4, <1>5, <1>6, <1>7, <1>8, <1>9, <1>10, <1>11, <1>12,
     <1>13, <1>14, <1>15, <1>16, <1>17, <1>18, IdsLemma DEF Next, MainNext, ServerPolls, GuestPolls

LEMMA BaseInit == Init => Base
<1> SUFFICES ASSUME Init PROVE Base
  OBVIOUS
<1>1. Typed
  BY TypedInit
<1>2. /\ network[SERVER] = [Closed EXCEPT !.active = TRUE, !.connection_status = "CONNECTED"]
      /\ \A g \in Guests : network[g] = Closed
      /\ \A n \in Nodes : network[n].peers = <<>>
  BY IdsLemma, RelayAssumption DEF Init, Closed
<1>3. PeersHold
  BY <1>2, ClosedLemma, IdsLemma DEF Init, PeersHold
<1>4. SlotsHold /\ ConnectedAreRelayedTo /\ NewcomerIsTold
  BY DEF Init, SlotsHold, ConnectedAreRelayedTo, NewcomerIsTold, Members, IsOpen, IsConnected
<1>5. ProcessesHold /\ PeekedIsThere /\ ServerIsActive
  BY <1>2, IdsLemma DEF Init, ProcessesHold, PeekedIsThere, ServerIsActive, Closed
<1>6. StaleIsReused
  BY <1>2, ClosedLemma, IdsLemma DEF Init, StaleIsReused, IsConnected
<1>7. SendingHolds
  BY ClosedLemma DEF Init, SendingHolds
<1> QED
  BY <1>1, <1>3, <1>4, <1>5, <1>6, <1>7 DEF Base

LEMMA BaseStep == ASSUME Base, [Next]_vars PROVE Base'
  BY TypedStep, PeersHoldStep, SlotsHoldStep, ProcessesHoldStep, StaleIsReusedStep,
     SendingHoldsStep, ServerIsActiveStep, RelayedToStep, PeekedIsThereStep,
     NewcomerIsToldStep DEF Base

LEMMA BaseInvariant == Spec => []Base
  BY BaseInit, BaseStep, PTL DEF Spec

LEMMA BaseImpliesTypeOK == Base => TypeOK
<1> SUFFICES ASSUME Base PROVE TypeOK
  OBVIOUS
<1>1. /\ network \in [Nodes -> Object] /\ sending \in [Nodes -> Loops(Slots)]
      /\ relaying \in Loops(Ids) /\ slots \in [Slots -> Slot]
  BY DEF Base, Typed
<1>2. ASSUME NEW n \in Nodes
      PROVE  /\ network[n].active \in BOOLEAN
             /\ network[n].connection_status \in PeerStates
             /\ network[n].payloads \in Seq(Message)
             /\ \A id \in DOMAIN network[n].peers : network[n].peers[id] \in Slots
  BY <1>1 DEF Object, PeersMaps
<1>3. ASSUME NEW n \in Nodes
      PROVE  IF n = SERVER THEN DOMAIN network[n].peers \subseteq Ids
                           ELSE DOMAIN network[n].peers \subseteq {SERVER_ID}
  BY IdsLemma DEF Base, PeersHold
<1>4. \A n \in Nodes : sending[n] = Nothing \/ sending[n].message \in Message
  BY <1>1, LoopsLemma
<1>5. relaying = Nothing \/ /\ relaying.message \in Message
                            /\ relaying.left \subseteq DOMAIN network[SERVER].peers
  BY <1>1, LoopsLemma DEF Base, SendingHolds
<1>6. \A s \in Slots :
         /\ slots[s].state \in {"DISCONNECTED", "CONNECTING", "CONNECTED"}
         /\ slots[s].data \in Ids \cup {BROADCAST_ID}
         /\ slots[s].guest = NoGuest <=> slots[s].state = "DISCONNECTED"
  BY <1>1 DEF Slot, PeerStates, Base, SlotsHold, IsOpen
<1>7. /\ unique_id \in [Guests -> Ids]
      /\ process \in [Nodes -> {"idle", "running", "exited", "crashed"}]
      /\ taking \in [Nodes -> BOOLEAN]
      /\ peer \in [Guests -> {"DISCONNECTED", "CONNECTING", "CONNECTED"}]
      /\ up \in [Guests -> Seq(Message)] /\ down \in [Guests -> Seq(Message)]
      /\ parting \subseteq Nodes \X Nodes
      /\ printed \in [Nodes -> Seq(Message)]
      /\ told \in [Guests -> SUBSET Ids] /\ reused \subseteq Guests
  BY DEF Base, Typed, PeerStates
<1> QED
  BY <1>2, <1>3, <1>4, <1>5, <1>6, <1>7 DEF TypeOK, PeerStates

-----------------------------------------------------------------------------
(* The first theorems.                                                     *)

\* Every variable has its type, whatever ends or dies: a message is relayed
\* only to ids that are in peers_, and those name slots.
THEOREM TypeIsCorrect == Spec => []TypeOK
  BY BaseInvariant, BaseImpliesTypeOK, PTL

\* A connected slot is in peers_, under the id that it was given, whatever
\* other guests left there: the relay of Network::Poll and Host::Broadcast
\* reach the same guests.
THEOREM MembersAreRelayedTo == Spec => []ConnectedAreRelayedTo
<1>1. Base => ConnectedAreRelayedTo
  BY DEF Base
<1> QED BY BaseInvariant, <1>1, PTL

\* What Network::Peek has seen is there when Network::Receive comes for it, as
\* long as the connection is not closed in between.
THEOREM PeekedStaysThere == Spec => []PeekedIsThere
<1>1. Base => PeekedIsThere
  BY DEF Base
<1> QED BY BaseInvariant, <1>1, PTL

\* Of two members the later one was told of the other by ADD_PEER, whoever
\* came, left or was refused in between.
THEOREM NewcomersAreTold == Spec => []NewcomerIsTold
<1>1. Base => NewcomerIsTold
  BY DEF Base
<1> QED BY BaseInvariant, <1>1, PTL


-----------------------------------------------------------------------------
(* Sequences.                                                              *)

LEMMA ConcatLemma ==
    ASSUME NEW S, NEW a \in Seq(S), NEW b \in Seq(S)
    PROVE  /\ a \o b \in Seq(S)
           /\ Len(a \o b) = Len(a) + Len(b)
           /\ \A i \in 1..(Len(a) + Len(b)) :
                (a \o b)[i] = IF i <= Len(a) THEN a[i] ELSE b[i - Len(a)]
OBVIOUS

LEMMA SameSequence ==
    ASSUME NEW S, NEW a \in Seq(S), NEW b \in Seq(S), Len(a) = Len(b),
           \A i \in 1..Len(a) : a[i] = b[i]
    PROVE  a = b
OBVIOUS

\* What is moved from the front of one sequence to the end of another stays
\* where it is in the sequence of both.
LEMMA MoveLemma ==
    ASSUME NEW S, NEW a \in Seq(S), NEW b \in Seq(S), b # <<>>
    PROVE  Append(a, Head(b)) \o Tail(b) = a \o b
<1> DEFINE x == Append(a, Head(b))
           y == Tail(b)
           c == x \o y
           d == a \o b
           m == Len(a)
           n == Len(b)
<1>1. /\ x \in Seq(S) /\ Len(x) = m + 1 /\ x[m + 1] = b[1]
      /\ \A i \in 1..m : x[i] = a[i]
  OBVIOUS
<1>2. y \in Seq(S) /\ Len(y) = n - 1 /\ \A i \in 1..(n - 1) : y[i] = b[i + 1]
  OBVIOUS
<1>3. m \in Nat /\ n \in Nat /\ n > 0
  OBVIOUS
<1>4. /\ c \in Seq(S) /\ Len(c) = Len(x) + Len(y)
      /\ \A i \in 1..(Len(x) + Len(y)) : c[i] = IF i <= Len(x) THEN x[i] ELSE y[i - Len(x)]
  <2> HIDE DEF x, y
  <2> QED BY <1>1, <1>2, ConcatLemma
<1>5. /\ d \in Seq(S) /\ Len(d) = m + n
      /\ \A i \in 1..(m + n) : d[i] = IF i <= m THEN a[i] ELSE b[i - m]
  BY ConcatLemma
<1> HIDE DEF x, y, c, d, m, n
<1>6. Len(c) = m + n /\ Len(x) + Len(y) = m + n
  BY <1>1, <1>2, <1>3, <1>4
<1>7. ASSUME NEW i \in 1..(m + n) PROVE c[i] = d[i]
  <2>0. c[i] = IF i <= m + 1 THEN x[i] ELSE y[i - (m + 1)]
    <3>1. i \in 1..(Len(x) + Len(y))
      BY <1>6
    <3> QED BY <1>1, <1>4, <3>1
  <2>1. CASE i <= m
    <3>1. i <= m + 1 /\ i \in 1..m
      BY <1>3, <2>1
    <3> QED BY <1>1, <1>5, <2>0, <2>1, <3>1
  <2>2. CASE i = m + 1
    BY <1>1, <1>3, <1>5, <2>0, <2>2
  <2>3. CASE i > m + 1
    <3>1. i - (m + 1) \in 1..(n - 1) /\ (i - (m + 1)) + 1 = i - m
      BY <1>3, <2>3
    <3>2. y[i - (m + 1)] = b[i - m]
      BY <1>2, <3>1
    <3> QED BY <1>3, <1>5, <2>0, <2>3, <3>2
  <2> QED BY <1>3, <2>1, <2>2, <2>3
<1>8. c = d
  BY <1>3, <1>4, <1>5, <1>6, <1>7, SameSequence
<1> QED BY <1>8 DEF c, d, x, y

LEMMA AppendLemma ==
    ASSUME NEW S, NEW a \in Seq(S), NEW b \in Seq(S), NEW e \in S
    PROVE  a \o Append(b, e) = Append(a \o b, e)
<1> DEFINE x == Append(b, e)
           y == a \o b
           c == a \o x
           d == Append(y, e)
           m == Len(a)
           n == Len(b)
<1>1. m \in Nat /\ n \in Nat
  OBVIOUS
<1>2. x \in Seq(S) /\ Len(x) = n + 1 /\ x[n + 1] = e /\ \A i \in 1..n : x[i] = b[i]
  OBVIOUS
<1>3. /\ y \in Seq(S) /\ Len(y) = m + n
      /\ \A i \in 1..(m + n) : y[i] = IF i <= m THEN a[i] ELSE b[i - m]
  BY ConcatLemma
<1>4. /\ c \in Seq(S) /\ Len(c) = m + Len(x)
      /\ \A i \in 1..(m + Len(x)) : c[i] = IF i <= m THEN a[i] ELSE x[i - m]
  <2> HIDE DEF x
  <2> QED BY <1>2, ConcatLemma
<1>5. /\ d \in Seq(S) /\ Len(d) = Len(y) + 1 /\ d[Len(y) + 1] = e
      /\ \A i \in 1..Len(y) : d[i] = y[i]
  <2> HIDE DEF y
  <2> QED BY <1>3
<1> HIDE DEF x, y, c, d, m, n
<1>6. Len(c) = Len(d)
  BY <1>1, <1>2, <1>3, <1>4, <1>5
<1>7. ASSUME NEW i \in 1..(m + n + 1) PROVE c[i] = d[i]
  <2>1. CASE i <= m
    BY <1>1, <1>2, <1>3, <1>4, <1>5, <2>1, SMTT(30)
  <2>2. CASE i > m /\ i <= m + n
    <3>1. i - m \in 1..n /\ i \in 1..(m + n) /\ i \in 1..(m + Len(x)) /\ ~(i <= m)
      BY <1>1, <1>2, <2>2
    <3>2. c[i] = b[i - m]
      BY <1>2, <1>4, <3>1
    <3>3. d[i] = y[i]
      BY <1>3, <1>5, <3>1
    <3> QED BY <1>3, <3>1, <3>2, <3>3
  <2>3. CASE i = m + n + 1
    <3>1. i - m = n + 1 /\ i <= m + Len(x) /\ ~(i <= m)
      BY <1>1, <1>2, <2>3
    <3> QED BY <1>1, <1>2, <1>3, <1>4, <1>5, <2>3, <3>1
  <2> QED BY <1>1, <2>1, <2>2, <2>3
<1>8. c = d
  BY <1>1, <1>2, <1>3, <1>4, <1>5, <1>6, <1>7, SameSequence
<1> QED BY <1>8 DEF c, d, x, y

LEMMA EmptyConcat ==
    ASSUME NEW S, NEW a \in Seq(S)
    PROVE  a \o <<>> = a /\ <<>> \in Seq(S)
OBVIOUS

\* Two sequences make an empty one only if both are.
LEMMA BothEmpty ==
    ASSUME NEW S, NEW a \in Seq(S), NEW b \in Seq(S)
    PROVE  a \o b = <<>> <=> a = <<>> /\ b = <<>>
<1>1. /\ a \o b \in Seq(S) /\ Len(a \o b) = Len(a) + Len(b)
      /\ Len(a) \in Nat /\ Len(b) \in Nat
  BY ConcatLemma
<1>2. \A s \in Seq(S) : s = <<>> <=> Len(s) = 0
  OBVIOUS
<1>3. a = <<>> <=> Len(a) = 0
  BY <1>2
<1>4. b = <<>> <=> Len(b) = 0
  BY <1>2
<1>5. a \o b = <<>> <=> Len(a \o b) = 0
  BY <1>1, <1>2
<1> QED BY <1>1, <1>3, <1>4, <1>5


-----------------------------------------------------------------------------
(* What comes before the logs.                                             *)

LEMMA HeardTyped ==
    ASSUME Typed, NEW n \in Nodes
    PROVE  /\ printed[n] \in Seq(Message) /\ network[n].payloads \in Seq(Message)
           /\ Heard(n) \in Seq(Message)
           /\ Heard(n) = <<>> <=> printed[n] = <<>> /\ network[n].payloads = <<>>
<1>1. printed[n] \in Seq(Message) /\ network[n].payloads \in Seq(Message)
  BY DEF Typed, Object
<1> QED BY <1>1, ConcatLemma, BothEmpty DEF Heard

LEMMA QuietBeforeStep == ASSUME Base, QuietBefore, [Next]_vars PROVE QuietBefore'
<1>ty. Typed /\ PeersHold /\ SlotsHold /\ ProcessesHold /\ QuietBefore
  BY DEF Base
<1>ft. /\ network \in [Nodes -> Object] /\ SERVER \notin Guests /\ Guests \subseteq Nodes
       /\ slots \in [Slots -> Slot] /\ DOMAIN process = Nodes /\ peer \in [Guests -> PeerStates]
       /\ printed \in [Nodes -> Seq(Message)] /\ down \in [Guests -> Seq(Message)]
  BY <1>ty, IdsLemma, RelayAssumption DEF Typed
<1>0. ASSUME \A g \in Guests : Awaited(g)' => Awaited(g) /\ (Quiet(g) => Quiet(g)')
      PROVE  QuietBefore'
  BY <1>ty, <1>0 DEF QuietBefore
<1>sl. ASSUME UNCHANGED <<process, peer, down, printed>>,
              \A n \in Nodes : network'[n].payloads = network[n].payloads,
              \A s \in Slots : slots'[s].state = "CONNECTING" =>
                 \/ slots'[s] = slots[s]
                 \/ peer[slots'[s].guest] = "CONNECTING"
       PROVE  QuietBefore'
  BY <1>0, <1>ft, <1>sl DEF Awaited, Quiet, Heard
<1>se. ASSUME NEW s \in Slots, NEW m, down' = SentDown(s, m),
              UNCHANGED <<process, peer, slots, network, printed>>
       PROVE  QuietBefore'
  <2>1. CASE IsConnected(s)
    <3>1. /\ slots[s].guest \in Guests /\ ~Awaited(slots[s].guest)
          /\ \A g \in Guests \ {slots[s].guest} : down'[g] = down[g]
      BY <1>ty, <1>ft, <1>se, <2>1 DEF SentDown, Awaited, SlotsHold, IsOpen, IsConnected, Slot
    <3> QED BY <1>0, <1>se, <3>1 DEF Awaited, Quiet, Heard
  <2>2. CASE ~IsConnected(s)
    <3>1. down' = down
      BY <1>se, <2>2 DEF SentDown, IsConnected
    <3> QED BY <1>0, <1>se, <3>1 DEF Awaited, Quiet, Heard
  <2> QED BY <2>1, <2>2
<1>1. ASSUME NEW g \in Guests, CreateClient(g) PROVE QuietBefore'
  <2>1. Awaited(g) /\ \A k \in Guests \ {g} : Awaited(k)' => Awaited(k)
    BY <1>1, <1>ft DEF CreateClient, Awaited
  <2>2. /\ \A n \in Nodes : network'[n].payloads = network[n].payloads
        /\ UNCHANGED <<down, printed>>
    BY <1>1, <1>ty, <1>ft, CreateClientEffect DEF CreateClient
  <2> QED BY <1>0, <1>ft, <2>1, <2>2 DEF Quiet, Heard
<1>2. ASSUME NEW g \in Guests, SendToServer(g) PROVE QuietBefore'
  <2>1. \A k \in Guests : Awaited(k)' => Awaited(k)
    BY <1>2, <1>ft DEF SendToServer, Awaited
  <2> QED BY <1>2, <1>0, <2>1 DEF SendToServer, Quiet, Heard
<1>3. ASSUME BroadcastNext PROVE QuietBefore'
  <2> DEFINE s == Min(sending[SERVER].left)
  <2>1. s \in Slots
    <3>1. sending[SERVER].left \subseteq Slots /\ sending[SERVER].left # {}
      BY <1>3, <1>ty, LoopsLemma, IdsLemma DEF BroadcastNext, Typed
    <3> QED BY <3>1, MinOfSet, IdsLemma
  <2>2. down' = SentDown(s, sending[SERVER].message)
    BY <1>3 DEF BroadcastNext
  <2> HIDE DEF s
  <2> QED BY <1>3, <1>se, <2>1, <2>2 DEF BroadcastNext
<1>4. ASSUME NEW n \in Nodes, Send(n) PROVE QuietBefore'
  BY <1>4, <1>0 DEF Send, Awaited, Quiet, Heard
<1>5. ASSUME NEW n \in Nodes, Exit(n) PROVE QuietBefore'
  <2>1. \A k \in Guests : Awaited(k)' => Awaited(k)
    BY <1>5, <1>ft DEF Exit, Awaited
  <2>2. /\ network'[n].payloads = <<>> /\ \A k \in Nodes \ {n} : network'[k] = network[k]
        /\ UNCHANGED <<down, printed>>
    BY <1>5, <1>ft DEF Exit, Closed
  <2>3. ASSUME NEW g \in Guests, Quiet(g) PROVE Quiet(g)'
    <3>1. CASE g = n
      <4>1. printed[g] = <<>>
        BY <1>ty, <1>ft, <2>3, HeardTyped DEF Quiet
      <4>2. printed'[g] = <<>> /\ network'[g].payloads = <<>> /\ down'[g] = down[g]
        BY <2>2, <3>1, <4>1
      <4>3. Heard(g)' = <<>>
        BY <4>2, EmptyConcat DEF Heard
      <4> QED BY <2>3, <4>2, <4>3 DEF Quiet
    <3>2. CASE g # n
      BY <1>ft, <2>2, <2>3, <3>2 DEF Quiet, Heard
    <3> QED BY <3>1, <3>2
  <2> QED BY <1>0, <2>1, <2>3
<1>6. ASSUME NEW n \in Nodes, Peek(n) PROVE QuietBefore'
  BY <1>6, <1>0 DEF Peek, Awaited, Quiet, Heard
<1>7. ASSUME NEW n \in Nodes, Receive(n) PROVE QuietBefore'
  <2>1. \A k \in Guests : Awaited(k)' => Awaited(k)
    BY <1>7, <1>ft DEF Receive, Awaited
  <2>2. CASE network[n].payloads = <<>>
    BY <1>7, <1>0, <2>1, <2>2 DEF Receive, Quiet, Heard
  <2>3. CASE network[n].payloads # <<>>
    <3>1. ASSUME NEW g \in Guests, Quiet(g) PROVE g # n
      BY <1>ty, <1>ft, <2>3, <3>1, HeardTyped DEF Quiet
    <3>2. /\ \A k \in Nodes \ {n} : network'[k] = network[k] /\ printed'[k] = printed[k]
          /\ down' = down
      BY <1>7, <1>ty, <1>ft, <2>3, ReceiveEffect DEF Receive
    <3> QED BY <1>0, <1>ft, <2>1, <3>1, <3>2 DEF Quiet, Heard
  <2> QED BY <2>2, <2>3
<1>8. ASSUME NEW n \in Nodes, Overlap(n) PROVE QuietBefore'
  <2>1. \A k \in Guests : Awaited(k)' => Awaited(k)
    BY <1>8, <1>ft DEF Overlap, Awaited
  <2> QED BY <1>8, <1>0, <2>1 DEF Overlap, Quiet, Heard
<1>9. ASSUME NEW g \in Guests, OpenSlot(g) PROVE QuietBefore'
  <2>1. PICK s \in Slots :
           /\ slots'[s] = [state |-> "CONNECTING", data |-> slots[s].data, guest |-> g]
           /\ \A t \in Slots \ {s} : slots'[t] = slots[t]
    BY <1>9, <1>ty, OpenSlotEffect
  <2>2. slots'[s].guest = g
    BY <2>1
  <2> QED BY <1>9, <1>sl, <2>1, <2>2 DEF OpenSlot
<1>10. ASSUME NEW s \in Slots, RefuseGuest(s) PROVE QuietBefore'
  <2>1. /\ slots'[s].state = "DISCONNECTED"
        /\ \A t \in Slots \ {s} : slots'[t] = slots[t]
    BY <1>10, <1>ty, ResetSlotEffect
  <2> QED BY <1>10, <1>sl, <2>1 DEF RefuseGuest
<1>11. ASSUME NEW s \in Slots, AcceptGuest(s) PROVE QuietBefore'
  <2>1. /\ slots'[s].state = "CONNECTED"
        /\ \A t \in Slots \ {s} : slots'[t] = slots[t]
        /\ \A n \in Nodes : network'[n].payloads = network[n].payloads
    <3>1. /\ slots'[s] = [state |-> "CONNECTED", data |-> unique_id[slots[s].guest],
                            guest |-> slots[s].guest]
          /\ \A t \in Slots \ {s} : slots'[t] = slots[t]
          /\ \A n \in Nodes : network'[n].payloads = network[n].payloads
      BY <1>11, <1>ty, AcceptGuestEffect
    <3> QED BY <3>1
  <2> QED BY <1>11, <1>sl, <2>1 DEF AcceptGuest
<1>12. ASSUME NEW s \in Slots, GuestLeaves(s) PROVE QuietBefore'
  <2>1. /\ slots'[s].state = "DISCONNECTED"
        /\ \A t \in Slots \ {s} : slots'[t] = slots[t]
    BY <1>12, <1>ty, ResetSlotEffect
  <2> QED BY <1>12, <1>sl, <2>1 DEF GuestLeaves
<1>13. ASSUME NEW s \in Slots, ReceiveFromGuest(s) PROVE QuietBefore'
  <2>1. \A n \in Nodes \ {SERVER} : network'[n] = network[n]
    BY <1>13, <1>ty, ReceiveFromGuestEffect
  <2> QED BY <1>13, <1>0, <1>ft, <2>1 DEF ReceiveFromGuest, Awaited, Quiet, Heard
<1>14. ASSUME RelayNext PROVE QuietBefore'
  <2> DEFINE s == network[SERVER].peers[Min(relaying.left)]
  <2>1. s \in Slots
    <3>1. Min(relaying.left) \in relaying.left
      BY <1>14, <1>ty, LoopsLemma, MinOfSet, IdsLemma DEF RelayNext, Typed
    <3>2. Min(relaying.left) \in DOMAIN network[SERVER].peers
      BY <1>14, <3>1 DEF RelayNext, Base, SendingHolds
    <3> QED BY <1>ft, <3>2, IdsLemma DEF Object, PeersMaps
  <2>2. down' = SentDown(s, relaying.message)
    BY <1>14 DEF RelayNext
  <2> HIDE DEF s
  <2> QED BY <1>14, <1>se, <2>1, <2>2 DEF RelayNext
<1>15. ASSUME NEW g \in Guests, GuestConnects(g) PROVE QuietBefore'
  <2>1. \A k \in Guests : Awaited(k)' => Awaited(k)
    BY <1>15, <1>ft DEF GuestConnects, Awaited
  <2>2. \A n \in Nodes : network'[n].payloads = network[n].payloads
    BY <1>15, <1>ty, GuestConnectsEffect
  <2> QED BY <1>15, <1>0, <1>ft, <2>1, <2>2 DEF GuestConnects, Quiet, Heard
<1>16. ASSUME NEW g \in Guests, ReceiveFromServer(g) PROVE QuietBefore'
  <2>1. ~Quiet(g)
    BY <1>16 DEF ReceiveFromServer, Quiet
  <2>2. \A n \in Nodes \ {g} : network'[n] = network[n]
    BY <1>16, <1>ty, ReceiveFromServerEffect
  <2>3. UNCHANGED <<process, peer, slots, printed>> /\ \A k \in Guests \ {g} : down'[k] = down[k]
    BY <1>16, <1>ft DEF ReceiveFromServer
  <2> QED BY <1>0, <1>ft, <2>1, <2>2, <2>3 DEF Awaited, Quiet, Heard
<1>17. ASSUME NEW g \in Guests, ServerLeaves(g) PROVE QuietBefore'
  <2>1. \A k \in Guests : Awaited(k)' => Awaited(k)
    BY <1>17, <1>ft DEF ServerLeaves, Awaited
  <2>2. /\ network'[g] = network[g] \/ network'[g].payloads = <<>>
        /\ \A k \in Nodes \ {g} : network'[k] = network[k]
        /\ UNCHANGED <<down, printed>>
    BY <1>17, <1>ft DEF ServerLeaves, Closed
  <2>3. ASSUME NEW k \in Guests, Quiet(k) PROVE Quiet(k)'
    <3>1. CASE network'[k] = network[k]
      BY <2>2, <2>3, <3>1 DEF Quiet, Heard
    <3>2. CASE network'[k].payloads = <<>>
      <4>1. printed[k] = <<>>
        BY <1>ty, <1>ft, <2>3, HeardTyped DEF Quiet
      <4>2. Heard(k)' = <<>>
        BY <2>2, <3>2, <4>1, EmptyConcat DEF Heard
      <4> QED BY <2>2, <2>3, <4>2 DEF Quiet
    <3> QED BY <1>ft, <2>2, <3>1, <3>2
  <2> QED BY <1>0, <2>1, <2>3
<1>18. CASE UNCHANGED vars
  BY <1>18, <1>0 DEF vars, Awaited, Quiet, Heard
<1> QED
  BY <1>1, <1>2, <1>3, <1>4, <1>5, <1>6, <1>7, <1>8, <1>9, <1>10, <1>11, <1>12,
     <1>13, <1>14, <1>15, <1>16, <1>17, <1>18, IdsLemma DEF Next, MainNext, ServerPolls, GuestPolls

LEMMA UpHoldsStep == ASSUME Base, UpHolds, [Next]_vars PROVE UpHolds'
<1>ty. Typed /\ PeersHold /\ SlotsHold /\ SendingHolds /\ UpHolds
  BY DEF Base
<1>ft. /\ Guests \subseteq Nodes /\ DOMAIN process = Nodes /\ sending \in [Nodes -> Loops(Slots)]
       /\ up \in [Guests -> Seq(Message)] /\ counts \in Counts
  BY <1>ty, IdsLemma DEF Typed
<1>0. ASSUME UNCHANGED up, \A x \in Guests : Said(x)' = Said(x),
             \A x \in Guests : process'[x] \in {"idle", "running"} => process[x] \in {"idle", "running"}
      PROVE  UpHolds'
  BY <1>ty, <1>0 DEF UpHolds
<1>1. ASSUME NEW g \in Guests, CreateClient(g) PROVE UpHolds'
  BY <1>1, <1>0, <1>ft DEF CreateClient, Said
<1>2. ASSUME NEW g \in Guests, SendToServer(g) PROVE UpHolds'
  <2>1. CASE SERVER_ID \in DOMAIN network[g].peers
    <3> DEFINE m == sending[g].message
    <3>1. peer[g] = "CONNECTED"
      BY <1>ty, <2>1 DEF PeersHold
    <3>2. /\ up' = [up EXCEPT ![g] = Append(@, m)] /\ sending' = [sending EXCEPT ![g] = Nothing]
          /\ UNCHANGED <<process, counts>> /\ process[g] = "running" /\ sending[g] # Nothing
      BY <1>2, <2>1, <3>1 DEF SendToServer, Running
    <3>3. m \in Message /\ m.number = counts.sent[g]
      <4>1. m = [from |-> g, number |-> counts.sent[g]]
        BY <1>ty, <1>ft, <3>2 DEF SendingHolds
      <4> QED BY <1>ft, <3>2, <4>1, LoopsLemma
    <3>4. Said(g) = counts.sent[g] - 1 /\ Said(g)' = counts.sent[g]
      BY <1>ft, <3>2 DEF Said, Counts
    <3> HIDE DEF m
    <3>5. /\ up[g] \in Seq(Message) /\ up'[g] = Append(up[g], m)
          /\ Len(up'[g]) = Len(up[g]) + 1 /\ DOMAIN up'[g] = 1..(Len(up[g]) + 1)
          /\ \A i \in 1..Len(up[g]) : up'[g][i] = up[g][i]
          /\ up'[g][Len(up[g]) + 1] = m
      BY <1>ft, <3>2, <3>3
    <3>6. up[g] # <<>> => up[g][Len(up[g])].number = counts.sent[g] - 1
      BY <1>ty, <3>2, <3>4 DEF UpHolds
    <3>7. \A i \in DOMAIN up'[g] : i > 1 => up'[g][i].number = up'[g][i - 1].number + 1
      <4> SUFFICES ASSUME NEW i \in 1..(Len(up[g]) + 1), i > 1
                   PROVE  up'[g][i].number = up'[g][i - 1].number + 1
        BY <3>5
      <4>0. counts.sent[g] \in Nat /\ Len(up[g]) \in Nat
        BY <1>ft, <3>5 DEF Counts
      <4>1. CASE i <= Len(up[g])
        <5>1. i \in DOMAIN up[g] /\ i - 1 \in 1..Len(up[g]) /\ i \in 1..Len(up[g])
          BY <3>5, <4>1
        <5> QED BY <1>ty, <3>5, <5>1 DEF UpHolds
      <4>2. CASE i = Len(up[g]) + 1
        <5>1. up[g] # <<>> /\ i - 1 = Len(up[g]) /\ Len(up[g]) \in 1..Len(up[g])
          BY <3>5, <4>2
        <5> QED BY <3>3, <3>5, <3>6, <4>0, <4>2, <5>1
      <4> QED BY <4>0, <4>1, <4>2
    <3>8. up'[g][Len(up'[g])].number = Said(g)'
      BY <3>3, <3>4, <3>5
    <3>9. \A x \in Guests \ {g} : up'[x] = up[x] /\ Said(x)' = Said(x)
      BY <1>ft, <3>2 DEF Said
    <3> QED BY <1>ty, <3>2, <3>7, <3>8, <3>9 DEF UpHolds
  <2>2. CASE SERVER_ID \notin DOMAIN network[g].peers
    <3>1. /\ up' = up /\ process'[g] = "crashed"
          /\ \A x \in Guests \ {g} : process'[x] = process[x] /\ Said(x)' = Said(x)
      BY <1>2, <1>ft, <2>2 DEF SendToServer, Said
    <3> QED BY <1>ty, <3>1 DEF UpHolds
  <2> QED BY <2>1, <2>2
<1>3. ASSUME BroadcastNext PROVE UpHolds'
  <2>1. \A x \in Guests : Said(x)' = Said(x)
    BY <1>3, <1>ft, RelayAssumption DEF BroadcastNext, Said
  <2> QED BY <1>3, <1>0, <2>1 DEF BroadcastNext
<1>4. ASSUME NEW n \in Nodes, Send(n) PROVE UpHolds'
  <2>1. /\ sending'[n] # Nothing /\ sending[n] = Nothing
        /\ counts'.sent[n] = counts.sent[n] + 1 /\ counts.sent[n] \in Nat
        /\ \A k \in Nodes \ {n} : sending'[k] = sending[k] /\ counts'.sent[k] = counts.sent[k]
    <3>1. sending'[n] # Nothing
      <4>1. sending'[n].left # {}
        BY <1>4, <1>ft, IdsLemma DEF Send
      <4> QED BY <4>1 DEF Nothing
    <3> QED BY <1>4, <1>ft, <3>1 DEF Send, Counts
  <2>2. \A x \in Guests : Said(x)' = Said(x)
    <3> SUFFICES ASSUME NEW x \in Guests PROVE Said(x)' = Said(x)
      OBVIOUS
    <3>1. CASE x = n
      BY <2>1, <3>1 DEF Said
    <3>2. CASE x # n
      BY <1>ft, <2>1, <3>2 DEF Said
    <3> QED BY <3>1, <3>2
  <2> QED BY <1>4, <1>0, <2>2 DEF Send
<1>5. ASSUME NEW n \in Nodes, Exit(n) PROVE UpHolds'
  <2>1. \A x \in Guests : Said(x)' = Said(x)
    BY <1>5, <1>ft DEF Exit, Said, Counts
  <2> QED BY <1>5, <1>0, <1>ft, <2>1 DEF Exit
<1>6. ASSUME NEW n \in Nodes, Peek(n) PROVE UpHolds'
  BY <1>6, <1>0 DEF Peek, Said
<1>7. ASSUME NEW n \in Nodes, Receive(n) PROVE UpHolds'
  BY <1>7, <1>0, <1>ft DEF Receive, Said
<1>8. ASSUME NEW n \in Nodes, Overlap(n) PROVE UpHolds'
  <2>1. \A x \in Guests : Said(x)' = Said(x)
    BY <1>8, <1>ft DEF Overlap, Said, Counts
  <2> QED BY <1>8, <1>0, <1>ft, <2>1 DEF Overlap
<1>9. ASSUME NEW g \in Guests, OpenSlot(g) PROVE UpHolds'
  BY <1>9, <1>0 DEF OpenSlot, Said
<1>10. ASSUME NEW s \in Slots, RefuseGuest(s) PROVE UpHolds'
  BY <1>10, <1>0 DEF RefuseGuest, Said
<1>11. ASSUME NEW s \in Slots, AcceptGuest(s) PROVE UpHolds'
  BY <1>11, <1>0 DEF AcceptGuest, Said
<1>12. ASSUME NEW s \in Slots, GuestLeaves(s) PROVE UpHolds'
  <2> DEFINE g == slots[s].guest
  <2>1. /\ up' = [up EXCEPT ![g] = <<>>] /\ UNCHANGED <<process, sending, counts>>
        /\ \A x \in Guests : Said(x)' = Said(x)
    BY <1>12 DEF GuestLeaves, Said
  <2> HIDE DEF g
  <2> QED BY <1>ty, <1>ft, <2>1, ClosedLemma DEF UpHolds
<1>13. ASSUME NEW s \in Slots, ReceiveFromGuest(s) PROVE UpHolds'
  <2> DEFINE g == slots[s].guest
  <2>1. /\ g \in Guests /\ up[g] # <<>> /\ up' = [up EXCEPT ![g] = Tail(@)]
        /\ UNCHANGED <<process, sending, counts>>
        /\ \A x \in Guests : Said(x)' = Said(x)
    BY <1>13, <1>ty, ReceiveFromGuestEffect DEF ReceiveFromGuest, Said
  <2> HIDE DEF g
  <2>2. /\ up'[g] \in Seq(Message) /\ Len(up'[g]) = Len(up[g]) - 1 /\ Len(up[g]) > 0
        /\ \A i \in 1..(Len(up[g]) - 1) : up'[g][i] = up[g][i + 1]
        /\ DOMAIN up'[g] = 1..(Len(up[g]) - 1) /\ Len(up[g]) \in Nat
        /\ DOMAIN up[g] = 1..Len(up[g])
    BY <1>ft, <2>1
  <2>3. \A i \in DOMAIN up'[g] : i > 1 => up'[g][i].number = up'[g][i - 1].number + 1
    <3> SUFFICES ASSUME NEW i \in 1..(Len(up[g]) - 1), i > 1
                 PROVE  up'[g][i].number = up'[g][i - 1].number + 1
      BY <2>2
    <3>1. i + 1 \in DOMAIN up[g] /\ i + 1 > 1 /\ (i + 1) - 1 = i /\ (i - 1) + 1 = i
          /\ i - 1 \in 1..(Len(up[g]) - 1)
      BY <2>2
    <3>2. up[g][i + 1].number = up[g][i].number + 1
      BY <1>ty, <2>1, <3>1 DEF UpHolds
    <3> QED BY <2>2, <3>1, <3>2
  <2>4. up'[g] # <<>> => up'[g][Len(up'[g])] = up[g][Len(up[g])]
    <3> SUFFICES ASSUME up'[g] # <<>> PROVE up'[g][Len(up'[g])] = up[g][Len(up[g])]
      OBVIOUS
    <3>1. Len(up[g]) - 1 \in 1..(Len(up[g]) - 1) /\ (Len(up[g]) - 1) + 1 = Len(up[g])
      BY <2>2
    <3> QED BY <2>2, <3>1
  <2>5. \A x \in Guests \ {g} : up'[x] = up[x]
    BY <1>ft, <2>1
  <2> QED BY <1>ty, <2>1, <2>3, <2>4, <2>5 DEF UpHolds
<1>14. ASSUME RelayNext PROVE UpHolds'
  BY <1>14, <1>0 DEF RelayNext, Said
<1>15. ASSUME NEW g \in Guests, GuestConnects(g) PROVE UpHolds'
  BY <1>15, <1>0 DEF GuestConnects, Said
<1>16. ASSUME NEW g \in Guests, ReceiveFromServer(g) PROVE UpHolds'
  BY <1>16, <1>0 DEF ReceiveFromServer, Said
<1>17. ASSUME NEW g \in Guests, ServerLeaves(g) PROVE UpHolds'
  BY <1>17, <1>0 DEF ServerLeaves, Said
<1>18. CASE UNCHANGED vars
  BY <1>18, <1>0 DEF vars, Said
<1> QED
  BY <1>1, <1>2, <1>3, <1>4, <1>5, <1>6, <1>7, <1>8, <1>9, <1>10, <1>11, <1>12,
     <1>13, <1>14, <1>15, <1>16, <1>17, <1>18, IdsLemma DEF Next, MainNext, ServerPolls, GuestPolls

\* Who speaks, and what the server expects of whom, is the same after a step.
SpeechKept == \A x \in Guests : Speaks(x)' => Speaks(x) /\ Expected(x)' = Expected(x)

LEMMA SpeechStep == ASSUME Base, UpHolds, [Next]_vars, \A s \in Slots : ~ReceiveFromGuest(s) PROVE SpeechKept
<1>ty. Typed /\ PeersHold /\ SlotsHold /\ ProcessesHold /\ SendingHolds /\ UpHolds
  BY DEF Base
<1>ft. /\ Guests \subseteq Nodes /\ DOMAIN process = Nodes /\ sending \in [Nodes -> Loops(Slots)]
       /\ up \in [Guests -> Seq(Message)] /\ counts \in Counts
  BY <1>ty, IdsLemma DEF Typed
<1>0. ASSUME UNCHANGED up, \A x \in Guests : Said(x)' = Said(x),
             \A x \in Guests : process'[x] \in {"idle", "running"} => process[x] \in {"idle", "running"}
      PROVE  SpeechKept
  BY <1>0 DEF SpeechKept, Speaks, Expected
<1>1. ASSUME NEW g \in Guests, CreateClient(g) PROVE SpeechKept
  BY <1>1, <1>0, <1>ft DEF CreateClient, Said
<1>2. ASSUME NEW g \in Guests, SendToServer(g) PROVE SpeechKept
  <2>1. CASE SERVER_ID \in DOMAIN network[g].peers
    <3> DEFINE m == sending[g].message
    <3>1. peer[g] = "CONNECTED"
      BY <1>ty, <2>1 DEF PeersHold
    <3>2. /\ up' = [up EXCEPT ![g] = Append(@, m)] /\ sending' = [sending EXCEPT ![g] = Nothing]
          /\ UNCHANGED <<process, counts>> /\ process[g] = "running" /\ sending[g] # Nothing
      BY <1>2, <2>1, <3>1 DEF SendToServer, Running
    <3>3. m \in Message /\ m.number = counts.sent[g]
      <4>1. m = [from |-> g, number |-> counts.sent[g]]
        BY <1>ty, <1>ft, <3>2 DEF SendingHolds
      <4> QED BY <1>ft, <3>2, <4>1, LoopsLemma
    <3>4. Said(g) + 1 = counts.sent[g]
      BY <1>ft, <3>2 DEF Said, Counts
    <3> HIDE DEF m
    <3>5. up'[g] # <<>> /\ up'[g][1] = IF up[g] = <<>> THEN m ELSE up[g][1]
      BY <1>ft, <3>2, <3>3
    <3>6. Speaks(g) /\ Expected(g)' = Expected(g)
      BY <3>2, <3>3, <3>4, <3>5 DEF Speaks, Expected
    <3>7. \A x \in Guests \ {g} : up'[x] = up[x] /\ Said(x)' = Said(x)
      BY <1>ft, <3>2 DEF Said
    <3> QED BY <3>2, <3>6, <3>7 DEF SpeechKept, Speaks, Expected
  <2>2. CASE SERVER_ID \notin DOMAIN network[g].peers
    <3>1. /\ up' = up /\ process'[g] = "crashed"
          /\ \A x \in Guests \ {g} : process'[x] = process[x] /\ Said(x)' = Said(x)
      BY <1>2, <1>ft, <2>2 DEF SendToServer, Said
    <3> QED BY <3>1 DEF SpeechKept, Speaks, Expected
  <2> QED BY <2>1, <2>2
<1>3. ASSUME BroadcastNext PROVE SpeechKept
  <2>1. \A x \in Guests : Said(x)' = Said(x)
    BY <1>3, <1>ft, RelayAssumption DEF BroadcastNext, Said
  <2> QED BY <1>3, <1>0, <2>1 DEF BroadcastNext
<1>4. ASSUME NEW n \in Nodes, Send(n) PROVE SpeechKept
  <2>1. /\ sending'[n] # Nothing /\ sending[n] = Nothing
        /\ counts'.sent[n] = counts.sent[n] + 1 /\ counts.sent[n] \in Nat
        /\ \A k \in Nodes \ {n} : sending'[k] = sending[k] /\ counts'.sent[k] = counts.sent[k]
    <3>1. sending'[n] # Nothing
      <4>1. sending'[n].left # {}
        BY <1>4, <1>ft, IdsLemma DEF Send
      <4> QED BY <4>1 DEF Nothing
    <3> QED BY <1>4, <1>ft, <3>1 DEF Send, Counts
  <2>2. \A x \in Guests : Said(x)' = Said(x)
    <3> SUFFICES ASSUME NEW x \in Guests PROVE Said(x)' = Said(x)
      OBVIOUS
    <3>1. CASE x = n
      BY <2>1, <3>1 DEF Said
    <3>2. CASE x # n
      BY <1>ft, <2>1, <3>2 DEF Said
    <3> QED BY <3>1, <3>2
  <2> QED BY <1>4, <1>0, <2>2 DEF Send
<1>5. ASSUME NEW n \in Nodes, Exit(n) PROVE SpeechKept
  <2>1. \A x \in Guests : Said(x)' = Said(x)
    BY <1>5, <1>ft DEF Exit, Said, Counts
  <2> QED BY <1>5, <1>0, <1>ft, <2>1 DEF Exit
<1>6. ASSUME NEW n \in Nodes, Peek(n) PROVE SpeechKept
  BY <1>6, <1>0 DEF Peek, Said
<1>7. ASSUME NEW n \in Nodes, Receive(n) PROVE SpeechKept
  BY <1>7, <1>0, <1>ft DEF Receive, Said
<1>8. ASSUME NEW n \in Nodes, Overlap(n) PROVE SpeechKept
  <2>1. \A x \in Guests : Said(x)' = Said(x)
    BY <1>8, <1>ft DEF Overlap, Said, Counts
  <2> QED BY <1>8, <1>0, <1>ft, <2>1 DEF Overlap
<1>9. ASSUME NEW g \in Guests, OpenSlot(g) PROVE SpeechKept
  BY <1>9, <1>0 DEF OpenSlot, Said
<1>10. ASSUME NEW s \in Slots, RefuseGuest(s) PROVE SpeechKept
  BY <1>10, <1>0 DEF RefuseGuest, Said
<1>11. ASSUME NEW s \in Slots, AcceptGuest(s) PROVE SpeechKept
  BY <1>11, <1>0 DEF AcceptGuest, Said
<1>12. ASSUME NEW s \in Slots, GuestLeaves(s) PROVE SpeechKept
  <2> DEFINE g == slots[s].guest
  <2>1. /\ up' = [up EXCEPT ![g] = <<>>] /\ UNCHANGED <<process, sending, counts>>
        /\ \A x \in Guests : Said(x)' = Said(x)
    BY <1>12 DEF GuestLeaves, Said
  <2>2. g \in Guests => process[g] = "exited"
    BY <1>12, <1>ty DEF GuestLeaves, ProcessesHold
  <2> HIDE DEF g
  <2> QED BY <1>ft, <2>1, <2>2 DEF SpeechKept, Speaks, Expected
<1>13. ASSUME NEW s \in Slots, ReceiveFromGuest(s) PROVE SpeechKept
  BY <1>13
<1>14. ASSUME RelayNext PROVE SpeechKept
  BY <1>14, <1>0 DEF RelayNext, Said
<1>15. ASSUME NEW g \in Guests, GuestConnects(g) PROVE SpeechKept
  BY <1>15, <1>0 DEF GuestConnects, Said
<1>16. ASSUME NEW g \in Guests, ReceiveFromServer(g) PROVE SpeechKept
  BY <1>16, <1>0 DEF ReceiveFromServer, Said
<1>17. ASSUME NEW g \in Guests, ServerLeaves(g) PROVE SpeechKept
  BY <1>17, <1>0 DEF ServerLeaves, Said
<1>18. CASE UNCHANGED vars
  BY <1>18, <1>0 DEF vars, Said
<1> QED
  BY <1>1, <1>2, <1>3, <1>4, <1>5, <1>6, <1>7, <1>8, <1>9, <1>10, <1>11, <1>12,
     <1>13, <1>14, <1>15, <1>16, <1>17, <1>18, IdsLemma DEF Next, MainNext, ServerPolls, GuestPolls

\* The server takes the next message of a guest: it is the one it expects, it
\* comes to the end of what the server hears, and all others are to get it.
LEMMA TakenEffect ==
    ASSUME Base, UpHolds, NEW s \in Slots, ReceiveFromGuest(s)
    PROVE  \E g \in Guests, m \in Message :
           LET T == DOMAIN network[SERVER].peers \ {unique_id[g]}
           IN  /\ g = slots[s].guest /\ m.from = g /\ IsConnected(s)
               /\ Speaks(g) /\ Expected(g) = m.number
               /\ Speaks(g)' => Expected(g)' = m.number + 1
               /\ \A x \in Guests \ {g} : Speaks(x)' => Speaks(x) /\ Expected(x)' = Expected(x)
               /\ relaying = Nothing /\ network[SERVER].active
               /\ relaying' = IF T = {} THEN Nothing ELSE [message |-> m, left |-> T]
               /\ Heard(SERVER)' = Append(Heard(SERVER), m)
               /\ \A n \in Guests : Heard(n)' = Heard(n)
               /\ network'[SERVER].peers = network[SERVER].peers
               /\ network'[SERVER].active = network[SERVER].active
<1>ty. Typed /\ SlotsHold /\ PeersHold /\ SendingHolds /\ ConnectedAreRelayedTo
  BY DEF Base
<1>ft. up \in [Guests -> Seq(Message)] /\ counts \in Counts
  BY <1>ty DEF Typed
<1>gm. PICK g \in Guests, m \in Message : g = slots[s].guest /\ m = Head(up[g])
  BY <1>ty, ReceiveFromGuestEffect
<1> DEFINE T == DOMAIN network[SERVER].peers \ {unique_id[g]}
<1>1. /\ IsConnected(s) /\ up[g] # <<>>
      /\ up' = [up EXCEPT ![g] = Tail(@)]
      /\ network'[SERVER].payloads =
             IF SenderId(m) = slots[s].data
             THEN Append(network[SERVER].payloads, m) ELSE network[SERVER].payloads
      /\ \A k \in Nodes : /\ network'[k].peers = network[k].peers
                          /\ network'[k].active = network[k].active
      /\ \A k \in Nodes \ {SERVER} : network'[k] = network[k]
  BY <1>ty, <1>gm, ReceiveFromGuestEffect
<1>2. relaying = Nothing /\ network[SERVER].active
  BY DEF ReceiveFromGuest, Polls
<1>3. up[g] \in Seq(Message) /\ m = up[g][1] /\ 1 \in DOMAIN up[g]
  BY <1>1, <1>ft, <1>gm
<1>4. m.from = g
  BY <1>ty, <1>1, <1>3 DEF SendingHolds
<1>5. slots[s].data = unique_id[g] /\ SenderId(m) = unique_id[g]
  BY <1>ty, <1>gm, <1>1, <1>2, <1>4, RelayAssumption DEF ConnectedAreRelayedTo, IsConnected, SenderId
<1>6. relaying' = IF T = {} THEN Nothing ELSE [message |-> m, left |-> T]
  <2>1. RelayTargets(m) = T
    BY <1>5 DEF RelayTargets
  <2>2. relaying' = IF RelayTargets(m) = {} THEN Nothing
                    ELSE [message |-> m, left |-> RelayTargets(m)]
    BY <1>5, <1>gm DEF ReceiveFromGuest
  <2> QED BY <2>1, <2>2
<1>7. Heard(SERVER)' = Append(Heard(SERVER), m)
  <2>1. network'[SERVER].payloads = Append(network[SERVER].payloads, m)
    BY <1>1, <1>5
  <2>2. printed' = printed
    BY DEF ReceiveFromGuest
  <2>3. printed[SERVER] \in Seq(Message) /\ network[SERVER].payloads \in Seq(Message)
    BY <1>ty, HeardTyped, IdsLemma
  <2>4. ASSUME NEW a \in Seq(Message), NEW b \in Seq(Message)
        PROVE  a \o Append(b, m) = Append(a \o b, m)
    BY <1>gm, AppendLemma
  <2> QED BY <2>1, <2>2, <2>3, <2>4 DEF Heard
<1>8. \A n \in Guests : Heard(n)' = Heard(n)
  <2>1. printed' = printed
    BY DEF ReceiveFromGuest
  <2> QED BY <1>1, <2>1, IdsLemma, RelayAssumption DEF Heard
<1>9. Speaks(g) /\ Expected(g) = m.number
  BY <1>1, <1>3 DEF Speaks, Expected
<1>10. UNCHANGED <<process, sending, counts>> /\ \A x \in Guests : Said(x)' = Said(x)
  BY DEF ReceiveFromGuest, Said
<1> HIDE DEF T
<1>11. /\ up'[g] \in Seq(Message) /\ Len(up'[g]) = Len(up[g]) - 1
       /\ \A i \in 1..(Len(up[g]) - 1) : up'[g][i] = up[g][i + 1]
       /\ DOMAIN up[g] = 1..Len(up[g]) /\ Len(up[g]) \in Nat \ {0}
  BY <1>1, <1>ft
<1>12. Speaks(g)' => Expected(g)' = m.number + 1
  <2> SUFFICES ASSUME Speaks(g)' PROVE Expected(g)' = m.number + 1
    OBVIOUS
  <2>1. CASE Len(up[g]) = 1
    <3>1. up'[g] = <<>>
      BY <1>11, <2>1
    <3>2. process[g] \in {"idle", "running"}
      BY <1>10, <3>1 DEF Speaks
    <3>3. m.number = Said(g)
      BY <1>ty, <1>1, <1>3, <2>1, <3>2 DEF UpHolds
    <3> QED BY <1>10, <1>1, <3>1, <3>3 DEF Expected
  <2>2. CASE Len(up[g]) # 1
    <3>0. \A n \in Nat \ {0, 1} : 1 \in 1..(n - 1) /\ 2 \in 1..n /\ n - 1 # 0
      OBVIOUS
    <3>1. Len(up[g]) \in Nat \ {0, 1}
      BY <1>11, <2>2
    <3>2. 1 \in 1..(Len(up[g]) - 1) /\ 2 \in DOMAIN up[g] /\ Len(up'[g]) # 0
      BY <1>11, <3>0, <3>1
    <3>3. up'[g] # <<>>
      BY <3>2
    <3>4. up'[g][1] = up[g][2]
      <4>1. up'[g][1] = up[g][1 + 1]
        BY <1>11, <3>2
      <4> QED BY <4>1
    <3>5. up[g][2].number = up[g][1].number + 1
      <4>1. \A i \in DOMAIN up[g] : i > 1 => up[g][i].number = up[g][i - 1].number + 1
        BY <1>gm DEF UpHolds
      <4>2. up[g][2].number = up[g][2 - 1].number + 1
        <5>1. 2 > 1
          OBVIOUS
        <5> QED BY <3>2, <4>1, <5>1
      <4>3. 2 - 1 = 1
        OBVIOUS
      <4> QED BY <4>2, <4>3
    <3> QED BY <1>3, <3>3, <3>4, <3>5 DEF Expected
  <2> QED BY <2>1, <2>2
<1>13. \A x \in Guests \ {g} : Speaks(x)' => Speaks(x) /\ Expected(x)' = Expected(x)
  BY <1>1, <1>ft, <1>10 DEF Speaks, Expected
<1> QED
  BY <1>gm, <1>1, <1>2, <1>4, <1>6, <1>7, <1>8, <1>9, <1>12, <1>13, IdsLemma DEF T

LEMMA RelayedIsLastStep ==
    ASSUME Base, UpHolds, RelayedIsLast, [Next]_vars PROVE RelayedIsLast'
<1>ty. Typed /\ SendingHolds /\ relaying \in Loops(Ids)
  BY DEF Base, Typed
<1>1. ASSUME NEW s \in Slots, ReceiveFromGuest(s) PROVE RelayedIsLast'
  <2>1. PICK g \in Guests, m \in Message :
           /\ m.from = g
           /\ Speaks(g)' => Expected(g)' = m.number + 1
           /\ relaying' = Nothing \/ relaying'.message = m
    BY <1>1, TakenEffect
  <2>2. m.number \in Nat
    BY DEF Message
  <2> QED BY <2>1, <2>2 DEF RelayedIsLast
<1>2. ASSUME \A s \in Slots : ~ReceiveFromGuest(s) PROVE RelayedIsLast'
  <2>1. SpeechKept
    BY <1>2, SpeechStep
  <2>2. relaying' # Nothing => relaying # Nothing /\ relaying'.message = relaying.message
    <3>1. CASE RelayNext
      <4>1. Min(relaying.left) \in relaying.left
        BY <1>ty, <3>1, LoopsLemma, MinOfSet, IdsLemma DEF RelayNext
      <4> QED BY <1>ty, <3>1, <4>1, ServedLemma DEF RelayNext
    <3>2. CASE ~RelayNext
      <4>1. relaying' = relaying
        BY <1>2, <3>2 DEF Next, MainNext, ServerPolls, GuestPolls, vars, CreateClient,
           SendToServer, BroadcastNext, Send, Exit, Peek, Receive, Overlap, OpenSlot,
           RefuseGuest, AcceptGuest, GuestLeaves, GuestConnects, ReceiveFromServer, ServerLeaves
      <4> QED BY <4>1
    <3> QED BY <3>1, <3>2
  <2>3. relaying # Nothing => relaying.message.from \in Guests
    BY <1>ty DEF SendingHolds
  <2> QED BY <2>1, <2>2, <2>3 DEF RelayedIsLast, SpeechKept
<1> QED BY <1>1, <1>2

LEMMA PathsInit == Init => Paths
<1> SUFFICES ASSUME Init PROVE Paths
  OBVIOUS
<1>1. Base /\ Guests \subseteq Nodes
  BY BaseInit, IdsLemma
<1>2. \A g \in Guests : up[g] = <<>> /\ down[g] = <<>>
  BY DEF Init
<1>3. \A n \in Nodes : Heard(n) = <<>>
  <2>1. \A n \in Nodes : printed[n] = <<>> /\ network[n].payloads = <<>>
    BY DEF Init, Closed
  <2> QED BY <1>1, <2>1, HeardTyped DEF Base
<1>4. QuietBefore
  BY <1>1, <1>2, <1>3 DEF QuietBefore, Quiet
<1>5. UpHolds
  BY <1>2, ClosedLemma DEF UpHolds
<1>6. RelayedIsLast
  BY DEF Init, RelayedIsLast
<1> QED BY <1>1, <1>4, <1>5, <1>6 DEF Paths

LEMMA PathsStep == ASSUME Paths, [Next]_vars PROVE Paths'
  BY BaseStep, QuietBeforeStep, UpHoldsStep, RelayedIsLastStep DEF Paths

-----------------------------------------------------------------------------
(* Logs.                                                                   *)

\* The sequence b is what a starts with.
Starts(b, a) == Len(b) <= Len(a) /\ \A i \in 1..Len(b) : b[i] = a[i]

LEMMA StartsLemma ==
    ASSUME NEW a \in Seq(Message), NEW b \in Seq(Message), Starts(b, a)
    PROVE  /\ DOMAIN b \subseteq DOMAIN a /\ \A i \in DOMAIN b : b[i] = a[i]
           /\ \A x : InSequence(a, x) => InSequence(b, x)
           /\ \A x : NeverFrom(a, x) => NeverFrom(b, x)
<1>1. /\ DOMAIN b \subseteq DOMAIN a /\ \A i \in DOMAIN b : b[i] = a[i]
      /\ DOMAIN b = 1..Len(b) /\ Len(b) \in Nat
  BY DEF Starts
<1>2. ASSUME NEW x, InSequence(a, x) PROVE InSequence(b, x)
  <2> SUFFICES ASSUME NEW i \in DOMAIN b, NEW j \in DOMAIN b, i < j,
                      b[i].from = x, b[j].from = x,
                      \A k \in (i + 1)..(j - 1) : b[k].from # x
               PROVE  b[j].number = b[i].number + 1
    BY DEF InSequence
  <2>1. \A k \in (i + 1)..(j - 1) : k \in DOMAIN b
    BY <1>1
  <2>2. /\ i \in DOMAIN a /\ j \in DOMAIN a /\ a[i] = b[i] /\ a[j] = b[j]
        /\ \A k \in (i + 1)..(j - 1) : a[k].from # x
    BY <1>1, <2>1
  <2> QED BY <1>2, <2>2 DEF InSequence
<1>3. ASSUME NEW x, NeverFrom(a, x) PROVE NeverFrom(b, x)
  BY <1>1, <1>3 DEF NeverFrom
<1> QED BY <1>1, <1>2, <1>3

\* A sequence starts with itself, with nothing, and with its first part.
LEMMA StartsWith ==
    ASSUME NEW a \in Seq(Message), NEW b \in Seq(Message)
    PROVE  Starts(a, a) /\ Starts(<<>>, a) /\ a \o b \in Seq(Message) /\ Starts(a, a \o b)
<1>1. /\ a \o b \in Seq(Message) /\ Len(a \o b) = Len(a) + Len(b)
      /\ \A i \in 1..(Len(a) + Len(b)) :
           (a \o b)[i] = IF i <= Len(a) THEN a[i] ELSE b[i - Len(a)]
  BY ConcatLemma
<1>2. Len(a) \in Nat /\ Len(b) \in Nat
  OBVIOUS
<1> DEFINE c == a \o b
<1> HIDE DEF c
<1>3. Starts(a, c)
  BY <1>1, <1>2 DEF Starts, c
<1>4. Starts(a, a)
  BY <1>2 DEF Starts
<1>5. Starts(<<>>, a)
  BY <1>2 DEF Starts
<1> QED BY <1>1, <1>3, <1>4, <1>5 DEF c

LEMMA StartsTransitive ==
    ASSUME NEW a \in Seq(Message), NEW b \in Seq(Message), NEW c \in Seq(Message),
           Starts(c, b), Starts(b, a)
    PROVE  Starts(c, a)
<1>1. Len(a) \in Nat /\ Len(b) \in Nat /\ Len(c) \in Nat
  OBVIOUS
<1> QED BY <1>1 DEF Starts

\* A log to which a message is appended.
LEMMA AppendedLog ==
    ASSUME NEW a \in Seq(Message), NEW m \in Message
    PROVE  /\ Append(a, m) \in Seq(Message)
           /\ DOMAIN a = 1..Len(a) /\ Len(a) \in Nat
           /\ DOMAIN Append(a, m) = 1..(Len(a) + 1)
           /\ \A i \in DOMAIN a : i \in DOMAIN Append(a, m) /\ Append(a, m)[i] = a[i]
           /\ \A i \in DOMAIN Append(a, m) : i \in DOMAIN a \/ i = Len(a) + 1
           /\ Append(a, m)[Len(a) + 1] = m
OBVIOUS

LEMMA AppendInSequence ==
    ASSUME NEW a \in Seq(Message), NEW m \in Message, NEW x, InSequence(a, x),
           m.from = x => EndsAt(a, x, m.number - 1)
    PROVE  InSequence(Append(a, m), x)
<1> DEFINE b == Append(a, m)
<1>1. /\ DOMAIN a = 1..Len(a) /\ Len(a) \in Nat /\ DOMAIN b = 1..(Len(a) + 1)
      /\ \A i \in DOMAIN a : b[i] = a[i]
      /\ b[Len(a) + 1] = m
  BY AppendedLog
<1>2. m.number \in Nat
  BY DEF Message
<1> HIDE DEF b
<1> SUFFICES ASSUME NEW i \in DOMAIN b, NEW j \in DOMAIN b, i < j,
                    b[i].from = x, b[j].from = x,
                    \A k \in (i + 1)..(j - 1) : b[k].from # x
             PROVE  b[j].number = b[i].number + 1
  BY DEF InSequence, b
<1>3. CASE j \in DOMAIN a
  <2>1. i \in DOMAIN a /\ \A k \in (i + 1)..(j - 1) : k \in DOMAIN a
    BY <1>1, <1>3
  <2>2. a[i] = b[i] /\ a[j] = b[j] /\ \A k \in (i + 1)..(j - 1) : a[k].from # x
    BY <1>1, <1>3, <2>1
  <2> QED BY <1>3, <2>1, <2>2 DEF InSequence
<1>4. CASE j \notin DOMAIN a
  <2>1. j = Len(a) + 1 /\ i \in DOMAIN a
    BY <1>1, <1>4
  <2>2. \A k \in DOMAIN a : k > i => k \in (i + 1)..(j - 1)
    BY <1>1, <2>1
  <2>3. m.from = x /\ a[i].from = x /\ \A k \in DOMAIN a : k > i => a[k].from # x
    BY <1>1, <2>1, <2>2
  <2>4. a[i].number = m.number - 1
    BY <2>1, <2>3 DEF EndsAt
  <2>5. b[j] = m /\ b[i] = a[i]
    BY <1>1, <2>1
  <2> QED BY <1>2, <2>4, <2>5
<1> QED BY <1>3, <1>4

LEMMA AppendEndsAt ==
    ASSUME NEW a \in Seq(Message), NEW m \in Message, NEW x
    PROVE  /\ m.from = x => EndsAt(Append(a, m), x, m.number)
           /\ \A c : m.from # x /\ EndsAt(a, x, c) => EndsAt(Append(a, m), x, c)
<1> DEFINE b == Append(a, m)
<1>1. /\ DOMAIN a = 1..Len(a) /\ Len(a) \in Nat /\ DOMAIN b = 1..(Len(a) + 1)
      /\ \A i \in DOMAIN a : i \in DOMAIN b /\ b[i] = a[i]
      /\ \A i \in DOMAIN b : i \in DOMAIN a \/ i = Len(a) + 1
      /\ b[Len(a) + 1] = m
  BY AppendedLog
<1> HIDE DEF b
<1>2. ASSUME m.from = x PROVE EndsAt(b, x, m.number)
  <2> SUFFICES ASSUME NEW i \in DOMAIN b, \A j \in DOMAIN b : j > i => b[j].from # x
               PROVE  b[i].number = m.number
    BY DEF EndsAt
  <2>1. i = Len(a) + 1
    <3>1. Len(a) + 1 \in DOMAIN b /\ (i \in DOMAIN a => Len(a) + 1 > i)
      BY <1>1
    <3> QED BY <1>1, <1>2, <3>1
  <2> QED BY <1>1, <2>1
<1>3. ASSUME NEW c, m.from # x, EndsAt(a, x, c) PROVE EndsAt(b, x, c)
  <2> SUFFICES ASSUME NEW i \in DOMAIN b, b[i].from = x, \A j \in DOMAIN b : j > i => b[j].from # x
               PROVE  b[i].number = c
    BY DEF EndsAt
  <2>1. i \in DOMAIN a /\ b[i] = a[i]
    BY <1>1, <1>3
  <2>2. \A j \in DOMAIN a : j > i => a[j].from # x
    BY <1>1
  <2> QED BY <1>3, <2>1, <2>2 DEF EndsAt
<1> QED BY <1>2, <1>3 DEF b

LEMMA FeedTyped ==
    ASSUME Typed, NEW n \in Nodes
    PROVE  /\ Heard(n) \in Seq(Message) /\ Feed(n) \in Seq(Message)
           /\ Starts(Heard(n), Feed(n)) /\ Starts(printed[n], Feed(n))
           /\ n = SERVER => Feed(n) = Heard(n)
<1>1. /\ printed[n] \in Seq(Message) /\ network[n].payloads \in Seq(Message)
      /\ Heard(n) \in Seq(Message) /\ Starts(printed[n], Heard(n))
  BY HeardTyped, StartsWith DEF Heard
<1>2. CASE n \in Guests /\ peer[n] = "CONNECTED"
  <2>1. down[n] \in Seq(Message) /\ Feed(n) = Heard(n) \o down[n]
    BY <1>2 DEF Typed, Feed
  <2>2. Feed(n) \in Seq(Message) /\ Starts(Heard(n), Feed(n))
    BY <1>1, <2>1, StartsWith
  <2> QED BY <1>1, <1>2, <2>2, StartsTransitive, RelayAssumption
<1>3. CASE ~(n \in Guests /\ peer[n] = "CONNECTED")
  BY <1>1, <1>3, StartsWith DEF Feed
<1> QED BY <1>2, <1>3

LEMMA FeedsTypedNext == Typed' => (\A n \in Nodes : Feed(n) \in Seq(Message))'
<1>1. Typed => \A n \in Nodes : Feed(n) \in Seq(Message)
  BY FeedTyped
<1> QED BY <1>1, PTL

-----------------------------------------------------------------------------
(* A step that adds nothing to a feed.                                     *)

FeedsKept == \A n \in Nodes : Starts(Feed(n)', Feed(n))

ListenersKept ==
    \A n \in Guests, s \in Slots : Listens(n, s)' =>
        (Listens(n, s) /\ Feed(n)' = Feed(n)) \/ Feed(n)' = <<>>

ServerKept == network'[SERVER].active => network[SERVER].active /\ Feed(SERVER)' = Feed(SERVER)

OwnKept == \A s \in Slots : Own(s)' = Own(s)

LoopKept == relaying' = relaying /\ unique_id' = unique_id /\ reused \subseteq reused'

Still == FeedsKept /\ ListenersKept /\ ServerKept /\ OwnKept /\ LoopKept

LEMMA LogsKept ==
    ASSUME Typed, Typed', SendingHolds, Logs, Still, SpeechKept
    PROVE  Logs'
<1>1. \A n \in Nodes : Feed(n) \in Seq(Message) /\ Feed(n)' \in Seq(Message)
  <2>1. \A n \in Nodes : Feed(n)' \in Seq(Message)
    BY FeedsTypedNext
  <2> QED BY <2>1, FeedTyped
<1>2. \A n \in Nodes :
         /\ DOMAIN Feed(n)' \subseteq DOMAIN Feed(n)
         /\ \A i \in DOMAIN Feed(n)' : Feed(n)'[i] = Feed(n)[i]
         /\ \A x : InSequence(Feed(n), x) => InSequence(Feed(n)', x)
         /\ \A x : NeverFrom(Feed(n), x) => NeverFrom(Feed(n)', x)
  <2> SUFFICES ASSUME NEW n \in Nodes
               PROVE  /\ DOMAIN Feed(n)' \subseteq DOMAIN Feed(n)
                      /\ \A i \in DOMAIN Feed(n)' : Feed(n)'[i] = Feed(n)[i]
                      /\ \A x : InSequence(Feed(n), x) => InSequence(Feed(n)', x)
                      /\ \A x : NeverFrom(Feed(n), x) => NeverFrom(Feed(n)', x)
    OBVIOUS
  <2>1. Starts(Feed(n)', Feed(n))
    BY DEF Still, FeedsKept
  <2> QED BY <1>1, <2>1, StartsLemma
<1>3. /\ relaying' = relaying /\ unique_id' = unique_id /\ Plain' \subseteq Plain
      /\ (Guests \ reused') \subseteq (Guests \ reused)
  BY DEF Still, LoopKept, Plain
<1>4. \A n \in Guests, s \in Slots : Listens(n, s)' =>
         (Listens(n, s) /\ Feed(n)' = Feed(n)) \/ Feed(n)' = <<>>
  BY DEF Still, ListenersKept
<1>5. \A x, c : EndsAt(<<>>, x, c)
  BY ClosedLemma DEF EndsAt
<1>6. Plain \subseteq Nodes /\ Plain' \subseteq Nodes /\ Guests \subseteq Nodes
  BY IdsLemma DEF Plain
<1>7. OwnReached'
  BY <1>4, <1>5 DEF Logs, OwnReached, Still, OwnKept
<1>8. RelayReached'
  BY <1>3, <1>4, <1>5 DEF Logs, RelayReached, SpeechKept
<1>9. ServerReached'
  BY DEF Logs, ServerReached, Still, ServerKept, SpeechKept
<1>10. NothingAhead'
  BY <1>2, <1>3, <1>6 DEF Logs, NothingAhead, SpeechKept
<1>11. RelayedIsNew'
  <2>1. relaying # Nothing =>
          \A n \in Guests \ reused', s \in Slots :
              Listens(n, s)' /\ unique_id[n] \in relaying.left =>
                 \A i \in DOMAIN Feed(n)' : Feed(n)'[i] # relaying.message
    BY <1>3, <1>4, ClosedLemma DEF Logs, RelayedIsNew
  <2>2. relaying # Nothing =>
          \A n \in Plain' : \A i, j \in DOMAIN Feed(n)' :
              i < j /\ Feed(n)'[i] = relaying.message => Feed(n)'[j].from = SERVER
    BY <1>2, <1>3, <1>6 DEF Logs, RelayedIsNew
  <2> QED BY <1>3, <2>1, <2>2 DEF RelayedIsNew
<1>12. FeedsInSequence'
  BY <1>2, <1>3, <1>6 DEF Logs, FeedsInSequence
<1>13. FeedsNotResent'
  BY <1>2, <1>3, <1>6 DEF Logs, FeedsNotResent
<1>14. FeedsInOneOrder'
  BY <1>2, <1>3, <1>6 DEF Logs, FeedsInOneOrder
<1> QED BY <1>7, <1>8, <1>9, <1>10, <1>11, <1>12, <1>13, <1>14 DEF Logs

-----------------------------------------------------------------------------
(* A step that adds a message to a feed.                                   *)

Grows(h, m) == Feed(h)' = Append(Feed(h), m) /\ \A n \in Nodes \ {h} : Feed(n)' = Feed(n)

\* Nothing that a guest has said comes behind a message.
LastOfGuests(m) ==
    \A n \in Plain : \A i, j \in DOMAIN Feed(n) :
        i < j /\ Feed(n)[i] = m => Feed(n)[j].from = SERVER

LEMMA LogsGrow ==
    ASSUME Typed, Logs, NEW h \in Nodes, NEW m \in Message, Grows(h, m), Plain' = Plain,
           h \in Plain => m.from # h /\ EndsAt(Feed(h), m.from, m.number - 1),
           m.from # SERVER => LastOfGuests(m)'
    PROVE  FeedsInSequence' /\ FeedsNotResent' /\ FeedsInOneOrder'
<1>1. Plain \subseteq Nodes /\ \A n \in Nodes : Feed(n) \in Seq(Message)
  BY FeedTyped DEF Plain
<1>2. \A n \in Nodes \ {h} : Feed(n)' = Feed(n)
  BY DEF Grows
<1>3. /\ Feed(h)' = Append(Feed(h), m) /\ Feed(h) \in Seq(Message)
      /\ \A i \in DOMAIN Feed(h) : i \in DOMAIN Feed(h)' /\ Feed(h)'[i] = Feed(h)[i]
      /\ \A i \in DOMAIN Feed(h)' : i \in DOMAIN Feed(h) \/ i = Len(Feed(h)) + 1
      /\ Feed(h)'[Len(Feed(h)) + 1] = m
      /\ DOMAIN Feed(h)' = 1..(Len(Feed(h)) + 1) /\ Len(Feed(h)) \in Nat
      /\ DOMAIN Feed(h) = 1..Len(Feed(h))
  <2>1. Feed(h)' = Append(Feed(h), m) /\ Feed(h) \in Seq(Message)
    BY <1>1 DEF Grows
  <2> QED BY <2>1, AppendedLog
<1>4. FeedsInSequence'
  <2>1. ASSUME NEW x \in Nodes, h \in Plain PROVE InSequence(Feed(h)', x)
    BY <1>3, <2>1, AppendInSequence DEF Logs, FeedsInSequence
  <2> QED BY <1>1, <1>2, <2>1 DEF Logs, FeedsInSequence
<1>5. FeedsNotResent'
  BY <1>1, <1>2, <1>3 DEF Logs, FeedsNotResent, NeverFrom
<1>6. FeedsInOneOrder'
  <2> SUFFICES ASSUME NEW n \in Plain, NEW k \in Plain,
                      NEW i \in DOMAIN Feed(n)', NEW j \in DOMAIN Feed(n)',
                      NEW p \in DOMAIN Feed(k)', NEW q \in DOMAIN Feed(k)',
                      i < j, p < q, Feed(n)'[i].from # SERVER, Feed(n)'[j].from # SERVER,
                      Feed(n)'[i] = Feed(k)'[q], Feed(n)'[j] = Feed(k)'[p]
               PROVE  FALSE
    BY DEF FeedsInOneOrder
  <2>1. Feed(n)'[j] # m
    <3>1. LastOfGuests(m)' /\ Feed(n)'[j] = m => Feed(k)'[q].from = SERVER
      BY DEF LastOfGuests
    <3>2. m.from # SERVER \/ Feed(n)'[j] # m
      OBVIOUS
    <3> QED BY <3>1, <3>2
  <2>2. Feed(k)'[q] # m
    <3>1. LastOfGuests(m)' /\ Feed(k)'[q] = m => Feed(n)'[j].from = SERVER
      BY DEF LastOfGuests
    <3>2. m.from # SERVER \/ Feed(k)'[q] # m
      OBVIOUS
    <3> QED BY <3>1, <3>2
  <2>3. /\ i \in DOMAIN Feed(n) /\ j \in DOMAIN Feed(n)
        /\ Feed(n)[i] = Feed(n)'[i] /\ Feed(n)[j] = Feed(n)'[j]
    <3>1. CASE n = h
      <4>1. j \in DOMAIN Feed(h)
        BY <1>3, <2>1, <3>1
      <4>2. i \in DOMAIN Feed(h)
        BY <1>3, <3>1, <4>1
      <4> QED BY <1>3, <3>1, <4>1, <4>2
    <3>2. CASE n # h
      BY <1>1, <1>2, <3>2
    <3> QED BY <3>1, <3>2
  <2>4. /\ p \in DOMAIN Feed(k) /\ q \in DOMAIN Feed(k)
        /\ Feed(k)[p] = Feed(k)'[p] /\ Feed(k)[q] = Feed(k)'[q]
    <3>1. CASE k = h
      <4>1. q \in DOMAIN Feed(h)
        BY <1>3, <2>2, <3>1
      <4>2. p \in DOMAIN Feed(h)
        BY <1>3, <3>1, <4>1
      <4> QED BY <1>3, <3>1, <4>1, <4>2
    <3>2. CASE k # h
      BY <1>1, <1>2, <3>2
    <3> QED BY <3>1, <3>2
  <2> QED BY <2>3, <2>4 DEF Logs, FeedsInOneOrder
<1> QED BY <1>4, <1>5, <1>6

LEMMA StillStep ==
    ASSUME Base, QuietBefore, [Next]_vars, \A s \in Slots : ~ReceiveFromGuest(s),
           ~RelayNext, ~BroadcastNext
    PROVE  Still
<1>ty. /\ Typed /\ PeersHold /\ SlotsHold /\ ProcessesHold /\ SendingHolds /\ QuietBefore
       /\ Typed'
  BY TypedStep DEF Base
<1>ft. /\ network \in [Nodes -> Object] /\ SERVER \in Nodes \ Guests /\ Guests \subseteq Nodes
       /\ slots \in [Slots -> Slot] /\ peer \in [Guests -> PeerStates]
       /\ down \in [Guests -> Seq(Message)] /\ printed \in [Nodes -> Seq(Message)]
       /\ sending \in [Nodes -> Loops(Slots)] /\ counts \in Counts
  BY <1>ty, IdsLemma, RelayAssumption DEF Typed
<1>fd. \A n \in Nodes : /\ Feed(n) \in Seq(Message) /\ Feed(n)' \in Seq(Message)
                        /\ Starts(printed[n], Feed(n)) /\ Starts(Feed(n), Feed(n))
                        /\ Heard(n) \in Seq(Message)
  <2>1. \A n \in Nodes : Feed(n)' \in Seq(Message)
    BY <1>ty, FeedsTypedNext
  <2> QED BY <1>ty, <2>1, FeedTyped, StartsWith
<1>a. ASSUME \A n \in Nodes : Feed(n)' = Feed(n),
             \A n \in Guests, s \in Slots : Listens(n, s)' => Listens(n, s) \/ Feed(n)' = <<>>,
             network'[SERVER].active => network[SERVER].active, OwnKept, LoopKept
      PROVE  Still
  <2>1. FeedsKept
    BY <1>a, <1>fd DEF FeedsKept
  <2>2. ListenersKept
    BY <1>a, <1>ft DEF ListenersKept
  <2>3. ServerKept
    BY <1>a, <1>ft DEF ServerKept
  <2> QED BY <1>a, <2>1, <2>2, <2>3 DEF Still
<1>b. ASSUME UNCHANGED <<peer, printed, down>>,
             \A n \in Nodes : network'[n].payloads = network[n].payloads
      PROVE  \A n \in Nodes : Feed(n)' = Feed(n)
  BY <1>b DEF Feed, Heard
<1>c. ASSUME UNCHANGED <<sending, counts>>
      PROVE  OwnKept
  BY <1>c DEF OwnKept, Own
<1>d. ASSUME UNCHANGED <<relaying, unique_id, reused>>
      PROVE  LoopKept
  BY <1>d DEF LoopKept
<1>e. ASSUME UNCHANGED <<peer, slots>>
      PROVE  \A n \in Guests, s \in Slots : Listens(n, s)' => Listens(n, s)
  BY <1>e DEF Listens, IsConnected
<1>f. ASSUME NEW n \in Nodes, Feed(n)' = printed[n], \A k \in Nodes \ {n} : Feed(k)' = Feed(k),
             \A k \in Guests, s \in Slots : Listens(k, s)' => Listens(k, s) /\ k # n,
             network'[SERVER].active => network[SERVER].active /\ n # SERVER, OwnKept, LoopKept
      PROVE  Still
  <2>1. FeedsKept
    BY <1>f, <1>fd DEF FeedsKept
  <2>2. ListenersKept
    BY <1>f, <1>ft DEF ListenersKept
  <2>3. ServerKept
    BY <1>f, <1>ft DEF ServerKept
  <2> QED BY <1>f, <2>1, <2>2, <2>3 DEF Still
<1>1. ASSUME NEW g \in Guests, CreateClient(g) PROVE Still
  <2>1. /\ \A n \in Nodes : network'[n].payloads = network[n].payloads
        /\ network'[SERVER] = network[SERVER]
        /\ peer' = [peer EXCEPT ![g] = "CONNECTING"] /\ peer[g] # "CONNECTED"
        /\ UNCHANGED <<printed, down, slots, sending, counts>>
        /\ UNCHANGED <<relaying, unique_id, reused>>
    BY <1>1, <1>ty, <1>ft, CreateClientEffect DEF CreateClient, ProcessesHold
  <2>2. \A n \in Nodes : Feed(n)' = Feed(n)
    BY <1>ft, <2>1 DEF Feed, Heard
  <2>3. \A n \in Guests, s \in Slots : Listens(n, s)' => Listens(n, s)
    BY <1>ft, <2>1 DEF Listens, IsConnected
  <2> QED BY <1>a, <1>c, <1>d, <2>1, <2>2, <2>3
<1>2. ASSUME NEW g \in Guests, SendToServer(g) PROVE Still
  <2>1. UNCHANGED <<peer, printed, down, slots, network>> /\ UNCHANGED <<relaying, unique_id, reused>>
    BY <1>2 DEF SendToServer
  <2>2. OwnKept
    <3>1. counts' = counts /\ sending'[SERVER] = sending[SERVER]
      BY <1>2, <1>ft DEF SendToServer
    <3> QED BY <3>1 DEF OwnKept, Own
  <2> QED BY <1>a, <1>b, <1>d, <1>e, <2>1, <2>2
<1>3. ASSUME BroadcastNext PROVE Still
  BY <1>3
<1>4. ASSUME NEW n \in Nodes, Send(n) PROVE Still
  <2>1. UNCHANGED <<peer, printed, down, slots, network>> /\ UNCHANGED <<relaying, unique_id, reused>>
    BY <1>4 DEF Send
  <2>2. OwnKept
    <3>1. CASE n = SERVER
      <4>1. /\ sending[SERVER].left = {} /\ sending'[SERVER].left = Slots
            /\ counts'.sent[SERVER] = counts.sent[SERVER] + 1 /\ counts.sent[SERVER] \in Nat
        BY <1>4, <1>ft, <3>1 DEF Send, Nothing, Counts
      <4> QED BY <4>1 DEF OwnKept, Own
    <3>2. CASE n # SERVER
      <4>1. /\ sending'[SERVER] = sending[SERVER]
            /\ counts'.sent[SERVER] = counts.sent[SERVER]
        BY <1>4, <1>ft, <3>2 DEF Send, Counts
      <4> QED BY <4>1 DEF OwnKept, Own
    <3> QED BY <3>1, <3>2
  <2> QED BY <1>a, <1>b, <1>d, <1>e, <2>1, <2>2
<1>5. ASSUME NEW n \in Nodes, Exit(n) PROVE Still
  <2>1. /\ network'[n].payloads = <<>> /\ ~network'[n].active
        /\ \A k \in Nodes \ {n} : network'[k] = network[k]
        /\ UNCHANGED <<printed, down, slots, sending>>
        /\ UNCHANGED <<relaying, unique_id, reused>>
        /\ counts'.sent = counts.sent
    BY <1>5, <1>ft DEF Exit, Closed, Counts
  <2>2. /\ \A k \in Guests \ {n} : peer'[k] = peer[k]
        /\ n \in Guests => peer'[n] # "CONNECTED"
    <3>1. CASE n = SERVER
      BY <1>5, <1>ft, <3>1 DEF Exit
    <3>2. CASE n # SERVER /\ peer[n] = "CONNECTED"
      <4>1. n \in Guests
        BY <3>2 DEF Nodes
      <4>2. network[n].peers # <<>>
        BY <1>ty, <3>2, <4>1, ClosedLemma DEF PeersHold
      <4>3. Parted(n) # {}
        BY <3>2, <4>2 DEF Parted
      <4> QED BY <1>5, <1>ft, <3>2, <4>1, <4>3 DEF Exit
    <3>3. CASE n # SERVER /\ peer[n] # "CONNECTED"
      BY <1>5, <1>ft, <3>3 DEF Exit
    <3> QED BY <3>1, <3>2, <3>3
  <2>3. Feed(n)' = printed[n]
    <3>1. Heard(n)' = printed[n]
      BY <1>ft, <2>1, EmptyConcat DEF Heard
    <3> QED BY <2>2, <3>1 DEF Feed
  <2>4. \A k \in Nodes \ {n} : Feed(k)' = Feed(k)
    BY <1>ft, <2>1, <2>2 DEF Feed, Heard
  <2>5. \A k \in Guests, s \in Slots : Listens(k, s)' => Listens(k, s) /\ k # n
    BY <2>1, <2>2 DEF Listens, IsConnected
  <2>6. OwnKept
    BY <2>1 DEF OwnKept, Own
  <2>7. network'[SERVER].active => network[SERVER].active /\ n # SERVER
    BY <1>ft, <2>1
  <2> QED BY <1>d, <1>f, <2>1, <2>3, <2>4, <2>5, <2>6, <2>7
<1>6. ASSUME NEW n \in Nodes, Peek(n) PROVE Still
  <2>1. UNCHANGED <<peer, printed, down, slots, network>> /\ UNCHANGED <<relaying, unique_id, reused>>
    BY <1>6 DEF Peek
  <2>2. OwnKept
    BY <1>6, <1>c DEF Peek
  <2> QED BY <1>a, <1>b, <1>d, <1>e, <2>1, <2>2
<1>7. ASSUME NEW n \in Nodes, Receive(n) PROVE Still
  <2>1. CASE network[n].payloads = <<>>
    <3>1. UNCHANGED <<peer, printed, down, slots, network>> /\ UNCHANGED <<relaying, unique_id, reused>>
      BY <1>7, <2>1 DEF Receive
    <3>2. OwnKept
      BY <1>7, <1>c DEF Receive
    <3> QED BY <1>a, <1>b, <1>d, <1>e, <3>1, <3>2
  <2>2. CASE network[n].payloads # <<>>
    <3>1. /\ network'[n].payloads = Tail(network[n].payloads)
          /\ printed'[n] = Append(printed[n], Head(network[n].payloads))
          /\ \A k \in Nodes \ {n} : printed'[k] = printed[k]
          /\ \A k \in Nodes : network'[k].active = network[k].active
          /\ \A k \in Nodes \ {n} : network'[k] = network[k]
      BY <1>7, <1>ty, <1>ft, <2>2, ReceiveEffect
    <3>2. UNCHANGED <<peer, down, slots, sending, counts, relaying, unique_id, reused>>
      BY <1>7 DEF Receive
    <3>3. Heard(n)' = Heard(n)
      <4>1. printed[n] \in Seq(Message) /\ network[n].payloads \in Seq(Message)
        BY <1>ty, HeardTyped
      <4>2. Append(printed[n], Head(network[n].payloads)) \o Tail(network[n].payloads)
               = printed[n] \o network[n].payloads
        BY <2>2, <4>1, MoveLemma
      <4> QED BY <3>1, <4>2 DEF Heard
    <3>4. \A k \in Nodes : Heard(k)' = Heard(k)
      BY <3>1, <3>3 DEF Heard
    <3>5. \A k \in Nodes : Feed(k)' = Feed(k)
      BY <3>2, <3>4 DEF Feed
    <3> QED BY <1>a, <1>c, <1>d, <1>e, <1>ft, <3>1, <3>2, <3>5
  <2> QED BY <2>1, <2>2
<1>8. ASSUME NEW n \in Nodes, Overlap(n) PROVE Still
  <2>1. UNCHANGED <<peer, printed, down, slots, network>> /\ UNCHANGED <<relaying, unique_id, reused>>
    BY <1>8 DEF Overlap
  <2>2. OwnKept
    <3>1. sending' = sending /\ counts'.sent = counts.sent
      BY <1>8, <1>ft DEF Overlap, Counts
    <3> QED BY <3>1 DEF OwnKept, Own
  <2> QED BY <1>a, <1>b, <1>d, <1>e, <2>1, <2>2
<1>9. ASSUME NEW g \in Guests, OpenSlot(g) PROVE Still
  <2>1. UNCHANGED <<peer, printed, down, network>> /\ UNCHANGED <<relaying, unique_id, reused>>
        /\ UNCHANGED <<sending, counts>>
    BY <1>9 DEF OpenSlot
  <2>2. \A n \in Guests, t \in Slots : Listens(n, t)' => Listens(n, t)
    <3>1. PICK s \in Slots : slots'[s].state = "CONNECTING" /\ \A t \in Slots \ {s} : slots'[t] = slots[t]
      <4>1. PICK s \in Slots :
               /\ slots'[s] = [state |-> "CONNECTING", data |-> slots[s].data, guest |-> g]
               /\ \A t \in Slots \ {s} : slots'[t] = slots[t]
        BY <1>9, <1>ty, OpenSlotEffect
      <4> QED BY <4>1
    <3> QED BY <2>1, <3>1 DEF Listens, IsConnected
  <2> QED BY <1>a, <1>b, <1>c, <1>d, <2>1, <2>2
<1>10. ASSUME NEW s \in Slots, RefuseGuest(s) PROVE Still
  <2>1. UNCHANGED <<peer, printed, down, network>> /\ UNCHANGED <<relaying, unique_id, reused>>
        /\ UNCHANGED <<sending, counts>>
    BY <1>10 DEF RefuseGuest
  <2>2. \A n \in Guests, t \in Slots : Listens(n, t)' => Listens(n, t)
    <3>1. slots'[s].state = "DISCONNECTED" /\ \A t \in Slots \ {s} : slots'[t] = slots[t]
      BY <1>10, <1>ty, ResetSlotEffect
    <3> QED BY <2>1, <3>1 DEF Listens, IsConnected
  <2> QED BY <1>a, <1>b, <1>c, <1>d, <2>1, <2>2
<1>11. ASSUME NEW s \in Slots, AcceptGuest(s) PROVE Still
  <2>0. PICK g \in Guests : g = slots[s].guest
    BY <1>11, <1>ty, AcceptGuestEffect
  <2>1. /\ slots'[s].guest = g
        /\ \A t \in Slots \ {s} : slots'[t] = slots[t]
        /\ \A n \in Nodes : /\ network'[n].payloads = network[n].payloads
                            /\ network'[n].active = network[n].active
    <3>1. /\ g \in Guests
          /\ slots'[s] = [state |-> "CONNECTED", data |-> unique_id[g], guest |-> g]
          /\ \A t \in Slots \ {s} : slots'[t] = slots[t]
          /\ \A n \in Nodes : /\ network'[n].payloads = network[n].payloads
                              /\ network'[n].active = network[n].active
      BY <1>11, <1>ty, <2>0, AcceptGuestEffect
    <3> QED BY <3>1
  <2>2. UNCHANGED <<peer, printed, down, sending, counts, relaying, unique_id>>
    BY <1>11 DEF AcceptGuest
  <2>3. LoopKept
    BY <1>11, <2>2 DEF LoopKept, AcceptGuest
  <2>4. Feed(g)' = <<>>
    <3>1. Quiet(g)
      BY <1>11, <1>ty, <2>0 DEF QuietBefore, Awaited, AcceptGuest, Connects
    <3>2. Feed(g) = <<>>
      BY <3>1, EmptyConcat DEF Quiet, Feed
    <3> QED BY <1>b, <1>ft, <2>1, <2>2, <3>2
  <2>5. \A n \in Guests, t \in Slots : Listens(n, t)' => Listens(n, t) \/ Feed(n)' = <<>>
    BY <2>1, <2>2, <2>4 DEF Listens, IsConnected
  <2> QED BY <1>a, <1>b, <1>c, <1>ft, <2>1, <2>2, <2>3, <2>5
<1>12. ASSUME NEW s \in Slots, GuestLeaves(s) PROVE Still
  <2>1. UNCHANGED <<peer, printed, down, network>> /\ UNCHANGED <<relaying, unique_id, reused>>
        /\ UNCHANGED <<sending, counts>>
    BY <1>12 DEF GuestLeaves
  <2>2. \A n \in Guests, t \in Slots : Listens(n, t)' => Listens(n, t)
    <3>1. slots'[s].state = "DISCONNECTED" /\ \A t \in Slots \ {s} : slots'[t] = slots[t]
      BY <1>12, <1>ty, ResetSlotEffect
    <3> QED BY <2>1, <3>1 DEF Listens, IsConnected
  <2> QED BY <1>a, <1>b, <1>c, <1>d, <2>1, <2>2
<1>13. ASSUME NEW s \in Slots, ReceiveFromGuest(s) PROVE Still
  BY <1>13
<1>14. ASSUME RelayNext PROVE Still
  BY <1>14
<1>15. ASSUME NEW g \in Guests, GuestConnects(g) PROVE Still
  <2>1. /\ \A n \in Nodes : /\ network'[n].payloads = network[n].payloads
                            /\ network'[n].active = network[n].active
        /\ peer' = [peer EXCEPT ![g] = "CONNECTED"] /\ peer[g] = "CONNECTING"
        /\ UNCHANGED <<printed, down, slots, sending, counts>>
        /\ UNCHANGED <<relaying, unique_id, reused>>
    BY <1>15, <1>ty, <1>ft, GuestConnectsEffect DEF GuestConnects
  <2>2. Feed(g)' = <<>> /\ Feed(g) = <<>>
    <3>1. Heard(g) = <<>> /\ down[g] = <<>>
      BY <1>ty, <2>1 DEF QuietBefore, Awaited, Quiet
    <3>2. Heard(g)' = <<>> /\ down'[g] = <<>>
      BY <1>ft, <2>1, <3>1 DEF Heard
    <3> QED BY <3>1, <3>2, EmptyConcat DEF Feed
  <2>3. \A n \in Nodes : Feed(n)' = Feed(n)
    BY <1>ft, <2>1, <2>2 DEF Feed, Heard
  <2>4. \A n \in Guests, s \in Slots : Listens(n, s)' => Listens(n, s) \/ Feed(n)' = <<>>
    BY <1>ft, <2>1, <2>2 DEF Listens, IsConnected
  <2> QED BY <1>a, <1>c, <1>d, <1>ft, <2>1, <2>3, <2>4
<1>16. ASSUME NEW g \in Guests, ReceiveFromServer(g) PROVE Still
  <2>1. /\ network'[g].payloads = Append(network[g].payloads, Head(down[g]))
        /\ \A k \in Nodes : network'[k].active = network[k].active
        /\ \A k \in Nodes \ {g} : network'[k] = network[k]
    BY <1>16, <1>ty, ReceiveFromServerEffect
  <2>2. /\ peer[g] = "CONNECTED" /\ down[g] # <<>>
        /\ down'[g] = Tail(down[g]) /\ \A k \in Guests \ {g} : down'[k] = down[k]
        /\ UNCHANGED <<peer, printed, slots, sending, counts>>
        /\ UNCHANGED <<relaying, unique_id, reused>>
    BY <1>16, <1>ft DEF ReceiveFromServer
  <2>3. Feed(g)' = Feed(g)
    <3>1. /\ printed[g] \in Seq(Message) /\ network[g].payloads \in Seq(Message)
          /\ Heard(g) \in Seq(Message) /\ down[g] \in Seq(Message)
          /\ Head(down[g]) \in Message
      BY <1>ty, <1>ft, <2>2, HeardTyped
    <3>2. printed[g] \o Append(network[g].payloads, Head(down[g]))
             = Append(printed[g] \o network[g].payloads, Head(down[g]))
      <4>1. \A a, b \in Seq(Message), m \in Message : a \o Append(b, m) = Append(a \o b, m)
        BY AppendLemma
      <4> QED BY <3>1, <4>1
    <3>3. Heard(g)' = Append(Heard(g), Head(down[g]))
      BY <2>1, <2>2, <3>2 DEF Heard
    <3>4. Append(Heard(g), Head(down[g])) \o Tail(down[g]) = Heard(g) \o down[g]
      BY <2>2, <3>1, MoveLemma
    <3> QED BY <2>2, <3>3, <3>4 DEF Feed
  <2>4. \A n \in Nodes : Feed(n)' = Feed(n)
    BY <1>ft, <2>1, <2>2, <2>3 DEF Feed, Heard
  <2> QED BY <1>a, <1>c, <1>d, <1>e, <1>ft, <2>1, <2>2, <2>4
<1>17. ASSUME NEW g \in Guests, ServerLeaves(g) PROVE Still
  <2>1. /\ \A k \in Nodes \ {g} : network'[k] = network[k]
        /\ peer'[g] = "DISCONNECTED" /\ \A k \in Guests \ {g} : peer'[k] = peer[k]
        /\ UNCHANGED <<printed, down, slots, sending, counts>>
        /\ UNCHANGED <<relaying, unique_id, reused>>
    BY <1>17, <1>ft DEF ServerLeaves
  <2>2. \A k \in Nodes \ {g} : Feed(k)' = Feed(k)
    BY <1>ft, <2>1 DEF Feed, Heard
  <2>3. \A k \in Guests, s \in Slots : Listens(k, s)' => Listens(k, s) /\ k # g
    BY <2>1 DEF Listens, IsConnected
  <2>4. network'[SERVER].active => network[SERVER].active /\ g # SERVER
    BY <1>ft, <2>1
  <2>5. CASE peer[g] = "CONNECTED"
    <3>1. network'[g].payloads = <<>>
      BY <1>17, <1>ft, <2>5 DEF ServerLeaves, Closed
    <3>2. Heard(g)' = printed[g]
      BY <1>ft, <2>1, <3>1, EmptyConcat DEF Heard
    <3>3. Feed(g)' = printed[g]
      BY <2>1, <3>2 DEF Feed
    <3> QED BY <1>c, <1>d, <1>f, <1>ft, <2>1, <2>2, <2>3, <2>4, <3>3
  <2>6. CASE peer[g] # "CONNECTED"
    <3>1. network' = network
      BY <1>17, <2>6 DEF ServerLeaves
    <3>2. Feed(g)' = Feed(g)
      BY <2>1, <2>6, <3>1 DEF Feed, Heard
    <3> QED BY <1>a, <1>c, <1>d, <2>1, <2>2, <2>3, <2>4, <3>2
  <2> QED BY <2>5, <2>6
<1>18. CASE UNCHANGED vars
  BY <1>18, <1>a, <1>b, <1>c, <1>d, <1>e DEF vars
<1> QED
  BY <1>1, <1>2, <1>3, <1>4, <1>5, <1>6, <1>7, <1>8, <1>9, <1>10, <1>11, <1>12,
     <1>13, <1>14, <1>15, <1>16, <1>17, <1>18, IdsLemma DEF Next, MainNext, ServerPolls, GuestPolls

-----------------------------------------------------------------------------
(* The three actions that add a message to a feed.                         *)

LEMMA ExpectedTyped ==
    ASSUME Typed, NEW x \in Guests
    PROVE  Expected(x) \in Int
<1>1. counts.sent[x] \in Int /\ up[x] \in Seq(Message)
  BY IdsLemma DEF Typed, Counts
<1>2. Said(x) \in Int
  BY <1>1 DEF Said
<1>3. up[x] # <<>> => up[x][1] \in Message
  BY <1>1
<1> QED BY <1>2, <1>3 DEF Expected, Message

\* Who listens at which slot.
LEMMA ListensLemma ==
    ASSUME SlotsHold
    PROVE  \A n, k \in Guests, s, t \in Slots :
              Listens(n, s) /\ Listens(k, t) => (n = k <=> s = t)
  BY DEF SlotsHold, Listens, IsOpen, IsConnected

\* Whoever listens at the slot that a message is sent to gets it.
LEMMA SentDownEffect ==
    ASSUME Typed, SlotsHold, NEW s \in Slots, NEW m \in Message, down' = SentDown(s, m),
           UNCHANGED <<peer, slots, printed, network>>
    PROVE  /\ \A n \in Nodes :
                 Feed(n)' = IF n \in Guests /\ Listens(n, s) THEN Append(Feed(n), m) ELSE Feed(n)
           /\ \A n \in Guests, t \in Slots : Listens(n, t)' <=> Listens(n, t)
<1>1. \A n \in Nodes : Heard(n)' = Heard(n) /\ Heard(n) \in Seq(Message)
  BY HeardTyped DEF Heard
<1>2. \A n \in Guests, t \in Slots : Listens(n, t)' <=> Listens(n, t)
  BY DEF Listens, IsConnected
<1>3. down \in [Guests -> Seq(Message)] /\ slots \in [Slots -> Slot] /\ Guests \subseteq Nodes
  BY IdsLemma DEF Typed
<1>4. CASE IsConnected(s)
  <2>1. PICK g \in Guests : g = slots[s].guest
    BY <1>3, <1>4 DEF SlotsHold, IsOpen, IsConnected, Slot
  <2>2. down'[g] = Append(down[g], m) /\ \A n \in Guests \ {g} : down'[n] = down[n]
    BY <1>3, <1>4, <2>1 DEF SentDown, IsConnected
  <2>3. \A n \in Guests : Listens(n, s) <=> n = g /\ peer[g] = "CONNECTED"
    BY <1>4, <2>1 DEF Listens
  <2>4. \A n \in Nodes \ {g} : Feed(n)' = Feed(n)
    BY <1>1, <2>2 DEF Feed
  <2>5. peer[g] = "CONNECTED" => Feed(g)' = Append(Feed(g), m)
    <3>1. \A a, b \in Seq(Message) : a \o Append(b, m) = Append(a \o b, m)
      BY AppendLemma
    <3> QED BY <1>1, <1>3, <2>2, <3>1 DEF Feed
  <2>6. peer[g] # "CONNECTED" => Feed(g)' = Feed(g)
    BY <1>1, <1>3 DEF Feed
  <2> QED BY <1>2, <2>3, <2>4, <2>5, <2>6
<1>5. CASE ~IsConnected(s)
  <2>1. down' = down /\ \A n \in Guests : ~Listens(n, s)
    BY <1>5 DEF SentDown, IsConnected, Listens
  <2> QED BY <1>1, <1>2, <2>1 DEF Feed
<1> QED BY <1>4, <1>5

LEMMA LogsRelayNext ==
    ASSUME Paths, Logs, RelayNext
    PROVE  Logs'
<1>ty. /\ Typed /\ SlotsHold /\ SendingHolds /\ StaleIsReused /\ ConnectedAreRelayedTo
       /\ ServerIsActive /\ UpHolds /\ RelayedIsLast
  BY DEF Paths, Base
<1>ft. /\ Guests \subseteq Nodes /\ SERVER \in Nodes \ Guests /\ network \in [Nodes -> Object]
       /\ reused \subseteq Guests /\ relaying \in Loops(Ids) /\ relaying # Nothing
  BY <1>ty, IdsLemma, RelayAssumption DEF Typed, RelayNext
<1>un. UNCHANGED <<unique_id, process, network, sending, taking, peer, slots, up,
                   parting, printed, told, reused, counts>>
  BY DEF RelayNext
<1>id. PICK id \in relaying.left : id = Min(relaying.left)
  BY <1>ft, LoopsLemma, MinOfSet, IdsLemma
<1>s. PICK s \in Slots : s = network[SERVER].peers[id] /\ id \in DOMAIN network[SERVER].peers
  BY <1>ty, <1>ft DEF SendingHolds, Object, PeersMaps
<1>m. PICK m \in Message : m = relaying.message
  BY <1>ft, LoopsLemma
<1>x. PICK x \in Guests : x = m.from
  BY <1>ty, <1>ft, <1>m DEF SendingHolds
<1>1. /\ \A n \in Nodes :
            Feed(n)' = IF n \in Guests /\ Listens(n, s) THEN Append(Feed(n), m) ELSE Feed(n)
      /\ \A n \in Guests, t \in Slots : Listens(n, t)' <=> Listens(n, t)
  <2>1. down' = SentDown(s, m)
    BY <1>id, <1>s, <1>m DEF RelayNext
  <2> QED BY <1>ty, <1>un, <2>1, SentDownEffect
<1>2. /\ relaying' = Nothing \/ relaying'.message = m
      /\ relaying'.left = relaying.left \ {id}
      /\ relaying' = Nothing <=> relaying.left \ {id} = {}
  <2>1. relaying' = Served(relaying, id) /\ relaying' \in Loops(Ids)
    BY <1>ft, <1>id, ServedLemma DEF RelayNext
  <2> QED BY <1>ft, <1>m, <2>1, ServedLemma, LoopsLemma
<1>3. SpeechKept
  <2>1. \A t \in Slots : ~ReceiveFromGuest(t)
    BY <1>ft DEF ReceiveFromGuest, Polls
  <2> QED BY <1>ty, <2>1, SpeechStep DEF Paths, Next, ServerPolls
<1>4. ASSUME NEW n \in Guests \ reused, NEW t \in Slots, Listens(n, t)
      PROVE  t = s <=> unique_id[n] = id
  <2>1. t = s => unique_id[n] = id
    BY <1>ty, <1>s, <1>4 DEF StaleIsReused, Listens
  <2>2. network[SERVER].peers[unique_id[n]] = t
    BY <1>ty, <1>4 DEF RelayNext, ServerIsActive, ConnectedAreRelayedTo, Listens, IsConnected
  <2> QED BY <1>s, <2>1, <2>2
<1>5. \A n \in Guests \ reused : Listens(n, s) =>
         unique_id[n] = id /\ n # x /\ EndsAt(Feed(n), x, m.number - 1)
  <2> SUFFICES ASSUME NEW n \in Guests \ reused, Listens(n, s)
               PROVE  unique_id[n] = id /\ n # x /\ EndsAt(Feed(n), x, m.number - 1)
    OBVIOUS
  <2>1. unique_id[n] = id
    BY <1>4
  <2>2. n # x
    BY <1>ty, <1>ft, <1>m, <1>x, <2>1 DEF SendingHolds
  <2>3. unique_id[n] \in relaying.left
    BY <2>1
  <2> QED BY <1>ft, <1>m, <1>x, <2>1, <2>2, <2>3 DEF Logs, RelayReached
<1>6. \A n \in Guests, t \in Slots : Listens(n, s) /\ Listens(n, t) => t = s
  BY <1>ty, ListensLemma
<1>7. Plain' = Plain /\ Plain \subseteq Nodes
  BY <1>un DEF Plain
<1>8. \A n \in Nodes : Feed(n) \in Seq(Message)
  BY <1>ty, FeedTyped
<1>9. LastOfGuests(m)'
  <2> SUFFICES ASSUME NEW n \in Plain, NEW i \in DOMAIN Feed(n)', NEW j \in DOMAIN Feed(n)',
                      i < j, Feed(n)'[i] = m
               PROVE  Feed(n)'[j].from = SERVER
    BY <1>7 DEF LastOfGuests
  <2>1. CASE n \in Guests /\ Listens(n, s)
    <3>1. \A k \in DOMAIN Feed(n) : Feed(n)[k] # m
      BY <1>ft, <1>m, <1>5, <2>1 DEF Logs, RelayedIsNew, Plain
    <3>2. Feed(n)' = Append(Feed(n), m) /\ Feed(n) \in Seq(Message)
      BY <1>1, <1>7, <1>8, <2>1
    <3>3. /\ \A k \in DOMAIN Feed(n)' : k \in DOMAIN Feed(n) \/ k = Len(Feed(n)) + 1
          /\ \A k \in DOMAIN Feed(n) : Feed(n)'[k] = Feed(n)[k]
          /\ DOMAIN Feed(n)' = 1..(Len(Feed(n)) + 1) /\ Len(Feed(n)) \in Nat
      BY <3>2, AppendedLog
    <3>4. i = Len(Feed(n)) + 1
      BY <3>1, <3>3
    <3> QED BY <3>3, <3>4
  <2>2. CASE ~(n \in Guests /\ Listens(n, s))
    <3>1. Feed(n)' = Feed(n)
      BY <1>1, <1>7, <2>2
    <3> QED BY <1>ft, <1>m, <3>1 DEF Logs, RelayedIsNew
  <2> QED BY <2>1, <2>2
<1>10. FeedsInSequence' /\ FeedsNotResent' /\ FeedsInOneOrder'
  <2>1. CASE \E h \in Guests : Listens(h, s)
    <3>1. PICK h \in Guests : Listens(h, s)
      BY <2>1
    <3>2. Grows(h, m)
      BY <1>ty, <1>ft, <1>1, <3>1, ListensLemma DEF Grows
    <3>3. h \in Plain => m.from # h /\ EndsAt(Feed(h), m.from, m.number - 1)
      BY <1>x, <1>5, <3>1 DEF Plain
    <3> QED BY <1>ty, <1>ft, <1>7, <1>9, <3>2, <3>3, LogsGrow
  <2>2. CASE ~\E h \in Guests : Listens(h, s)
    <3>1. \A n \in Nodes : Feed(n)' = Feed(n)
      BY <1>1, <2>2
    <3> QED BY <1>7, <3>1 DEF Logs, FeedsInSequence, FeedsNotResent, FeedsInOneOrder
  <2> QED BY <2>1, <2>2
<1>11. OwnReached'
  <2> SUFFICES ASSUME NEW t \in Slots, NEW n \in Guests, Listens(n, t)
               PROVE  EndsAt(Feed(n)', SERVER, Own(t))
    BY <1>1, <1>un DEF OwnReached, Own
  <2>1. EndsAt(Feed(n), SERVER, Own(t))
    BY DEF Logs, OwnReached
  <2>2. EndsAt(Append(Feed(n), m), SERVER, Own(t))
    BY <1>ft, <1>x, <1>8, <2>1, AppendEndsAt
  <2> QED BY <1>1, <1>ft, <2>1, <2>2
<1>12. RelayReached'
  <2> SUFFICES ASSUME NEW t \in Slots, NEW n \in Guests \ reused, Listens(n, t),
                      NEW y \in Guests \ {n}
               PROVE  IF relaying' # Nothing /\ m.from = y
                      THEN EndsAt(Feed(n)', y, IF unique_id[n] \in relaying.left \ {id}
                                               THEN m.number - 1 ELSE m.number)
                      ELSE Speaks(y)' => EndsAt(Feed(n)', y, Expected(y)' - 1)
    BY <1>1, <1>2, <1>un DEF RelayReached
  <2>0. n \in Nodes /\ Feed(n) \in Seq(Message)
    BY <1>ft, <1>8
  <2>1. IF y = x
        THEN EndsAt(Feed(n)', x, IF unique_id[n] \in relaying.left \ {id}
                                 THEN m.number - 1 ELSE m.number)
        ELSE Speaks(y) => EndsAt(Feed(n)', y, Expected(y) - 1)
    <3>1. CASE y = x /\ t = s
      <4>1. unique_id[n] = id /\ Feed(n)' = Append(Feed(n), m)
        BY <1>1, <1>4, <2>0, <3>1
      <4>2. EndsAt(Append(Feed(n), m), x, m.number)
        BY <1>x, <2>0, AppendEndsAt
      <4> QED BY <3>1, <4>1, <4>2
    <3>2. CASE y = x /\ t # s
      <4>1. unique_id[n] # id /\ Feed(n)' = Feed(n)
        BY <1>1, <1>4, <1>6, <2>0, <3>2
      <4>2. EndsAt(Feed(n), x, IF unique_id[n] \in relaying.left THEN m.number - 1 ELSE m.number)
        BY <1>ft, <1>m, <1>x, <3>2 DEF Logs, RelayReached
      <4> QED BY <3>2, <4>1, <4>2
    <3>3. CASE y # x
      <4>1. Speaks(y) => EndsAt(Feed(n), y, Expected(y) - 1)
        BY <1>ft, <1>m, <1>x, <3>3 DEF Logs, RelayReached
      <4>2. Speaks(y) => EndsAt(Append(Feed(n), m), y, Expected(y) - 1)
        BY <1>x, <2>0, <3>3, <4>1, AppendEndsAt
      <4> QED BY <1>1, <2>0, <3>3, <4>1, <4>2
    <3> QED BY <3>1, <3>2, <3>3
  <2>2. Speaks(y)' => Speaks(y) /\ Expected(y)' = Expected(y)
    BY <1>3 DEF SpeechKept
  <2>3. Speaks(x) => m.number = Expected(x) - 1
    BY <1>ty, <1>ft, <1>m, <1>x DEF RelayedIsLast
  <2>4. relaying' = Nothing => ~(unique_id[n] \in relaying.left \ {id})
    BY <1>2
  <2> QED BY <1>x, <2>1, <2>2, <2>3, <2>4
<1>13. ServerReached'
  <2>1. Feed(SERVER)' = Feed(SERVER)
    BY <1>1, <1>ft
  <2> QED BY <1>3, <1>un, <2>1 DEF Logs, ServerReached, SpeechKept
<1>14. NothingAhead'
  <2> SUFFICES ASSUME NEW n \in Plain, NEW y \in Guests, Speaks(y)',
                      NEW i \in DOMAIN Feed(n)', Feed(n)'[i].from = y
               PROVE  Feed(n)'[i].number < Expected(y)'
    BY <1>7 DEF NothingAhead
  <2>0. Speaks(y) /\ Expected(y)' = Expected(y)
    BY <1>3 DEF SpeechKept
  <2>1. CASE i \in DOMAIN Feed(n) /\ Feed(n)'[i] = Feed(n)[i]
    BY <2>0, <2>1 DEF Logs, NothingAhead
  <2>2. CASE ~(i \in DOMAIN Feed(n) /\ Feed(n)'[i] = Feed(n)[i])
    <3>1. Feed(n)'[i] = m
      <4>1. Feed(n)' = Append(Feed(n), m) /\ Feed(n) \in Seq(Message)
        BY <1>1, <1>7, <1>8, <2>2
      <4> QED BY <2>2, <4>1, AppendedLog
    <3>2. y = x /\ m.number = Expected(x) - 1
      BY <1>ty, <1>ft, <1>m, <1>x, <2>0, <3>1 DEF RelayedIsLast
    <3>3. m.number < Expected(x)
      BY <1>ty, <3>2, ExpectedTyped
    <3> QED BY <2>0, <3>1, <3>2, <3>3
  <2> QED BY <2>1, <2>2
<1>15. RelayedIsNew'
  <2>1. ASSUME NEW n \in Guests \ reused, NEW t \in Slots, Listens(n, t),
               unique_id[n] \in relaying.left \ {id}
        PROVE  \A i \in DOMAIN Feed(n)' : Feed(n)'[i] # m
    <3>1. Feed(n)' = Feed(n)
      BY <1>1, <1>4, <1>6, <1>ft, <2>1
    <3> QED BY <1>ft, <1>m, <2>1, <3>1 DEF Logs, RelayedIsNew
  <2> QED BY <1>1, <1>2, <1>9, <1>un, <2>1 DEF RelayedIsNew, LastOfGuests
<1> QED BY <1>10, <1>11, <1>12, <1>13, <1>14, <1>15 DEF Logs

LEMMA LogsBroadcastNext ==
    ASSUME Paths, Logs, BroadcastNext
    PROVE  Logs'
<1>ty. Typed /\ SlotsHold /\ SendingHolds /\ UpHolds
  BY DEF Paths, Base
<1>ft. /\ Guests \subseteq Nodes /\ SERVER \in Nodes \ Guests
       /\ sending \in [Nodes -> Loops(Slots)] /\ counts \in Counts
       /\ sending[SERVER] \in Loops(Slots) /\ sending[SERVER] # Nothing
  BY <1>ty, IdsLemma, RelayAssumption DEF Typed, BroadcastNext
<1>un. UNCHANGED <<unique_id, process, network, relaying, taking, peer, slots, up,
                   parting, printed, told, reused, counts>>
  BY DEF BroadcastNext
<1>s. PICK s \in Slots : s = Min(sending[SERVER].left) /\ s \in sending[SERVER].left
  <2>1. sending[SERVER].left \subseteq Slots /\ sending[SERVER].left # {}
    BY <1>ft, LoopsLemma
  <2> QED BY <2>1, MinOfSet, IdsLemma
<1>m. PICK m \in Message :
         m = sending[SERVER].message /\ m.from = SERVER /\ m.number = counts.sent[SERVER]
  <2>1. sending[SERVER].message \in Message
    BY <1>ft, LoopsLemma
  <2>2. sending[SERVER].message = [from |-> SERVER, number |-> counts.sent[SERVER]]
    BY <1>ty, <1>ft DEF SendingHolds
  <2> QED BY <2>1, <2>2
<1>1. /\ \A n \in Nodes :
            Feed(n)' = IF n \in Guests /\ Listens(n, s) THEN Append(Feed(n), m) ELSE Feed(n)
      /\ \A n \in Guests, t \in Slots : Listens(n, t)' <=> Listens(n, t)
  <2>1. down' = SentDown(s, m)
    BY <1>s, <1>m DEF BroadcastNext
  <2> QED BY <1>ty, <1>un, <2>1, SentDownEffect
<1>2. \A t \in Slots : Own(t)' = IF t = s THEN counts.sent[SERVER] ELSE Own(t)
  <2>1. sending'[SERVER].left = sending[SERVER].left \ {s}
    <3>1. sending'[SERVER] = Served(sending[SERVER], s)
      BY <1>ft, <1>s DEF BroadcastNext
    <3> QED BY <1>ft, <1>s, <3>1, ServedLemma
  <2> QED BY <1>un, <2>1 DEF Own
<1>3. SpeechKept
  <2>1. CASE \A t \in Slots : ~ReceiveFromGuest(t)
    BY <1>ty, <2>1, SpeechStep, IdsLemma DEF Paths, Next, MainNext
  <2>2. CASE \E t \in Slots : ReceiveFromGuest(t)
    BY <1>ty, <1>ft, <1>s, <2>2, ServedLemma DEF ReceiveFromGuest, BroadcastNext
  <2> QED BY <2>1, <2>2
<1>4. \A n \in Guests : Listens(n, s) => EndsAt(Feed(n), SERVER, m.number - 1)
  BY <1>s, <1>m DEF Logs, OwnReached, Own
<1>5. \A n \in Guests, t \in Slots : Listens(n, s) /\ Listens(n, t) => t = s
  BY <1>ty, ListensLemma
<1>6. Plain' = Plain /\ Plain \subseteq Nodes
  BY <1>un DEF Plain
<1>7. \A n \in Nodes : Feed(n) \in Seq(Message)
  BY <1>ty, FeedTyped
<1>8. \A n \in Nodes : \A i \in DOMAIN Feed(n)' :
         \/ i \in DOMAIN Feed(n) /\ Feed(n)'[i] = Feed(n)[i]
         \/ /\ Feed(n)'[i] = m
            /\ \A j \in DOMAIN Feed(n)' : j <= i
  <2> SUFFICES ASSUME NEW n \in Nodes, NEW i \in DOMAIN Feed(n)'
               PROVE  \/ i \in DOMAIN Feed(n) /\ Feed(n)'[i] = Feed(n)[i]
                      \/ /\ Feed(n)'[i] = m
                         /\ \A j \in DOMAIN Feed(n)' : j <= i
    OBVIOUS
  <2>1. CASE Feed(n)' = Append(Feed(n), m)
    <3>1. /\ \A k \in DOMAIN Feed(n)' : k \in DOMAIN Feed(n) \/ k = Len(Feed(n)) + 1
          /\ \A k \in DOMAIN Feed(n) : Feed(n)'[k] = Feed(n)[k]
          /\ DOMAIN Feed(n)' = 1..(Len(Feed(n)) + 1) /\ Len(Feed(n)) \in Nat
          /\ Feed(n)'[Len(Feed(n)) + 1] = m
      BY <1>7, <2>1, AppendedLog
    <3> QED BY <3>1
  <2>2. CASE Feed(n)' = Feed(n)
    BY <2>2
  <2> QED BY <1>1, <2>1, <2>2
<1>9. FeedsInSequence' /\ FeedsNotResent' /\ FeedsInOneOrder'
  <2>1. CASE \E h \in Guests : Listens(h, s)
    <3>1. PICK h \in Guests : Listens(h, s)
      BY <2>1
    <3>2. Grows(h, m)
      BY <1>ty, <1>ft, <1>1, <3>1, ListensLemma DEF Grows
    <3>3. h \in Plain => m.from # h /\ EndsAt(Feed(h), m.from, m.number - 1)
      BY <1>ft, <1>m, <1>4, <3>1
    <3> QED BY <1>ty, <1>ft, <1>m, <1>6, <3>2, <3>3, LogsGrow
  <2>2. CASE ~\E h \in Guests : Listens(h, s)
    <3>1. \A n \in Nodes : Feed(n)' = Feed(n)
      BY <1>1, <2>2
    <3> QED BY <1>6, <3>1 DEF Logs, FeedsInSequence, FeedsNotResent, FeedsInOneOrder
  <2> QED BY <2>1, <2>2
<1>10. OwnReached'
  <2> SUFFICES ASSUME NEW t \in Slots, NEW n \in Guests, Listens(n, t)
               PROVE  EndsAt(Feed(n)', SERVER, Own(t)')
    BY <1>1 DEF OwnReached
  <2>1. CASE t = s
    <3>1. Feed(n)' = Append(Feed(n), m) /\ Feed(n) \in Seq(Message)
      BY <1>1, <1>ft, <1>7, <2>1
    <3>2. EndsAt(Append(Feed(n), m), SERVER, m.number)
      BY <1>m, <3>1, AppendEndsAt
    <3> QED BY <1>2, <1>m, <2>1, <3>1, <3>2
  <2>2. CASE t # s
    <3>1. Feed(n)' = Feed(n) /\ Own(t)' = Own(t)
      BY <1>1, <1>2, <1>5, <1>ft, <2>2
    <3> QED BY <3>1 DEF Logs, OwnReached
  <2> QED BY <2>1, <2>2
<1>11. \A n, x \in Guests : \A c : EndsAt(Feed(n), x, c) => EndsAt(Feed(n)', x, c)
  <2> SUFFICES ASSUME NEW n \in Guests, NEW x \in Guests, NEW c, EndsAt(Feed(n), x, c)
               PROVE  EndsAt(Feed(n)', x, c)
    OBVIOUS
  <2>1. EndsAt(Append(Feed(n), m), x, c)
    BY <1>ft, <1>m, <1>7, AppendEndsAt
  <2> QED BY <1>1, <1>ft, <2>1
<1>12. RelayReached'
  BY <1>1, <1>3, <1>11, <1>un DEF Logs, RelayReached, SpeechKept
<1>13. ServerReached'
  <2>1. Feed(SERVER)' = Feed(SERVER)
    BY <1>1, <1>ft
  <2> QED BY <1>3, <1>un, <2>1 DEF Logs, ServerReached, SpeechKept
<1>14. NothingAhead'
  <2> SUFFICES ASSUME NEW n \in Plain, NEW x \in Guests, Speaks(x)',
                      NEW i \in DOMAIN Feed(n)', Feed(n)'[i].from = x
               PROVE  Feed(n)'[i].number < Expected(x)'
    BY <1>6 DEF NothingAhead
  <2>1. i \in DOMAIN Feed(n) /\ Feed(n)'[i] = Feed(n)[i]
    BY <1>6, <1>8, <1>ft, <1>m
  <2> QED BY <1>3, <2>1 DEF Logs, NothingAhead, SpeechKept
<1>15. RelayedIsNew'
  <2> SUFFICES ASSUME relaying # Nothing
               PROVE  /\ \A n \in Guests \ reused, t \in Slots :
                            Listens(n, t) /\ unique_id[n] \in relaying.left =>
                               \A i \in DOMAIN Feed(n)' : Feed(n)'[i] # relaying.message
                      /\ \A n \in Plain : \A i, j \in DOMAIN Feed(n)' :
                            i < j /\ Feed(n)'[i] = relaying.message => Feed(n)'[j].from = SERVER
    BY <1>1, <1>6, <1>un DEF RelayedIsNew
  <2>1. relaying.message # m
    BY <1>ty, <1>ft, <1>m DEF SendingHolds
  <2>2. ASSUME NEW n \in Guests \ reused, NEW t \in Slots, Listens(n, t),
               unique_id[n] \in relaying.left, NEW i \in DOMAIN Feed(n)'
        PROVE  Feed(n)'[i] # relaying.message
    BY <1>8, <1>ft, <2>1, <2>2 DEF Logs, RelayedIsNew
  <2>3. ASSUME NEW n \in Plain, NEW i \in DOMAIN Feed(n)', NEW j \in DOMAIN Feed(n)',
               i < j, Feed(n)'[i] = relaying.message
        PROVE  Feed(n)'[j].from = SERVER
    <3>1. i \in DOMAIN Feed(n) /\ Feed(n)'[i] = Feed(n)[i]
      BY <1>6, <1>8, <2>1, <2>3
    <3>2. CASE j \in DOMAIN Feed(n) /\ Feed(n)'[j] = Feed(n)[j]
      BY <2>3, <3>1, <3>2 DEF Logs, RelayedIsNew
    <3>3. CASE Feed(n)'[j] = m
      BY <1>m, <3>3
    <3> QED BY <1>6, <1>8, <3>2, <3>3
  <2> QED BY <2>2, <2>3
<1> QED BY <1>9, <1>10, <1>12, <1>13, <1>14, <1>15 DEF Logs

LEMMA LogsReceiveFromGuest ==
    ASSUME Paths, Logs, NEW s \in Slots, ReceiveFromGuest(s)
    PROVE  Logs'
<1>ty. Typed /\ SlotsHold /\ SendingHolds /\ UpHolds /\ ConnectedAreRelayedTo /\ reused \subseteq Guests
  BY DEF Paths, Base, Typed
<1>ft. Guests \subseteq Nodes /\ SERVER \in Nodes \ Guests
  BY IdsLemma, RelayAssumption
<1>un. UNCHANGED <<unique_id, process, sending, taking, peer, slots,
                   down, parting, printed, told, reused, counts>>
  BY DEF ReceiveFromGuest
<1>gm. PICK g \in Guests, m \in Message :
           LET T == DOMAIN network[SERVER].peers \ {unique_id[g]}
           IN  /\ g = slots[s].guest /\ m.from = g /\ IsConnected(s)
               /\ Speaks(g) /\ Expected(g) = m.number
               /\ Speaks(g)' => Expected(g)' = m.number + 1
               /\ \A x \in Guests \ {g} : Speaks(x)' => Speaks(x) /\ Expected(x)' = Expected(x)
               /\ relaying = Nothing /\ network[SERVER].active
               /\ relaying' = IF T = {} THEN Nothing ELSE [message |-> m, left |-> T]
               /\ Heard(SERVER)' = Append(Heard(SERVER), m)
               /\ \A n \in Guests : Heard(n)' = Heard(n)
               /\ network'[SERVER].peers = network[SERVER].peers
               /\ network'[SERVER].active = network[SERVER].active
  BY TakenEffect DEF Paths
<1>T. PICK T \in SUBSET Ids :
         /\ T = DOMAIN network[SERVER].peers \ {unique_id[g]}
         /\ relaying' = IF T = {} THEN Nothing ELSE [message |-> m, left |-> T]
  BY <1>gm DEF Paths, Base, PeersHold
<1>re. /\ relaying' = Nothing <=> T = {}
       /\ relaying' # Nothing => relaying'.message = m /\ relaying'.left = T
  BY <1>T, LoopsLemma
<1>1. /\ Feed(SERVER)' = Append(Feed(SERVER), m)
      /\ \A n \in Guests : Feed(n)' = Feed(n)
      /\ \A n \in Guests, t \in Slots : Listens(n, t)' <=> Listens(n, t)
  BY <1>gm, <1>ft, <1>un DEF Feed, Listens, IsConnected
<1>2. Plain' = Plain /\ Plain \subseteq Nodes /\ SERVER \in Plain /\ Nodes = Guests \cup {SERVER}
  BY <1>ty, <1>ft, <1>un DEF Plain, Nodes
<1>3. Feed(SERVER) \in Seq(Message) /\ m.number \in Nat
  BY <1>ty, <1>ft, FeedTyped DEF Message
<1>4. /\ \A k \in DOMAIN Feed(SERVER)' : k \in DOMAIN Feed(SERVER) \/ k = Len(Feed(SERVER)) + 1
      /\ \A k \in DOMAIN Feed(SERVER) : Feed(SERVER)'[k] = Feed(SERVER)[k]
      /\ DOMAIN Feed(SERVER)' = 1..(Len(Feed(SERVER)) + 1) /\ Len(Feed(SERVER)) \in Nat
      /\ Feed(SERVER)'[Len(Feed(SERVER)) + 1] = m
  BY <1>1, <1>3, AppendedLog
<1>5. \A n \in Plain : \A i \in DOMAIN Feed(n) : Feed(n)[i] # m
  BY <1>gm, <1>3 DEF Logs, NothingAhead
<1>6. LastOfGuests(m)'
  <2> SUFFICES ASSUME NEW n \in Plain, NEW i \in DOMAIN Feed(n)', NEW j \in DOMAIN Feed(n)',
                      i < j, Feed(n)'[i] = m
               PROVE  FALSE
    BY <1>2 DEF LastOfGuests
  <2>1. n = SERVER
    BY <1>1, <1>2, <1>5
  <2>2. i = Len(Feed(SERVER)) + 1
    BY <1>2, <1>4, <1>5, <2>1
  <2> QED BY <1>4, <2>1, <2>2
<1>7. EndsAt(Feed(SERVER), g, m.number - 1)
  BY <1>gm DEF Logs, ServerReached
<1>8. FeedsInSequence' /\ FeedsNotResent' /\ FeedsInOneOrder'
  <2>1. Grows(SERVER, m)
    BY <1>1, <1>2 DEF Grows
  <2> QED BY <1>ty, <1>ft, <1>gm, <1>2, <1>6, <1>7, <2>1, LogsGrow
<1>9. OwnReached'
  BY <1>1, <1>un DEF Logs, OwnReached, Own
<1>10. RelayReached'
  <2> SUFFICES ASSUME NEW t \in Slots, NEW n \in Guests \ reused, Listens(n, t),
                      NEW y \in Guests \ {n}
               PROVE  IF relaying' # Nothing /\ m.from = y
                      THEN EndsAt(Feed(n), y, IF unique_id[n] \in T
                                              THEN m.number - 1 ELSE m.number)
                      ELSE Speaks(y)' => EndsAt(Feed(n), y, Expected(y)' - 1)
    BY <1>1, <1>re, <1>un DEF RelayReached
  <2>1. Speaks(y) => EndsAt(Feed(n), y, Expected(y) - 1)
    BY <1>gm DEF Logs, RelayReached
  <2>2. CASE y = g
    <3>1. unique_id[n] \in T
      <4>1. network[SERVER].peers[unique_id[n]] = t /\ unique_id[n] \in DOMAIN network[SERVER].peers
        BY <1>ty, <1>gm DEF ConnectedAreRelayedTo, Listens, IsConnected
      <4>2. network[SERVER].peers[unique_id[g]] = s
        BY <1>ty, <1>gm DEF ConnectedAreRelayedTo, IsConnected
      <4>3. t # s
        BY <1>gm, <2>2 DEF Listens
      <4> QED BY <1>T, <4>1, <4>2, <4>3
    <3> QED BY <1>gm, <1>re, <2>1, <2>2, <3>1
  <2>3. CASE y # g
    BY <1>gm, <2>1, <2>3
  <2> QED BY <2>2, <2>3
<1>11. ServerReached'
  <2> SUFFICES ASSUME NEW x \in Guests, Speaks(x)'
               PROVE  EndsAt(Append(Feed(SERVER), m), x, Expected(x)' - 1)
    BY <1>1 DEF ServerReached
  <2>1. CASE x = g
    <3>1. Expected(x)' - 1 = m.number
      BY <1>gm, <1>3, <2>1
    <3>2. EndsAt(Append(Feed(SERVER), m), x, m.number)
      BY <1>gm, <1>3, <2>1, AppendEndsAt
    <3> QED BY <3>1, <3>2
  <2>2. CASE x # g
    <3>1. EndsAt(Feed(SERVER), x, Expected(x) - 1) /\ Expected(x)' = Expected(x)
      BY <1>gm, <2>2 DEF Logs, ServerReached
    <3>2. EndsAt(Append(Feed(SERVER), m), x, Expected(x) - 1)
      BY <1>gm, <1>3, <2>2, <3>1, AppendEndsAt
    <3> QED BY <3>1, <3>2
  <2> QED BY <2>1, <2>2
<1>12. NothingAhead'
  <2> SUFFICES ASSUME NEW n \in Plain, NEW x \in Guests, Speaks(x)',
                      NEW i \in DOMAIN Feed(n)', Feed(n)'[i].from = x
               PROVE  Feed(n)'[i].number < Expected(x)'
    BY <1>2 DEF NothingAhead
  <2>1. CASE i \in DOMAIN Feed(n) /\ Feed(n)'[i] = Feed(n)[i]
    <3>1. Speaks(x) /\ Feed(n)[i].number < Expected(x)
      BY <1>gm, <2>1 DEF Logs, NothingAhead
    <3>2. Feed(n)[i].number \in Nat
      <4>1. Feed(n) \in Seq(Message)
        BY <1>ty, <1>2, FeedTyped
      <4>2. Feed(n)[i] \in Message
        BY <2>1, <4>1
      <4> QED BY <4>2 DEF Message
    <3>3. CASE x = g
      BY <1>gm, <1>3, <2>1, <3>1, <3>2, <3>3
    <3>4. CASE x # g
      BY <1>gm, <2>1, <3>1, <3>4
    <3> QED BY <3>3, <3>4
  <2>2. CASE ~(i \in DOMAIN Feed(n) /\ Feed(n)'[i] = Feed(n)[i])
    <3>1. n = SERVER
      BY <1>1, <1>2, <2>2
    <3>2. Feed(n)'[i] = m
      BY <1>4, <2>2, <3>1
    <3> QED BY <1>gm, <1>3, <3>2
  <2> QED BY <2>1, <2>2
<1>13. RelayedIsNew'
  BY <1>1, <1>2, <1>5, <1>6, <1>re, <1>un DEF RelayedIsNew, LastOfGuests, Plain
<1> QED BY <1>8, <1>9, <1>10, <1>11, <1>12, <1>13 DEF Logs

-----------------------------------------------------------------------------
(* The invariant, and what follows from it.                                *)

LEMMA InvInit == Init => Inv
<1> SUFFICES ASSUME Init PROVE Inv
  OBVIOUS
<1>1. Paths /\ Typed /\ Guests \subseteq Nodes /\ SERVER \in Nodes
  BY PathsInit, IdsLemma DEF Paths, Base
<1>2. \A n \in Nodes : Feed(n) = <<>>
  <2>1. \A n \in Nodes : printed[n] = <<>> /\ network[n].payloads = <<>>
    BY DEF Init, Closed
  <2>2. \A n \in Guests : down[n] = <<>>
    BY DEF Init
  <2> QED BY <1>1, <2>1, <2>2, HeardTyped, EmptyConcat DEF Feed
<1>3. DOMAIN <<>> = {} /\ Plain \subseteq Nodes
  BY ClosedLemma DEF Plain
<1>4. \A x, c : EndsAt(<<>>, x, c)
  BY <1>3 DEF EndsAt
<1>5. OwnReached /\ RelayReached /\ ServerReached
  BY <1>1, <1>2, <1>4 DEF OwnReached, RelayReached, ServerReached
<1>6. NothingAhead /\ RelayedIsNew
  BY <1>1, <1>2, <1>3 DEF NothingAhead, RelayedIsNew
<1>7. FeedsInSequence /\ FeedsNotResent /\ FeedsInOneOrder
  BY <1>2, <1>3 DEF FeedsInSequence, FeedsNotResent, FeedsInOneOrder, InSequence, NeverFrom
<1> QED BY <1>1, <1>5, <1>6, <1>7 DEF Inv, Logs

LEMMA InvStep == ASSUME Inv, [Next]_vars PROVE Inv'
<1>1. Paths /\ Logs /\ Base /\ Paths'
  BY PathsStep DEF Inv, Paths
<1>2. CASE RelayNext
  BY <1>1, <1>2, LogsRelayNext DEF Inv
<1>3. CASE BroadcastNext
  BY <1>1, <1>3, LogsBroadcastNext DEF Inv
<1>4. CASE \E s \in Slots : ReceiveFromGuest(s)
  BY <1>1, <1>4, LogsReceiveFromGuest DEF Inv
<1>5. CASE ~RelayNext /\ ~BroadcastNext /\ \A s \in Slots : ~ReceiveFromGuest(s)
  <2>1. Still
    BY <1>1, <1>5, StillStep DEF Paths
  <2>2. SpeechKept
    BY <1>1, <1>5, SpeechStep DEF Paths
  <2>3. Typed /\ Typed' /\ SendingHolds
    BY <1>1, TypedStep DEF Base
  <2> QED BY <1>1, <2>1, <2>2, <2>3, LogsKept DEF Inv
<1> QED BY <1>2, <1>3, <1>4, <1>5

\* In every state that can be reached the inductive invariant holds.
THEOREM Invariant == Spec => []Inv
  BY InvInit, InvStep, PTL DEF Spec

LEMMA HeardOfFeed ==
    ASSUME Typed, NEW n \in Nodes
    PROVE  /\ DOMAIN Heard(n) \subseteq DOMAIN Feed(n)
           /\ \A i \in DOMAIN Heard(n) : Heard(n)[i] = Feed(n)[i]
           /\ \A x : InSequence(Feed(n), x) => InSequence(Heard(n), x)
           /\ \A x : NeverFrom(Feed(n), x) => NeverFrom(Heard(n), x)
  BY FeedTyped, StartsLemma

LEMMA InvImpliesLogs == Inv => HeardInSequence /\ NotResentToSelf /\ SameOrder
<1> SUFFICES ASSUME Inv PROVE HeardInSequence /\ NotResentToSelf /\ SameOrder
  OBVIOUS
<1>1. Typed /\ Plain \subseteq Nodes /\ FeedsInSequence /\ FeedsNotResent /\ FeedsInOneOrder
  BY DEF Inv, Paths, Base, Logs, Plain
<1>2. HeardInSequence
  BY <1>1, HeardOfFeed DEF HeardInSequence, FeedsInSequence
<1>3. NotResentToSelf
  BY <1>1, HeardOfFeed DEF NotResentToSelf, FeedsNotResent
<1>4. SameOrder
  <2> SUFFICES ASSUME NEW n \in Plain, NEW k \in Plain, NEW a, NEW b,
                      a.from # SERVER, b.from # SERVER, Precedes(n, a, b), Precedes(k, b, a)
               PROVE  FALSE
    BY DEF SameOrder
  <2>1. PICK i \in DOMAIN Heard(n), j \in DOMAIN Heard(n) :
           i < j /\ Heard(n)[i] = a /\ Heard(n)[j] = b
    BY DEF Precedes
  <2>2. PICK p \in DOMAIN Heard(k), q \in DOMAIN Heard(k) :
           p < q /\ Heard(k)[p] = b /\ Heard(k)[q] = a
    BY DEF Precedes
  <2>3. /\ i \in DOMAIN Feed(n) /\ Feed(n)[i] = a /\ j \in DOMAIN Feed(n) /\ Feed(n)[j] = b
        /\ p \in DOMAIN Feed(k) /\ Feed(k)[p] = b /\ q \in DOMAIN Feed(k) /\ Feed(k)[q] = a
    BY <1>1, <2>1, <2>2, HeardOfFeed
  <2> QED BY <1>1, <2>1, <2>2, <2>3 DEF FeedsInOneOrder
<1> QED BY <1>2, <1>3, <1>4

\* From the first message on that a user hears of another one, none is missing,
\* repeated or out of turn, although node_runner relays and main broadcasts in
\* loops of their own while guests come, go and are refused.
THEOREM UsersHearInSequence == Spec => []HeardInSequence
  BY Invariant, InvImpliesLogs, PTL

\* Network::Poll relays a message to nobody who has sent it.
THEOREM NobodyHearsHimself == Spec => []NotResentToSelf
  BY Invariant, InvImpliesLogs, PTL

\* All users hear what guests say in the order in which the server took it.
THEOREM UsersHearInOneOrder == Spec => []SameOrder
  BY Invariant, InvImpliesLogs, PTL

=============================================================================
