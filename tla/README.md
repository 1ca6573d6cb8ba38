# StarNetwork in TLA+

StarNetwork is a small C++17 library and application: `lib/rudp` is a reliable
protocol over UDP in the manner of ENet, `app` connects a server and its guests
into a star on top of it, `lib/core` holds utilities. This directory models
`lib/rudp` and `app` in TLA+, checks the models with TLC and proves properties of
the receiving and the sending path, the two of them together, the life cycle of
connections, the bandwidth throttle, the packing of datagrams and the relay of the
application with TLAPS.

Paths below are relative to `src/`; `rudp/` stands for `lib/rudp/`.

    tlasany M.tla                                    parse a module
    tlc -workers 2 -config MCx_y.cfg MCx             check a run
    tlapm PeerReceiverProofs.tla                     check the proofs: also of
                                                     PeerSenderProofs,
                                                     ReliableLinkProofs,
                                                     PeerLifecycleProofs,
                                                     BandwidthThrottleProofs,
                                                     DatagramProofs,
                                                     StarRelayProofs, Induction

## 1. The system

### Components

| component | state | operations | who uses it |
|---|---|---|---|
| `Channel` (rudp/channel) | list of reliable commands ahead of their turn, number handed over last, number sent last, commands per window, bits of the used windows | `QueueIncomingCommand`, `NewIncomingReliableCommands`, `ExtractFirstCommand`, window counters | `Peer`, `CommandPod` |
| `CommandPod` (rudp/command/command_pod) | outgoing and sent reliable commands, data in transit, timeouts | `SetupOutgoingCommand`, `LoadReliableCommandsIntoChamber`, `Timeout`, `RemoveSentReliableCommand`, `Reset` | `Peer`, `PeerPod`, `RUdpProtocol` |
| `Peer` (rudp/peer/peer) | a slot: address, session ids, connection id, channels, acknowledgements to send, deque of commands for the application, waiting data, `needs_dispatch_` | `Send`, `Receive`, `Ping`, `QueueIncomingCommand`, `QueueAcknowledgement`, `Setup`, `SetupConnectedPeer`, `EventOccur`, `Reset` | `PeerPod`, `RUdpProtocol` |
| `PeerNet` (rudp/peer/peer_net) | `RUdpPeerState`, bandwidths, throttle, MTU, window size | setters, `StateIs…` | all of the above |
| `PeerPod` (rudp/peer/peer_pod) | the slots of a host | `SendOutgoingCommands`, `ReceiveIncomingCommands`, `Disconnect`, `DisconnectLater`, `DisconnectNow`, `AvailablePeer` | `Host` |
| `RUdpProtocol` (rudp/protocol) | the chamber; throttling totals | handlers of the commands, `DispatchIncomingCommands`, `SendAcknowledgements`, `BandwidthThrottle` | `PeerPod` |
| `DispatchHub`, `DispatchQueue` | queue of peers that have something to tell, `connected_peers_` | `ChangeState`, `DispatchState`, `NotifyConnect`, `NotifyDisconnect`, `MergePeer`, `PurgePeer` | `RUdpProtocol`, `PeerPod` |
| `Host` (rudp/host) | a socket, a `PeerPod` | `Service`, `Connect`, `Send`, `Broadcast`, disconnects | the application |
| `Chamber`, `Buffer`, `Segment` | the datagram being built; payloads | packing, copying | the sending and receiving paths |
| `app::Network`, `main` | `peers_`, `payloads_`, three threads | `Poll`, `Send`, `Receive`, `CreateServer`, `CreateClient`, `CloseConnection` | — |
| `lib/core` | logger, socket, threads, signals | — | everything |

`Host::Service` does everything: it hands one event of the dispatch queue to
the application or, if there is none, throttles, sends, receives and sends
again, until there is an event or its time is over. Nothing happens between
two calls of it.

### What is hard

* **Ordering on the receiving side.** Numbers are 16 bits wide and reused; old
  ones are told from new ones by windows of 4096 numbers. Commands that arrive
  early wait in a list which is searched from the back; a message of several
  fragments takes several numbers; one arrival can release a run of messages.
* **Retransmission.** An expired command stands in the sent and the outgoing
  list at once. Its acknowledgement may come after it expired and before it was
  sent again. Windows, data in transit, and the graceful disconnect depend on
  the lists.
* **Connecting and disconnecting.** Four commands and nine states over a network
  that loses, repeats and reorders. Slots are reused for the next guest. One
  datagram can carry several commands, and there is one `Event` to tell the
  application what happened.
* **Two views of one thing.** `needs_dispatch_` and the dispatch queue;
  `connected_peers_` and the states of the slots; used-window bits and counters.
* **Both ends together.** What the sender forgets must be what the receiver has
  kept, although each computes its windows for itself and acknowledgements are
  lost, withheld and overtaken.
* **Threads of the application.** `Poll`, `Send` and `Receive` run in three
  threads without a lock, while guests come and go.
* **Unsigned arithmetic.** The shares of the bandwidth and the round trip
  estimates are differences and quotients of `uint32_t`.
* **One chamber for all peers.** Its slots are taken before it is known whether
  they are needed, and only its counters are set back.

`PROJECT.json` lists each hazard at its line with the properties aimed at it.

### What makes the components correct

* Receiving: each message is handed over once, in sequence, complete; what is
  acknowledged is kept; what is ready does not wait for another datagram;
  waiting data is bounded.
* Sending: no command is forgotten or overtaken; unacknowledged numbers stay
  within reach of the receiver's windows; the window size is respected; what is
  sent arrives in the end; a graceful disconnect ends.
* Life cycle: both ends hold each other's slot; events come in turn and none is
  missing; nobody is disconnected for somebody else; slots come free again;
  `connected_peers_` is right.
* End to end: a message enters the other end's channel once, leaves it in its
  turn, and is with one of the two ends at any time.
* Packing: what is taken off a queue is in the datagram, whole.
* Bandwidth: the counters that are divided by are right, nothing wraps, limits
  and shares add up to no more than the host has.
* Relay: users hear every other member once and in order, and no echo; the slots
  and `peers_` name the same members.

## 2. The modules

| module | stands for |
|---|---|
| `Channel` | the receiving half of a channel, as relations on a record (no state of its own) |
| `PeerReceiver` | from the datagram to the application: one connected peer |
| `PeerReceiverProofs` | theorems about `PeerReceiver` |
| `CommandPod` | the sending half: pod and window counters, as operators on a record |
| `PeerSender` | one connected peer that sends; the network as copies under way |
| `PeerSenderProofs` | theorems about `PeerSender` |
| `ReliableDelivery` | what `SegmentFlag::RELIABLE` promises (rudp/enum.h:69-70), without saying how |
| `ReliableLink` | one direction of a connection: `PeerSender`, the network, `PeerReceiver`, and the acknowledgements on their way back |
| `ReliableLinkProofs` | theorems about `ReliableLink`: it implements `ReliableDelivery` |
| `PeerLifecycle` | several hosts: connecting, disconnecting, events |
| `PeerLifecycleProofs` | theorems about `PeerLifecycle` |
| `PeerNet` | what CONNECT and VERIFY_CONNECT negotiate, round trip estimates, as operators on records |
| `BandwidthThrottle` | a host, its guests' nets and the throttle of every second |
| `BandwidthThrottleProofs` | theorems about `BandwidthThrottle` |
| `Datagram` | the chamber, filled for several peers, written and read |
| `DatagramProofs` | theorems about `Datagram` |
| `StarRelay` | `app::Network` of a server and its guests, each with its three threads |
| `StarRelayProofs` | theorems about `StarRelay` |
| `Induction` | induction over the natural numbers and over finite sets, proved without the library's theorems; functions that are defined by recursion exist; sums over finite sets; quotients |
| `MC…` | constants of the runs |

    Channel <- PeerReceiver <------ ReliableLink ==> ReliableDelivery
    Channel <- CommandPod <- PeerSender <--'
    PeerNet <- BandwidthThrottle        PeerLifecycle   Datagram   StarRelay

`<-` is EXTENDS or INSTANCE, `==>` implements. `ReliableLink` takes the two
peers as they are, by `INSTANCE … WITH`: every step of the composition is a step
of one of them or of the network. The four modules without arrows see the rest
of the system through one assumption each: `PeerLifecycle` does without data,
`BandwidthThrottle` takes a handshake as one step, `Datagram` lets any number of
commands pass the windows, and `StarRelay` takes a connection for an ordered
channel that loses nothing while both ends are connected.

### PeerReceiver

An action is one whole pass of `ReceiveIncomingCommands` over one command: the
handler, `DispatchIncomingReliableCommands`, and `QueueAcknowledgement`.

| action | code |
|---|---|
| `ReceiveReliable` = `DiscardReliable` / `QueueReliable` / `CrashOnReliable` | `HandleSendReliable`, `Peer::QueueIncomingCommand`, `Channel::QueueIncomingCommand` |
| `ReceiveFragment` = `LeaveFragment` / `DiscardFragment` / `OpenMessage` / `AddFragment` / `CrashOnFragment` | the test of peer_pod.cc:372-378, `HandleSendFragment`, `ExtractFirstCommand` |
| `DispatchIncomingCommands` | `RUdpProtocol::DispatchIncomingCommands`, `Peer::Receive` |
| `SendAcknowledgements` | `RUdpProtocol::SendAcknowledgements` |
| `DisconnectLater` | the state it leaves when commands are still unsent |

The network is a set `Commands` of which any member may arrive at any time, any
number of times: loss, repetition and reordering at once. Payload bytes are
abstracted to the message and the fragment they belong to. How much of a datagram
lies behind a fragment is abstracted too, so that `LeaveFragment`, which goes by
it, is a choice for every message that does not start at 1. Where the code
dereferences the end of a list, a null pointer or an empty bitmap, the model's
process dies (`alive`); the undefined behaviour is not followed any further.
`handed`, `delivered` and `confirmed` are history variables.

### PeerSender

| action | code |
|---|---|
| `Send` | `Peer::Send` with its fragments |
| `Poll` (`SendOutgoingCommands`) | `PeerPod::SendOutgoingCommands` for this peer: timeouts, load, ping |
| `GiveUp` | the branch of `Timeout` that finds a limit exceeded |
| `HandleAcknowledge` | `RUdpProtocol::HandleAcknowledge`, `RemoveSentReliableCommand`, the step of a graceful disconnect |
| `Lose` | the network |
| `DisconnectLater` | `PeerPod::DisconnectLater`, `Disconnect` |

The lists keep the code's sharing: an expired command is the same object in
both, so that `attempted` is a set of commands. Clock values are abstracted:
which copies expire is a choice. `MayExpire` keeps what the code implies, that
of two copies of one command the later does not expire alone. With
`TimeoutsMayBeEarly = FALSE` a copy expires only when nothing of it is under
way, as when the timeout is longer than any round trip. `next_timeout_`, which
the code also consults, is covered by the choice. The window size and the room
in the datagram are any of a set, so that every result of the estimators is
allowed for.

### PeerLifecycle

| action | code |
|---|---|
| `Connect` | `Host::Connect`, `AvailablePeer`, `Peer::Setup` |
| `SendOutgoingCommands` | `PeerPod::SendOutgoingCommands` of one peer: acknowledgements, timeouts, commands, ping |
| `Receive`, `ReceiveAndKeep` | `PeerPod::ReceiveIncomingCommands` of one datagram, with all its handlers in order |
| `DispatchIncomingCommands` | `RUdpProtocol::DispatchIncomingCommands` |
| `DisconnectLater`, `DisconnectNow` | `PeerPod` |
| `Lose` | the network |

`Walks` is the loop over a datagram's commands, a recursive function that carries
the host, the slot and the `Event` from one `HandleCommand` to the next; the
`Event` is written by several handlers and counts as the last of them left it. Session ids are left out because every connection
gets the same pair (rudp/peer/peer.cc:513, 520). The network is a bag.

### ReliableLink

| action | code |
|---|---|
| `SenderStep` | `Peer::Send`, `PeerPod::SendOutgoingCommands` (`PeerSender`) |
| `Arrive` | `ReceiveIncomingCommands` of one command (`PeerReceiver`) |
| `SendAcknowledgements`, `DispatchIncomingCommands` | of the receiver |
| `HandleAcknowledge` | of the sender, for an acknowledgement that is under way |
| `Lose` | the network takes a command or an acknowledgement |

`PeerSender` alone allows an answer to every copy under way. Here `under_way`
is divided into copies that have not arrived, acknowledgements the receiver has
queued, and `answers`: a copy that is discarded in silence, or whose
acknowledgement the full chamber forgets, is answered by nobody. The refinement
mapping takes `handed` and what waits in a channel together for `kept`, and
counts what left the channel for `handed`.

### BandwidthThrottle and PeerNet

| action | code |
|---|---|
| `Connects` | `Peer::Setup`, `Peer::SetupConnectedPeer`, `HandleVerifyConnect`, `DispatchHub::NotifyConnect` |
| `DisconnectedByHost`, `DisconnectedByGuest`, `Ends` | `PeerPod::Disconnect`, `HandleDisconnect`, the reset of the peer |
| `DisconnectLater` | `PeerPod::DisconnectLater` |
| `Queue` | what `SetupOutgoingCommand` and `QueueAcknowledgement` add to the totals |
| `Acknowledged` | the part of `HandleAcknowledge` that measures |
| `Throttle` | `RUdpProtocol::BandwidthThrottle`, protocol.cc:24-196, in one step |

The two `while` loops over the peers are recursive functions, `LimitRounds` and
`ShareRounds`, of a round's number; a round is `LimitPeers` or `SharePeers`, whose
walk over `Slots` is a recursive function too. Every number wraps at `DATA_MODULUS`. `HandleAcknowledge` sets the throttle to a round
trip time (protocol.cc:347) and the totals are never set back (lines 97-98 and
131-132 add 0), as in the code.

### Datagram

| action | code |
|---|---|
| `Queue` | a command or an acknowledgement is queued |
| `SendOutgoingCommands` | one turn of `PeerPod::SendOutgoingCommands` for a peer: `SendAcknowledgements`, `LoadReliableCommandsIntoChamber`, a PING and once more, `Chamber::Write` |

The chamber while it is filled is a record with the code's counters and the two
iterators at hand. `buffers` and `commands` outlive it, as the objects do. The loops
over acknowledgements and commands are recursive functions, `AcknowledgementWalk` and
`ReliableWalk`.

### StarRelay

| thread | actions | code |
|---|---|---|
| main | `CreateClient`, `Send` with `BroadcastNext` or `SendToServer`, `Exit` | app/main.cc:103-129, `Network::Send`, `Host::Broadcast`, `CloseConnection` |
| node_runner of a guest | `GuestConnects`, `ReceiveFromServer`, `ServerLeaves` | an event of `Network::Poll` |
| node_runner of the server | `OpenSlot`, `AcceptGuest`, `RefuseGuest`, `GuestLeaves`, `ReceiveFromGuest` with `RelayNext` | the same |
| message_dispatcher | `Peek`, `Receive` | app/main.cc:93-99 |
| any two | `Overlap` | undefined behaviour: the process may die |

A loop that sends to several peers takes a step for each, so that the other
threads act between them. `told` is what ADD_PEER has told a guest; guests
ignore ADD_PEER, and REMOVE_PEER carries the receiver's own id, so that neither
changes their state.

## 3. The runs

Passing runs:

| run | instance | properties |
|---|---|---|
| `receiver_order` | one channel, five messages, any six arrivals | `ConfirmedIsKept`, `WaitingDataIsCounted` |
| `receiver_fragments` | two channels, four messages on one (of 1, 2, 3, 1 numbers) and one on the other, any five arrivals, the application may disconnect | `TypeOK`, `PendingInOrder`, `HandedOverInSequence`, `NoStalledHead`, `NothingStranded` |
| `sender_order` | three messages of one or two fragments, early timeouts, one loss, a command may be given up | `TypeOK`, `NothingForgotten`, `FirstSentInOrder` |
| `sender_flow` | nine messages, so that the numbers wrap, no loss, no early timeout, with fairness | `NumbersStayApart`, `UsedWindowsAreMarked`, `WithinWindowSize`, `EventuallyAcknowledged`, `GracefulDisconnectEnds` |
| `lifecycle_resend` | a server of two slots, a guest, early timeouts, one datagram repeated | `TypeOK`, `ConnectedPeersCounted`, `EndsAgree`, `GuestConnectsFirst` |
| `lifecycle_events` | a server of one slot, two guests, everybody may disconnect at once, one loss, one ping | `ConnectedIsAnnounced`, `ClosedOnRequest` |
| `lifecycle_close` | a server of two slots, one guest that disconnects later and one that disconnects now, with fairness | `EventsInTurn`, `DisconnectEnds` |
| `reliable_link` | one channel, three messages, any order, one loss of a command or an acknowledgement, with fairness | `ImplementsDelivery`, `NothingLost`, `EventuallyReceived` |
| `bandwidth_throttle` | two guests, each limited or not in both directions, that may connect, send, be measured and leave at any time, over a host that is limited both ways | `PeersCounted`, `NothingUnderflows`, `ThrottledToFit`, `SharesFit` |
| `wire_datagram` | two peers, a chamber of two slots and an MTU of 5, acknowledgements, pings and commands with payload, up to three for each peer, any number of them let through | `LoadedIsWritten`, `SlotsSuffice` |
| `relay_order` | a server of three slots, three guests with ids of their own, two messages, one process may end | `HeardInSequence`, `NotResentToSelf`, `SameOrder`, `PeekedIsThere` |
| `relay_members` | a server of two slots, three guests, of which one may be given the id of another, two messages, one process may end, with fairness | `TypeOK`, `ConnectedAreRelayedTo`, `NewcomerIsTold`, `EventuallyHeard` |

What they show:

* The back-to-front insertion, the hand-over and the fragment search keep a
  channel sorted, deliver each message once and in sequence, and leave nothing
  ready behind, whatever the network does to the order.
* Whole messages are acknowledged only when they are kept, also those discarded
  as duplicates or as outside the window. Fragments are not, see section 6.
* Holding back, retransmission and a full chamber may postpone a command, but
  none is lost from the lists and none is first sent before an earlier one.
* As long as nothing is lost or late, the window rule keeps unacknowledged
  numbers as close as the receiver needs, and every command and a graceful
  disconnect come to their end. One loss is enough to break this, section 6.
* A repeated CONNECT occupies a second slot at the server. The guest still
  agrees with one slot only, and the other never counts as connected.
* Without repetition, whoever is connected was announced, and nobody is told of
  a disconnect before an application asks for that very connection to be closed.
* Both ways of disconnecting free both slots when no datagram is lost.

* Sender and receiver together implement `ReliableDelivery` in spite of a loss,
  as far as the numbers stay in the windows both agree about (section 6), and
  without a loss every message reaches the application.
* Whoever connects, leaves or is limited in whatever order, the throttle divides
  by the right counts, and what it hands out adds up.
* Slots that are taken and then not used cost room in a datagram and send what
  is left in them, but lose nothing and are never written past the end.
* Two threads that send to the guests, in the order of the slots and of the ids,
  keep every sender's messages in order at every guest, and slots and `peers_`
  agree, also after a guest was refused. A slot that had another guest before
  is the exception, section 6.

### Bounds

* Windows, in place of 16 of 4096 numbers with 8 free: 4 of 4 with 3 free for the
  receiver, so that repeated numbers fall outside from behind; 4 of 2
  (`sender_order`) and 3 of 3 (`sender_flow`) with 2 free for the sender, so that
  it enters every window, in `sender_flow` the first one again, and has to wait
  for a free one while the window before is nearly empty.
* `PROTOCOL_MAXIMUM_SEGMENT_COMMANDS` is 2 in place of 32, so that a third
  acknowledgement finds the chamber full.
* `HOST_DEFAULT_MAXIMUM_WAITING_DATA` is never reached in the passing runs: what
  happens beyond it is a discard that is acknowledged, section 6.
* `DATA_MODULUS` is 16 in place of 2^32; only the wrap below zero matters.
* `MAX_ARRIVALS`: five arrivals are as many as it takes to fill a gap in front of
  two waiting messages and to repeat one; six for whole messages.
* `MAX_MESSAGES`, `MAX_PINGS`, `MAX_COPIES`, `MAX_LOSSES`, `MAX_DUPLICATES`,
  `MAX_CONNECTS` bound the respective actions; three or four copies are what a
  command that expires twice needs.
* `reliable_link`: 8 windows of 2 numbers with 4 free, so that the numbers of the
  run are within reach of each other; four copies in all, so that each message
  can be sent again. Wider instances part the two ends, section 6.
* `bandwidth_throttle`: two guests are the fewest for which limiting one changes
  what is left for the other, and for which a second round of the loops is
  needed; bandwidths, data and scales are the smallest for which a guest is
  limited, is not, and has its limit raised to 1. `DATA_MODULUS` is large enough
  that products do not wrap: what must not wrap is a difference. `MAX_TOTAL`
  keeps the totals, which only grow, within one packet of 5 and what the
  throttle itself sends.
* `wire_datagram`: 2 commands and 5 buffers in place of 32 and 65, which two
  acknowledgements or one command behind one that is held back fill; an MTU
  that is reached before the slots are, or after, by what is queued.
* `relay_order`, `relay_members`: two messages in all (`MAX_TOTAL`), of one guest
  or of two, or one of the server's, are the fewest that can be out of order; the
  server and one guest may end (`MAY_END`), one of them (`MAX_EXITS`), which
  covers a reused slot and a closed connection; a dispatcher runs at one guest
  (`READERS`), since what another user has not read yet counts as heard.
* One connection per guest: see `ClosedOnRequest` in section 6.
* Symmetry is not used: channels, hosts and guests differ in what they send.

Deadlock is checked in `bandwidth_throttle`, which never comes to rest. The
other instances do, when their bounds are used up or their connections have
ended.

### Fairness

`PeerSender`, `PeerLifecycle` and `ReliableLink` assume weak fairness of what
`Host::Service` does, which both the application and the tests call in a loop, and of the
arrival of what is not lost:

* `TimelyPoll`: sends with room in the datagram and finds expired what has
  expired. In the code each `SendOutgoingCommands` starts from an empty chamber
  and repeats until everything that may be sent is sent; clocks advance.
* An acknowledgement, or a datagram, that is under way arrives: what `Lose` does
  not take is delivered.
* `DispatchIncomingCommands` runs at the beginning and the end of each `Service`.

* `SendAcknowledgements` (`ReliableLink`): the receiver's `SendOutgoingCommands`
  starts with it.
* `ServerWorks` and `ReceiveFromServer` (`StarRelay`): `AsyncWorker` calls
  `Network::Poll` as long as the process lives, and `Poll` handles every event of
  `Host::Service`.

No fairness is assumed of the application's own calls (`Send`, `Connect`,
disconnects), of the users, nor of `Lose`. `bandwidth_throttle`, `wire_datagram`
and `relay_order` check safety only, and assume none.

### Refinement

`ReliableDelivery` knows no lists, windows, timeouts or datagrams: per channel it
has what was sent, kept, handed over, received and acknowledged, and four
actions. `ReliableLink!ImplementsDelivery` is `Delivery!Spec` under

| abstract | in `ReliableLink` |
|---|---|
| `sent` | `messages`, which `Peer::Send` has numbered |
| `kept` | what the receiver's channel has handed over, or holds ahead of its turn |
| `handed` | how many commands the channel has handed over |
| `received` | what `Peer::Receive` gave the application |
| `acknowledged` | what `RemoveSentReliableCommand` has removed |

The four functions of the last rows are `Kept`, `HandedOver`, `Received` and
`Confirmed` of `ReliableLink`. Timeouts, resending, discards, lost datagrams and a
receiver that dies are stuttering steps. An acknowledgement is a `Confirm` step, which is allowed only
for what is kept: this is where the two ends' windows have to agree.

## 4. The proofs

`PeerReceiverProofs` proves for every set of channels, every window geometry,
every limit on waiting data and any number of arrivals:

| theorem | says |
|---|---|
| `TypesHold` | `TypeOK` |
| `PendingStaysInOrder` | `PendingInOrder` |
| `HandedOverStaysInSequence` | `HandedOverInSequence` |
| `NothingStalls` | `NoStalledHead` |
| `NothingIsStranded` | `NothingStranded` |
| `NothingIsReceivedTwice` | the application is given no whole message twice |
| `AcknowledgedIsKept` | `ConfirmedIsKept`, of whole messages, under the premises below |
| `WaitingDataStaysCounted` | `WaitingDataIsCounted`, of messages of one command each |

`PeerSenderProofs` proves for every set of channels, every window geometry, limit
and message, and whatever is lost, late or given up:

| theorem | says |
|---|---|
| `SenderTypes` | `TypeOK` |
| `SentInOrder` | `FirstSentInOrder` |
| `NothingIsForgotten` | `NothingForgotten`, as long as `TellApart` |
| `NothingIsForgottenAtFirst` | `NothingForgotten` while no channel has used up its numbers |
| `SenderInvariant` | the inductive invariant `Inv` they follow from |
| `NothingIsForgottenEver` | `NothingForgotten`, as long as `SentOnce` |
| `WindowsStayMarked` | `UsedWindowsAreMarked`, as long as `SentOnce` |
| `NumbersAreApart` | `NumbersStayApart`, as long as `SentOnce` |
| `StaysWithinWindowSize` | `WithinWindowSize`, as long as `SentOnce`, if window sizes are small against `DATA_MODULUS` |
| `StaysTidy` | the invariant `Tidy` the last four follow from |
| `PromptSendsOnce` | `SentOnce`, where nothing is lost and no answer is slower than the timeout |
| `PromptIsSafe` | so the four without a premise about the run |

`ReliableLinkProofs` proves for any channels, windows, room in the datagrams, copies
and losses of commands and of acknowledgements:

| theorem | says |
|---|---|
| `LinkDelivers` | `ImplementsDelivery`: every step of the link is one of `ReliableDelivery` or a stutter |
| `NothingIsLost` | `NothingLost` |
| `LinkStaysLinked` | the inductive invariant `Linked` they follow from |

`PeerLifecycleProofs` proves for any hosts, slots, bounds and timeouts, and whatever
is lost, repeated, reordered or late:

| theorem | says |
|---|---|
| `CountersAreRight` | `ConnectedPeersCounted`, where no host uses `DisconnectNow` |
| `NeverUndercounted` | `NotUndercounted` |
| `SlotsAreTyped` | `TypeOK`, where no host uses `DisconnectNow` |
| `LifecycleInvariant` | the inductive invariant `Inv` they follow from |
| `ServerWaitsForGuest` | `GuestConnectsFirst`, while each guest connects once |
| `ConnectedEndsAgree` | `EndsAgree`, while each guest connects once |
| `EndsKeepAccounts` | `BothEnds`, with `Inv` the inductive invariant these two follow from |
| `ClosedOnlyOnRequest` | `ClosedOnRequest`, while each guest connects once and the server's application does not use `DisconnectLater` |

`BandwidthThrottleProofs` proves for any guests, bandwidths, sizes and measurements:

| theorem | says |
|---|---|
| `PeersAreCounted` | `PeersCounted` |
| `SharesAlwaysFit` | `SharesFit` |
| `NothingEverUnderflows` | `NothingUnderflows`, as long as `TotalsFit` |
| `AlwaysThrottledToFit` | `ThrottledToFit`, as long as `ScaledTotalsFit` |

`DatagramProofs` proves for any peers, commands, sizes and MTU, and for twice as many
buffers as commands and one for the header:

| theorem | says |
|---|---|
| `LoadedIsAlwaysWritten` | `LoadedIsWritten` |
| `SlotsAlwaysSuffice` | `SlotsSuffice` |
| `DatagramInvariant` | the inductive invariant `Inv` they follow from |

`StarRelayProofs` proves for any guests, slots, ids and bounds, and for every order in
which the threads act and processes end or die:

| theorem | says |
|---|---|
| `TypeIsCorrect` | `TypeOK` |
| `MembersAreRelayedTo` | `ConnectedAreRelayedTo` |
| `PeekedStaysThere` | `PeekedIsThere` |
| `NewcomersAreTold` | `NewcomerIsTold` |
| `UsersHearInSequence` | `HeardInSequence` |
| `NobodyHearsHimself` | `NotResentToSelf` |
| `UsersHearInOneOrder` | `SameOrder` |
| `Invariant` | the inductive invariant `Inv` the last three follow from |

### The receiver

**Assumptions.** `ChannelsAssumption`: a peer has finitely many channels. `OneLap` is the conjunction of `FirstLap` (the sender gives
each message numbers of its own, from 1, below the wrap) and `NoAliasing` (no
number of the lap is so far behind another that its window passes for one
ahead: with the code's constants, numbers span no more than ten of the sixteen
windows). The passing runs satisfy both, which `MCPeerReceiver` asserts. Without `FirstLap`
the properties are not true: `NoStalledHead` fails at the wrap (section 6).

**Argument.** `Inv` joins `TypeOK` and `NothingStranded` with, for each channel,
`WellFormed`, `~Stalled` and `Contiguous`. `PendingInOrder` alone is not
inductive. The walk from the back stops at the right place only if what is
compared are numbers of whole, disjoint messages: `Wire` says so of every waiting
command and `Reach` of the channel's number. `BehindIsOutside` then shows that a
number at or behind the channel's is either refused by the window check or equal
to the last one, so that what passes is strictly ahead; `InsertKeepsOrder` that
the insertion keeps the list sorted and without overlap, `HandOverKeepsOrder`,
`HandOverContinues` and `HandOverLeavesNoStall` that the loop of
`NewIncomingReliableCommands` keeps the rest sorted, continues the sequence, and
stops only where the next command is not ready. `FragmentKeepsOrder` and
`OpenLeavesNoStall` treat the two cases of a fragment that is looked at. There is one lemma per
action (`ReliableStep`, `FragmentStep`, `DispatchStep`, `SendStep`, `CloseStep`);
`NextKeeps` joins them. A datagram that kills the process leaves everything
else as it is (`DiesStep`), so that the theorems speak of the time before.

**Received once.** `NothingIsReceivedTwice` has one premise, `WholeMessages`: commands
that are whole messages, and no number that two messages share. Its invariant ties
the deque to the channels. Each command held or handed over is one that was sent
under its number (`Labels`); the log has one entry for each number up to the channel's
(`LogIsNumbered`, by induction over `Contiguous`), and what waits is ahead of it
(`LogIsBehind`); and `Once` says that nothing stands twice in the deque and in what was
delivered together, and that both were handed over. A batch goes to the front of the
deque without a look at what is there (peer.h:132), so that the invariant rests on the
channel: what joins it bears a number that it does not hold (`JoinEffect`).

**What is acknowledged.** `AcknowledgedIsKept` has the premise `WholeMessages` too,
since a fragment's number is rewritten before it is acknowledged (protocol.cc:448), and
a premise about what arrives, `ConsideredOnArrival`. It excludes two cases that the
code does acknowledge: what a closing peer or one with too much waiting data discards
(peer.cc:260), and a number ahead of the windows that the channel refuses while
`QueueAcknowledgement` does not keep silent about it (peer.cc:219). Section 6 has the
counterexamples; every step of `receiver_order` satisfies it. Behind the windows anything
may arrive, any number of times, and a refused number about which the peer keeps silent is
no exception. A command that the channel does not want has to be one that it holds
(`UnwantedIsHeld`): for a waiting one this is the walk, for one at or behind the channel's
number it is `LogIsNumbered`. A discard still calls the hand-over, and `NothingToHandOver`
shows that it then finds nothing, because no channel is stalled between datagrams.

**What waits.** `WaitingDataStaysCounted` has the premise `OnlyReliable`: messages of one
command. `HandleSendFragment` counts nothing, so that with fragments the count does fall
short (section 6). The count is compared with sums over all channels and over the
deque. An arrival that its channel takes adds to one of them what `total_waiting_data_`
grows by (`LengthOfInsert`); `HandOverMovesData` says that the hand-over moves data from
the one to the other and drops none; `BacklogPut` that the other channels' part of
the sum stays; and `DispatchIncomingCommands` takes off the count the head of the
deque. It is an inequality because a message that the channel refuses is counted as well.

### The sender

**Assumptions.** `WindowAssumption`, `PodAssumption`, `SenderAssumption`: the
constants are numbers, and 0xFF is not a channel. Copies may be lost or slower than
any timeout. `NothingIsForgotten` has the premise `[]TellApart`: the acknowledgement of
a copy still under way does not bear the number of a later command in the sent list.
`RemoveSentReliableCommand` goes by the `uint16_t` alone, so that an answer that is late by
a whole lap takes the wrong command off the list, and nothing in the code rules
that out. `sender_order` and `sender_flow`, the second of which passes the wrap, satisfy
the premise in every state. `NothingIsForgottenAtFirst` needs no premise: as long as a
channel's last number is below 65536, `FirstLapTellsApart` derives it from the invariant.

**Argument.** `FirstSentInOrder` is inductive only together with what makes a command's
number comparable: everything sent is in `attempted` (`SentIsAttempted`), so that
what a timeout puts in front does not count as waiting, and no command has a
number beyond the last one given out (`WithinNumbers`), so that what `Send` appends comes
last. `Reset` sets the numbers back and keeps the lists, which is why
`WithinNumbers` is not claimed of a disconnected peer. `UnderWayIsAttempted` bounds the
numbers of late copies.

Loading walks over the whole queue in one step. `WalkInv` is the invariant of that
loop, by induction over the walk (`WalkStart`, `WalkStep`, `WalksKeep`): what is left
and what was sent are together what was there, what is left kept its order, and of
two commands of a channel the one that was sent stood before the one that was
left. The last rests on `Held`: once a command is held back, a flag of the walk holds
back every later one of its channel. The mutant `LoadOneThatFits`, which lets smaller commands
pass, breaks exactly that. `Expirations` is treated the same way: each expired copy
is `Requeued`. The walks and expirations are recursive functions, not `RECURSIVE` operators, and
`WalksExist` and `ExpirationsExist` show that there are such functions before anything is said of their values.

`RemovedEffect` says that an acknowledgement takes no more than the command it names off
the lists, and `NothingForgottenNext` that no other step takes any: `Keeps` is what
timeouts, loading, pings and a limit that is exceeded have in common.

**Sent once.** `NumbersStayApart`, `UsedWindowsAreMarked` and `WithinWindowSize` do not
hold once a command is sent twice (section 6): the second copy is counted in its
window and in the data in transit again, and each answer takes it off again. Their
theorems have the premise `[]SentOnce`, that no command of a channel stands in the lists
twice. Losses and late answers are allowed as far as they do not bring a timeout
about. `PromptSendsOnce` shows that the premise is not empty and where it comes from:
with `Prompt`, nothing is lost and a copy expires only if nothing of it is under
way, and then `Answerable`, that of every unacknowledged command a copy is under way,
keeps anything from expiring. `sender_flow` is such an instance.

`Tidy` is what a sender is like that sends everything once. `Counted` says that the
counter of a window is the number of commands of the sent list in it, and that
the window is marked if that is not 0; `Near` that a command in the sent list lies at
most the used part of the windows behind any that was sent after it, which is what the window
check of `LoadReliableCommandsIntoChamber` is for. `Near` needs `Given`, that numbers were
given in sequence without a gap, since the check is made at the first command
of a window only; and `Counted` needs `Near`, without which a number of the next
lap would fall into the window of this one (`SameNumberFar`). Then an answer that
is late by a lap cannot exist (`NearTellsApart`), and `NothingIsForgottenEver` follows from
`NothingIsForgotten`.

`StaysWithinWindowSize` is about sums: `Weighed` says that `reliable_data_in_transit_` is the
sum of the lengths in the sent list, and at most the largest window size, and
`UnderWayIsSent` compares that with what is under way. It has the premise
`Unwrapped`: two window sizes together are less than 2^32. The code's largest is
`PROTOCOL_MAXIMUM_WINDOW_SIZE`, 65536.

### Both ends together

**Assumptions.** `LinkAssumption`, that is, the assumptions of the two components, that
whatever fits a window limit fits the counters, and that no number wraps. Two premises
say where the windows of the two ends agree:

* `FewMessages`: the numbers of a channel and the free windows together stay within the
  windows, that is, with the code's constants, no number lies beyond the tenth of the
  sixteen windows. Beyond it a late copy may pass for one ahead.
* `TakenOrRefusedInSilence`, of every arrival: the receiver does not discard it for the
  data that waits (peer.cc:260), and a number ahead of the channel's that the windows
  refuse is one about which `QueueAcknowledgement` keeps silent. The code computes the
  two windows with different divisors (peer.cc:219), so that this does not follow from
  the window rule of the sender; section 6 names an instance in which it fails, and with
  it `ImplementsDelivery`. Every step of `reliable_link` satisfies both premises.

**Argument.** Nothing is said twice of lists and windows: `S` is `PeerSenderProofs` and
`R` is `PeerReceiverProofs` under the substitutions of `ReliableLink`, and their
invariants and step lemmas are cited (`LinkSend`, `LinkPoll`, `LinkAcknowledge`, `LinkLose`,
`LinkArrive`, `LinkAnswer`, `LinkDispatch`). The `Same…` lemmas say that an action of the
composed module is the action the theorems are about. That the numbers that arrive are
those of one lap, which the receiver's theorems take for a premise, follows here from
what the sender does (`OneLapHolds`), and `TellApart`, the sender's, from
`FirstLapTellsApart`.

`Linked` adds to the two invariants what neither end can know. `HoldsWhatWasSent`: the
receiver holds no number that was not given. `AnsweredIsHeld`: what the sender was told of,
and what is on its way back to it, the receiver holds; without the second part the first
is not inductive. `Accounted`: the acknowledgements that are queued or under way are no
more than the copies under way, so that a copy which arrives is one that was sent, and an
acknowledgement that is forgotten in the full chamber takes its own copy with it
(`PendingSplits`). The counts are cardinalities of sets of places in the
receiver's queue. `LinkNext` has one lemma for each action of the link.

The mapping is read off that invariant. `Readable` says in numbers what its four functions
are, and `HeldInTurn` that `handed` is at its turn: all numbers up to the length of the
log are held and the next one is not, because it would be the first of the list, complete, and so
handed over (`NoStalledHead`). An arrival that is taken is then a `Keep` with the new
length for its witness, which `TurnGrows` shows to be no smaller than the old one; the other
channels keep theirs since it is determined by what is kept. A dispatch is a `Receive` of
a number that was handed over and not received (`Once`), and an acknowledgement a
`Confirm` of what is kept (`AnsweredIsHeld`).

`NothingIsLost` puts the sender's `NothingForgotten` and `AnsweredIsHeld` together: what
stands in no list of the sender was acknowledged, and that by a receiver that holds it.

### The life cycle

**Assumptions.** `LifecycleAssumption`: the constants are of their kind. Two of the
theorems have a premise, that `"now"` is in no host's `Ways`: `DisconnectNow` resets a
connected peer and does not purge it (peer_pod.cc:125-151), after which the counter
is ahead for good (section 6). `NeverUndercounted` is what is left without the
premise. The four theorems about both ends have the premise `OneAttempt`, that
each guest calls `Connect` once, which is what the application does:
`CreateClient` makes a new `Host` and calls `Connect` on it (app/network.cc:92, 111).
Section 6 names an instance with two attempts in which `GuestConnectsFirst` fails. Slots of the
server are used again all the same, and `DisconnectNow` is allowed. `ClosedOnlyOnRequest` has
one more, `ServerClosesAtOnce`: `"later"` is not in the `Ways` of the server. The
application closes with `DisconnectNow` (app/network.cc:46) and never with the other; section
6 names an instance with a server that does, in which the property fails. The guests may do
either. `lifecycle_events` satisfies both premises. No theorem
depends on fairness or on how often a datagram arrives.

**Argument.** `Inv` says of each host that `connected_peers_` is ahead of the slots it is
to count by some number, which is 0 unless the host uses `DisconnectNow` (`Tallied`),
and that hosts, commands and datagrams are typed by the connections asked for so far.
The types are part of the induction for a reason: that a slot is free if and only
if it belongs to no connection rests on every CONNECT under way bearing the number
of one that was asked for.

What changes the state of a slot in the code changes the counter in another
place, a function or a handler away, and sometimes not at all. Each operator is
therefore shown to keep `Tallied` as a whole: `OneSlot` says what one slot's new state
adds to or takes from the set of counted slots, `RecountLemma` that `MergePeer` and
`PurgePeer`, which look at the state before it changes, do the same to the counter
(`ChangeStateLemma`), and `UpdateLemma` that what leaves the state of a slot alone, or takes
an uncounted slot to an uncounted state, needs no recount. The lemmas of the handlers come down to
showing, case by case, that a `Reset` without a purge meets only uncounted slots;
`BehindTheCounter` is the one place where it does not. A datagram is a loop of
handlers over one host: `ReceivedLemma` carries `Tallied` through `Walks`, whose
values exist by `RecursionExists` and are in the set by `BoundedInduction`.

The theorems about both ends need an invariant over two hosts and the network at once, and
one that knows more than the state shows: which guests were told CONNECT, which slot at the
server each of them was told to hold, and which slot of its own it connects from. `Accounts` are such
records, and `BothEnds` says that the state suits one. From the accounts follow the
`Rules` a host keeps to: which `Core` (state, address, connection, slot at the other
end, number of the next command) each slot may have, and which commands and answers it
may hold. The heart of it are four of them. `ServerCommands`: VERIFY_CONNECT and
no other command of the server is number 1. `GuestAnswers`: a guest acknowledges number 1 only
once it was told. `GuestCores`: a guest that was told sends to the slot it holds.
`ServerCores`: a slot of the server is connected only if it is the one the guest holds.
Datagrams `Fits`: they bear what the rules of the sender allow, addressed to where it may
send, so that an acknowledgement of number 1, however late, comes from a guest that was told and
goes to the slot that guest holds.

That `Rules` are kept is shown once for both kinds of host, handler by handler
(`Closed` says from which cores a peer may go where), and again along the walk over a datagram by
`IndexInduction`. Three steps need more. A guest that asks changes its account (`Asking`); so
does a guest that is told (`Told`), in the middle of a datagram. `Grows` says when
what fitted the old accounts fits the new ones. And the server checks that an
acknowledgement comes from the address of the slot before it connects the slot, but once for
the whole datagram, so that `ServingRules` keep that address to the end of the walk. `Witnessed`
ties the accounts to the events: a guest that counts as told has the event.

**Closed on request.** That nobody hears of a close before an application asks is shown
from a third part, `Requested`, with `Inv` and `BothEnds` behind it. `Bonds` are, for each
guest, the connections it asked for and those of them an application asked to close. A
peer is `Meek` towards one guest if its connection is one of that guest's, if it is in a state
that leads to an end only after a request, and if what it holds to send or to acknowledge
speaks of an end only after one. Every slot is meek towards some guest (`Gentle`), and every
datagram towards the one it comes from or goes to (`Mild`). What makes it hard is that a
`Reset` of a slot keeps its lists (command_pod.cc:398), so that commands of a guest that has
left wait for the next one. It takes that the server, as long as it closes at once, holds
nothing to send in the states from which it resets a slot (`Silent`), and never waits in a
state for its own DISCONNECT (`Barred`); this is where the second premise is needed. At a guest
the lists that are left are its own. `Serene` carries all that along the walk over a datagram,
which may end in a slot that was free before. A wrong VERIFY_CONNECT makes a zombie of a peer,
and there the first premise is needed: a guest has one connection, to which every VERIFY_CONNECT
on its way belongs (`OneBond`), so that one which is late is not wrong. There is one lemma
for each action (`ConnectRequested` to `ReceiveRequested`), and `RequestedStep` joins what they share.

### The counters

**Assumptions.** `ThrottleAssumption`, of which the proof uses that `Slots` is a
sequence: a host has finitely many peers. The host disconnects its guests with
`Disconnect` or `DisconnectLater`; `DisconnectNow` leaves the counters as they are
(section 6), which is why `CloseConnection` (app/network.cc:41-52) may only be the
last thing a host does.

**Argument.** `Counting` joins `PeersCounted` with `Shape`: `state` and `net` are
functions on the guests, and each net has the field that `bandwidth_limited_peers_`
goes by. Without the second, nothing says that what a guest adds when it connects
is what it takes off when it leaves. `ConnectsCounts` adds one element to the set
of connected peers and, if its bandwidth is limited, to the set of those
(`FS_AddElement`); `LeavesCounts` removes it (`FS_RemoveElement`). Every other
action comes down to `SameCounts`: it connects nobody, disconnects nobody and
leaves the bandwidths of who is connected alone. Of the throttle that holds
whatever its loops compute, because `Limited` sets limits and throttles only.

**The shares.** `Fair` adds the types of the words and `HeardFit`, which is `SharesFit`, and
`Silent`: a slot that is free has heard nothing. The sum changes in two kinds of steps.
Who leaves takes his part out of it (`SumOfFewer`). The throttle replaces all of it: each
guest that can send less than an equal part is told all of it, and an equal part of the
rest goes to each of the others, a quotient whose product with their number is no more than
what was divided (`QuotientIs`). The loop ends because a round that goes on has taken out a
guest. Nothing is assumed of the numbers: the divisions of that loop only ever
get smaller numbers from smaller ones.

**The limits.** The walk takes from the bandwidth and from the data what a limited guest can
take. `Reduced` says so of any state of the walk, as equations with sums over the
guests that it has limited, and that the data left is that of the others at least.
A guest is limited if its part, in proportion, is more than it can take, so that
what is left of the bandwidth never gets too small for the rest (`InProportion`,
`SumInProportion`). `RoundOf` carries this over the rounds and bounds their number
by that of the guests; at the end every guest that was not limited gets what it can
take at most (`Fitting`). `NothingUnderflows` is the first, `ThrottledToFit` both.

The two have premises, because the code adds and multiplies in `uint32_t`:
`TotalsFit`, that the totals of all connected guests together do not wrap, and
`ScaledTotalsFit`, that their product with the scale of 32 does not. The totals are never
set back (protocol.cc:97-98, 131-132), so that nothing in the code keeps them below
these, and above them the sums that the walk divides by are no longer the sums of what it
takes off: the second is exceeded once 128 MiB have been sent to the guests of a host.

### The datagram

**Assumptions.** `DatagramAssumption`: numbers are numbers, and there is one buffer for the
header and two for each command, as `BUFFER_MAXIMUM` says (rudp/const.h).

**Argument.** `Packed` is the invariant of the chamber while it is filled: there is a
strictly increasing map from the commands that were loaded to buffers (`Placed`), each of which
will be written out as that command (`Stands`) and is followed by its payload if it has one.
An acknowledgement
is there by way of a command slot: its buffer points to the slot, and what is written is what
the slot holds in the end, not when it was loaded. No slot below the counter is filled again
while the chamber is, and one that was taken in vain only leaves a gap. `BuffersLast` bounds the buffers by twice the
slots, with an exception for a chamber whose slots are used up, where a buffer is
still taken, but nothing loaded. The loops are treated by `BoundedInduction` over their
recursive functions. `Inv` takes no interest in what earlier datagrams left in the slots,
except that it has the type of a piece.

### The star

**Assumptions.** `RelayAssumption`, and nothing else: ids may collide, and guests
may be more than there are slots.

**Argument.** The invariant comes in three layers.

`Base` says who names whom. `ConnectedAreRelayedTo` alone is not inductive: that the
entry of one guest survives the coming of another takes that a slot has one guest
(`SlotsHold`), that an entry which outlived its guest makes the slot's next guest
one of `reused` (`StaleIsReused`), and that nobody relays to the sender of a message
(`SendingHolds`). `ProcessesHold` and `ServerIsActive` say what a thread that is
still running may count on.

`Paths` says what is between a user and the server: nothing reaches a guest before
the server has let it in (`QuietBefore`), what it says is under way without a gap and
ends with what it said last (`UpHolds`), and what is being relayed is the message
taken last from its sender (`RelayedIsLast`), as long as that one still speaks.

`Logs` says where every log stands. A guest's `Feed` is what it has heard with what is
on its way to it. `OwnReached`, `RelayReached` and `ServerReached` give the number of
the last message of each sender in it, which depends on whether one of the two
loops has passed the guest's slot; with them `FeedsInSequence` is inductive. The
relay can tell that a message is new to a log because of `NothingAhead` and
`RelayedIsNew`, and that is what `FeedsInOneOrder` needs: of two logs one may have the
message that is being relayed and the other not, but nothing that a guest said
comes behind it.

Three steps add a message to a feed: `LogsBroadcastNext`, `LogsRelayNext` and
`LogsReceiveFromGuest`. For all others `LogsKept` shows that feeds only get shorter
at the end (a connection that ends) or stay as they are, and `StillStep` that every
action is of that kind or one of the three. The minimum of a set of ids, the next
one the relay serves, exists by `MinOfSet`, from `NatSetInduction`: the library's
induction theorems cannot be instantiated here, so a set of naturals with 0 and
every successor is shown to hold them all.

`HeardInSequence`, `NotResentToSelf` and `SameOrder` speak of the server and of guests
outside `reused`; for the others they do not hold (section 6).

### Model-checked only

Of the safety properties, `ConnectedIsAnnounced` and `EventsInTurn` of the life cycle, which
hold only on their instances, without a repeated datagram: section 6 names what breaks each.
They also read off a log what was told of one connection, which takes induction over data.
Further all liveness (`EventuallyAcknowledged`, `GracefulDisconnectEnds`,
`DisconnectEnds`, `EventuallyReceived` of the link, `EventuallyHeard` of the star), which is
out of the prover's reach, as is ENABLED.

## 5. What is not modelled

* The unreliable path of `CommandPod` (command_pod.cc:224-298): the application
  sends RELIABLE segments only (app/network.cc:354), nothing handles unreliable
  data at the other end, and the one command that takes this path, the DISCONNECT
  of `DisconnectNow`, is an action of `PeerLifecycle`.
* What a guest makes of BANDWIDTH_LIMIT: a TODO of the code (protocol.cc:380-388).
* `CalculateSegmentLoss` (peer_net.cc:63-82): `segments_sent_` is never raised, so
  that it never runs; `RUdpProtocol::NotifyDisconnect` (protocol.cc:198-224) and
  `RequestPeerRemoval`: nothing calls them.
* Messages to one guest or to all but one in `Network`: `target_peer_id_` has no
  setter.
* `CONNECTION_PENDING` and `CONNECTION_SUCCEEDED`: entered only without an
  `Event`, which does not happen.
* Reconnecting guests in the runs of `PeerLifecycle`: `MAX_CONNECTS` is 1, because
  several of its properties do not hold beyond one connection per guest (section
  6). Slots that are used again are covered. The theorems hold for any number, but for
  the four with the premise `OneAttempt`.
* Byte order and layout of commands, sockets and addresses, the logger, signals,
  the hash: conversions and system calls without protocol state. The network
  behind the sockets is the environment of every model.

## 6. Where the code departs from what one would expect

Each of these is a counterexample of TLC on the instance given, which is a run
of section 3 with other constants. The first five disagree with what a comment
or a test of the repository says.

| property | instance | what the code does | what is said of it |
|---|---|---|---|
| `ReceiverSurvives` | `receiver_order` with five arrivals | the walk of `QueueIncomingCommand` notices the end of the list after it was passed and still dereferences it (rudp/channel.cc:143), when a command belongs in front of all that wait, as after any reordering | rudp/enum.h:69-70 of RELIABLE: "segment must be received by the target peer and resend attempts should be made until the segment is delivered" |
| `ConfirmedIsKept` | `receiver_order` with `Commands <- TwoLarge` | `HandleSendFragment` (protocol.cc:448) rewrites the number of the arriving command before it is acknowledged; a message whose second fragment comes first has its first one acknowledged | the same |
| `GracefulDisconnectEnds` | `sender_flow` with one empty message, no pings, 4 windows of 4, `FullRoom`, one loss | a copy that expired stays in the sent list (command_pod.cc:101); only one of the two is ever removed, and the graceful disconnect waits | test/feature/rudp/connection_test.cc:61 "guest peer can gracefully disconnect from host peer" |
| `ConnectedIsAnnounced` | `lifecycle_resend` with one slot, no early timeouts and no copies | the second acknowledgement of a datagram overwrites the CONNECT event of the first (protocol.cc:325) | rudp/host.cc:49-50: "The peer configured will have not completed the connection until UdpHost::Service() notifies of an EventType::CONNECT event for the peer." |
| `ClosedOnRequest` | `lifecycle_events` with `Ways <- ServerLater`, two copies, no pings | the lists of a `CommandPod` outlive its reset (command_pod.cc:398), and a DISCONNECT goes to the next guest of the slot | test/feature/rudp/connection_test.cc:13 "guest peer can establish connection with host peer" |

The modules state more that one would expect of the code and that does not hold;
no run lists these.

| property | instance | why |
|---|---|---|
| `ConfirmedIsKept` | `receiver_order` with `MayDisconnectLater` | a closing peer acknowledges what it discards, peer.cc:260 |
| `DeliveredInOrder` | `receiver_order` with five arrivals | a batch is pushed in front of an earlier one, peer.h:131-137 |
| `MessagesWhole` | `receiver_fragments`, six arrivals | fragments are joined as they arrive, incoming_command.h:43 |
| `NoStalledHead` | a window size of 1, with commands numbered around the wrap | the sum is an int and never wraps, channel.cc:27-28 |
| `OnlyUnacknowledgedIsResent` | `sender_order` | the outgoing list is never searched, command_pod.cc:316 |
| `UsedWindowsAreMarked` | `sender_flow` with early timeouts | a command sent twice is uncounted twice, command_pod.cc:348 |
| `GivenUpIsDisconnected` | `sender_order` | the branch does nothing, command_pod.cc:80-91 |
| `EventuallyAcknowledged` | `sender_flow` with three messages, one loss | the data in transit is diminished twice and falls below zero, command_pod.cc:95 |
| `ClosedOnRequest` | `lifecycle_events` with one guest, `MAX_CONNECTS = 2`, no pings | session ids are always equal (peer.cc:513, 520): the DISCONNECT of an earlier attempt, delayed, closes the guest's next connection |
| `GuestConnectsFirst` | `lifecycle_resend` with `PEER_COUNT <- Tight`, `MAX_CONNECTS = 2`, no early timeouts and no copies | numbers restart with every connection and session ids are equal: a guest gives up an attempt and connects again, the server gives up the second one, and the guest's acknowledgement of the second VERIFY_CONNECT confirms that of the first, whose CONNECT was late: each end is connected, and not to the other |
| `EventsInTurn` | the same | then two acknowledgements come in one datagram, the second overwrites the CONNECT event of the first (protocol.cc:325), and the server is told of the end of a connection that it was not told of |
| `ConnectedPeersCounted` | `lifecycle_events` | `DisconnectNow` does not purge the peer, peer_pod.cc:125-151 |
| `DisconnectingEnds` | `lifecycle_close` with one guest, one slot each, one loss, two copies | the acknowledgement of a DISCONNECT is not repeated, peer.cc:465 |
| `DisconnectingEnds` | `lifecycle_close` with one guest, both sides disconnecting later | a zombie acknowledges nothing, protocol.cc:575 |
| `ImplementsDelivery` | `reliable_link` with 6 windows of 4, 3 free, eight messages, `WideLimit`, `WideRoom`, no losses (found by simulation) | the silence about refused numbers is computed with a wrong divisor (peer.cc:219): a number the channel refused is acknowledged, and the sender forgets it |
| `AcceptedOnArrival` | `reliable_link` with 4 windows of 2, 2 free | the sender may enter a window (command_pod.cc:22) that the receiver does not take yet |
| `EventuallyReceivedAnyway` | `reliable_link` | after a loss the data in transit falls below zero (command_pod.cc:95) and the sender sends nothing any more |
| `SharesAreCurrent` | `bandwidth_throttle` | a guest that the host disconnects frees its share, and nothing recalculates (peer_pod.cc:94-97) |
| `GuestWindowFitsHost` | `bandwidth_throttle` with `HOST_INCOMING = 4`, `HOST_OUTGOING = 8` | `SetupConnectedPeer` is handed the two bandwidths in the wrong order (peer_pod.cc:297-298, protocol.cc:391-393) |
| `ThrottleWithinScale` | `bandwidth_throttle` | the throttle is set to a round trip time (protocol.cc:347) |
| `EstimateWithinSamples` | `bandwidth_throttle` with `SAMPLES <- Quick` | a sample below the estimate gives a difference of almost 2^32 (peer.cc:567) |
| `WithinMtu` | `wire_datagram` | `SendingContinues` answers before it has looked at the payload (chamber.cc:70-71), and the difference is unsigned |
| `OnlyItsOwn` | `wire_datagram` | a slot that was taken and not filled (command_pod.cc:127-128) is written with what it held for another peer |
| `LoadedIsRead` | `wire_datagram` | the parse loop goes on by the size of the command and reads the payload as commands (peer_pod.cc:249) |
| `ExistingPeersAreTold` | `relay_members` | both ADD_PEER messages go to the new guest (app/network.cc:205, 214), under the comments "send existing peers info to new peer" and "send new peer info to existing peers" |
| `NeverResentToSelf` | `relay_members` | the entry of a guest that has left stays in `peers_` (network.cc:218-247) and names the slot of the next one: "do not resend to self" (line 304) compares ids |
| `NobodyCrashes` | `relay_members` | the dispatcher uses a null segment (main.cc:95-96) and `Send` a null peer (network.cc:412) after `CloseConnection`; the lists are shared without a lock |
| `ConnectedBecomesMember` | `relay_members` | a guest whose id is known is reset (network.cc:175-178) and not told; `connected_peers_` still counts it |

Read off the code while modelling:

* Whatever arrives, at most one command is handed over at a time: the walk of
  `QueueIncomingCommand` dies before a gap in front of a waiting command is
  filled, and a list of more than one keeps `ExtractFirstCommand` from finding
  the message its fragments belong to. Leaving the loop of
  `NewIncomingReliableCommands` after its first pass changes none of the results
  of `receiver_fragments`.
* Fragments are never counted in `total_waiting_data_`, whole messages are
  counted even when the channel refuses them. The count may therefore fall below
  zero when a fragmented message is taken by the application, which the test at
  rudp/peer/peer.cc:326-327 and the FIXME there deal with.
* A fragment whose message starts at a number above what is left of its datagram, in bytes,
  is never taken (peer_pod.cc:372-378): `send_reliable.data_length`, which the test reads, is the first
  number of the message (protocol_type.h:78, 98). Sending it again does not help, unless
  more follows it in the datagram. From some 1400 numbers on this is every fragment that stands
  alone or last in its datagram, and long before that the last one of a message, which may be short.
* REMOVE_PEER carries the id of the guest it is sent to instead of the one that
  left (network.cc:241-243), so that nobody removes anything.
* The setter of `segment_throttle_epoch_` writes `segment_loss_epoch_`
  (peer_net.h:192-196), so that every acknowledgement starts a new period of the
  estimates.
* A repeated CONNECT, or a guest that cancels while it is CONNECTING, leaves a
  slot of the server that is never freed.

## 7. Plan

Done: 1 `Channel`, 2 `PeerReceiver` and its proofs, 3 `CommandPod` and
`PeerSender`, 4 `PeerLifecycle`, 5 `ReliableDelivery` and `ReliableLink`,
6 `StarRelay`, 7 `PeerNet` and `BandwidthThrottle` and their proof, 8 `Datagram`,
9 the proofs of `PeerSender`, `PeerLifecycle` and `StarRelay`, 10 that
`ReliableLink` implements `ReliableDelivery`, 11 the sender that sends once, the shares
and limits of the throttle, the packing of a datagram and the receiver's waiting data,
12 both ends of a connection while each guest connects once, and that none is closed
before an application asks.

What is left are the properties of the life cycle that read a log of events, and fragments
in `ReliableLink`, which the two ends have only each for itself.

The project keeps a dozen runs, each for a question of its own.
