---------------------------- MODULE PeerReceiver ----------------------------
(***************************************************************************)
(* The receiving path of one connected rudp::Peer: a datagram's reliable   *)
(* command or fragment goes through Peer::QueueIncomingCommand or          *)
(* HandleSendFragment into its Channel, what has become ready moves to the *)
(* peer's dispatch deque, the peer waits in the host's dispatch queue, the *)
(* application takes one command per Host::Service, and acknowledgements   *)
(* are queued and sent.                                                    *)
(*                                                                         *)
(* The network is any order, loss and repetition of the datagrams in       *)
(* `Commands`; a datagram holds one command.  A payload is known by the    *)
(* message and the fragment it belongs to.                                 *)
(***************************************************************************)
EXTENDS Channel

CONSTANTS
    CHANNELS,                           \* the channel identifiers of the peer
    Commands,                           \* what the sender may have sent
    HOST_DEFAULT_MAXIMUM_WAITING_DATA,  \* 32 MiB in the code
    PROTOCOL_MAXIMUM_SEGMENT_COMMANDS,  \* 32 in the code
    MayDisconnectLater,                 \* may the application close gracefully?
    MAX_ARRIVALS                        \* bound on the datagrams that arrive

\* A command on the wire: start, number and count are those of
\* ProtocolSendFragment; a SEND_RELIABLE has start = rsn and count = 0.
Command ==
    [kind : {"SEND_RELIABLE", "SEND_FRAGMENT"}, channel : CHANNELS, rsn : Nat,
     start : Nat, number : Nat, count : Nat, length : Nat, msg : Nat]

LastOf(c) == IF c.count > 0 THEN c.start + c.count - 1 ELSE c.start

\* The sender numbers commands without a gap, gives a message of count
\* fragments count numbers, and has not wrapped.
FirstLap(S) ==
    \A c \in S :
        /\ c.start >= 1 /\ LastOf(c) < SEQUENCE_NUMBERS
        /\ \A d \in S :
             (c.channel = d.channel) =>
                \/ c.start = d.start /\ c.count = d.count
                \/ LastOf(c) < d.start
                \/ LastOf(d) < c.start

\* No number is so far behind another that its window passes for one ahead.
\* With the code's constants this holds of numbers below ten windows.
NoAliasing(S) ==
    \A c, d \in S :
        c.start < LastOf(d) =>
            Window(c.start) + PEER_RELIABLE_WINDOWS >=
                Window(LastOf(d)) + PEER_FREE_RELIABLE_WINDOWS - 1

ASSUME ChannelsAssumption == IsFiniteSet(CHANNELS)

ASSUME ReceiverAssumption ==
    /\ Commands \subseteq Command
    /\ \A c \in Commands :
          /\ c.rsn = c.start + c.number
          /\ c.kind = "SEND_RELIABLE" => c.count = 0 /\ c.number = 0
          /\ c.kind = "SEND_FRAGMENT" => c.count >= 2 /\ c.number < c.count
    /\ HOST_DEFAULT_MAXIMUM_WAITING_DATA \in Nat
    /\ PROTOCOL_MAXIMUM_SEGMENT_COMMANDS \in Nat \ {0}
    /\ MAX_ARRIVALS \in Nat
    /\ MayDisconnectLater \in BOOLEAN

VARIABLES
    alive,                \* the process has not been killed by a bad access
    state,                \* the peer's RUdpPeerState
    channels,             \* channels_, see module Channel
    acknowledgements,     \* acknowledgements_, the acks to send
    dispatched_commands,  \* dispatched_commands_, a deque
    total_waiting_data,   \* total_waiting_data_
    needs_dispatch,       \* needs_dispatch_
    dispatch_queue,       \* times the peer stands in the DispatchQueue
    arrivals,             \* datagrams received so far (bounds the runs)
    handed,               \* history: what each channel has handed over
    delivered,            \* history: what the application has received
    confirmed             \* history: the acknowledgements sent

peerVars == <<state, acknowledgements, dispatched_commands, total_waiting_data,
              needs_dispatch, dispatch_queue>>
history  == <<handed, delivered, confirmed>>
vars     == <<alive, arrivals, channels, peerVars, history>>

Init ==
    /\ alive = TRUE
    /\ state = "CONNECTED"
    /\ channels = [ch \in CHANNELS |-> EmptyChannel]
    /\ acknowledgements = <<>>
    /\ dispatched_commands = <<>>
    /\ total_waiting_data = 0
    /\ needs_dispatch = FALSE
    /\ dispatch_queue = 0
    /\ arrivals = 0
    /\ handed = [ch \in CHANNELS |-> <<>>]
    /\ delivered = <<>>
    /\ confirmed = {}

-----------------------------------------------------------------------------
Part(c) == [msg |-> c.msg, number |-> c.number]

\* Mutant of NewIncomingCommand: a fragment keeps its own number.
FragmentKeepsNumber(c) ==
    [channel |-> c.channel, rsn |-> c.rsn, count |-> c.count,
     received |-> IF c.kind = "SEND_FRAGMENT" THEN {c.number} ELSE {},
     payload |-> <<Part(c)>>, length |-> c.length]

\* The IncomingCommand made of a wire command; its number is the first one
\* of its message.
NewIncomingCommand(c) ==
    [channel |-> c.channel, rsn |-> c.start, count |-> c.count,
     received |-> IF c.kind = "SEND_FRAGMENT" THEN {c.number} ELSE {},
     payload |-> <<Part(c)>>, length |-> c.length]

\* Mutant of DispatchIncomingReliableCommands: a peer that stands in the
\* DispatchQueue is put there again.
DispatchTwice(id, ch) ==
    \E k \in 0..Len(ch.commands) :
        /\ HandsOver(ch, k)
        /\ channels' = [channels EXCEPT ![id] = AfterHandOver(ch, k)]
        /\ dispatched_commands' = NewCommands(ch, k) \o dispatched_commands
        /\ handed' = [handed EXCEPT ![id] = @ \o NewCommands(ch, k)]
        /\ IF k = 0
           THEN UNCHANGED <<needs_dispatch, dispatch_queue>>
           ELSE needs_dispatch' = TRUE /\ dispatch_queue' = dispatch_queue + 1

\* RUdpProtocol::DispatchIncomingReliableCommands, once the arriving command
\* has left its channel as ch.  The batch goes to the front of the deque.
DispatchIncomingReliableCommands(id, ch) ==
    \E k \in 0..Len(ch.commands) :
        /\ HandsOver(ch, k)
        /\ channels' = [channels EXCEPT ![id] = AfterHandOver(ch, k)]
        /\ dispatched_commands' = NewCommands(ch, k) \o dispatched_commands
        /\ handed' = [handed EXCEPT ![id] = @ \o NewCommands(ch, k)]
        /\ IF k = 0 \/ needs_dispatch
           THEN UNCHANGED <<needs_dispatch, dispatch_queue>>
           ELSE needs_dispatch' = TRUE /\ dispatch_queue' = dispatch_queue + 1

\* Peer::QueueAcknowledgement keeps silent about some numbers.  The current
\* window is the number over the COUNT of free windows, as in the code.
StaysSilent(ch, rsn) ==
    LET current == ch.incoming \div PEER_FREE_RELIABLE_WINDOWS
    IN  /\ WindowFrom(ch, rsn) >= current + PEER_FREE_RELIABLE_WINDOWS - 1
        /\ WindowFrom(ch, rsn) <= current + PEER_FREE_RELIABLE_WINDOWS

QueueAcknowledgement(id, rsn) ==
    acknowledgements' =
        IF StaysSilent(channels'[id], rsn)
        THEN acknowledgements
        ELSE Append(acknowledgements, [channel |-> id, rsn |-> rsn])

Receives(c) ==
    /\ alive
    /\ UNCHANGED <<state, delivered, confirmed>>

Dies ==
    /\ alive' = FALSE
    /\ UNCHANGED <<channels, acknowledgements, dispatched_commands,
                   total_waiting_data, needs_dispatch, dispatch_queue, handed>>

-----------------------------------------------------------------------------
(* SEND_RELIABLE: ReceiveIncomingCommands, HandleSendReliable,             *)
(* Peer::QueueIncomingCommand and Channel::QueueIncomingCommand.           *)

PeerDiscards ==
    \/ state = "DISCONNECT_LATER"
    \/ total_waiting_data >= HOST_DEFAULT_MAXIMUM_WAITING_DATA

\* A discard by the peer or by the channel answers OK, so that the command
\* is acknowledged whatever happened to it.
DiscardReliable(c) ==
    LET ch == channels[c.channel]
    IN  /\ Receives(c)
        /\ PeerDiscards \/ Unwanted(ch, c.rsn)
        /\ total_waiting_data' =
             total_waiting_data + (IF PeerDiscards THEN 0 ELSE c.length)
        /\ DispatchIncomingReliableCommands(c.channel, ch)
        /\ QueueAcknowledgement(c.channel, c.rsn)
        /\ UNCHANGED alive

QueueReliable(c) ==
    LET ch == channels[c.channel]
    IN  /\ Receives(c)
        /\ ~PeerDiscards
        /\ \E p \in 0..Len(ch.commands) :
              /\ GoesAfter(ch, c.rsn, p)
              /\ DispatchIncomingReliableCommands(c.channel,
                     Inserted(ch, NewIncomingCommand(c), p))
        /\ total_waiting_data' = total_waiting_data + c.length
        /\ QueueAcknowledgement(c.channel, c.rsn)
        /\ UNCHANGED alive

CrashOnReliable(c) ==
    /\ Receives(c)
    /\ ~PeerDiscards
    /\ WalkCrashes(channels[c.channel], c.rsn)
    /\ Dies

ReceiveReliable(c) ==
    /\ c.kind = "SEND_RELIABLE"
    /\ DiscardReliable(c) \/ QueueReliable(c) \/ CrashOnReliable(c)

-----------------------------------------------------------------------------
(* SEND_FRAGMENT: ReceiveIncomingCommands and HandleSendFragment.          *)

Extracts(ch, c, p) == ExtractsFirst(ch, c.start, c.length, c.count, p)

\* The first number of the message stands where a SEND_RELIABLE has the length
\* of its data, and is read as one: a fragment whose datagram holds less behind
\* it is left there, unanswered.  How much that is, from one byte on, depends
\* on the fragment and on what else the datagram holds.
LeaveFragment(c) ==
    /\ Receives(c)
    /\ c.start > 1
    /\ UNCHANGED <<alive, channels, acknowledgements, dispatched_commands,
                   total_waiting_data, needs_dispatch, dispatch_queue, handed>>

\* Answers OK before anything is done: the fragment is acknowledged.
DiscardFragment(c) ==
    /\ Receives(c)
    /\ OutsideWindow(channels[c.channel], c.start)
    /\ UNCHANGED <<alive, channels, dispatched_commands, total_waiting_data,
                   needs_dispatch, dispatch_queue, handed>>
    /\ QueueAcknowledgement(c.channel, c.rsn)

\* No first command is found: the fragment opens the message, under the
\* message's first number.  The number is written into the arriving command
\* itself, so that the acknowledgement names it too.
OpenMessage(c) ==
    LET ch == channels[c.channel]
    IN  /\ Receives(c)
        /\ ~OutsideWindow(ch, c.start)
        /\ ~ \E p \in DOMAIN ch.commands : Extracts(ch, c, p)
        /\ \E p \in 0..Len(ch.commands) :
              /\ GoesAfter(ch, c.start, p)
              /\ channels' = [channels EXCEPT ![c.channel] =
                                 Inserted(ch, NewIncomingCommand(c), p)]
        /\ QueueAcknowledgement(c.channel, c.start)
        /\ UNCHANGED <<alive, dispatched_commands, total_waiting_data,
                       needs_dispatch, dispatch_queue, handed>>

WithFragment(command, c) ==
    [command EXCEPT !.received = @ \cup {c.number},
                    !.payload  = Append(@, Part(c))]

\* Mutant of HandOverIfComplete: nothing is handed over.
HoldBack(id, ch, p) ==
    /\ channels' = [channels EXCEPT ![id] = ch]
    /\ UNCHANGED <<dispatched_commands, handed, needs_dispatch, dispatch_queue>>

\* HandleSendFragment looks for what can be handed over once the fragment
\* has completed the p-th command.
HandOverIfComplete(id, ch, p) ==
    IF Complete(ch.commands[p])
    THEN DispatchIncomingReliableCommands(id, ch)
    ELSE /\ channels' = [channels EXCEPT ![id] = ch]
         /\ UNCHANGED <<dispatched_commands, handed, needs_dispatch,
                        dispatch_queue>>

\* A first command is found: the fragment is appended to its payload,
\* unless the bit of its number is set.
AddFragment(c) ==
    LET ch == channels[c.channel]
    IN  /\ Receives(c)
        /\ ~OutsideWindow(ch, c.start)
        /\ \E p \in DOMAIN ch.commands :
              /\ Extracts(ch, c, p)
              /\ ch.commands[p].count > 0
              /\ LET first == ch.commands[p]
                     now   == [ch EXCEPT !.commands[p] = WithFragment(first, c)]
                 IN  IF c.number \in first.received
                     THEN UNCHANGED <<channels, dispatched_commands, handed,
                                      needs_dispatch, dispatch_queue>>
                     ELSE HandOverIfComplete(c.channel, now, p)
        /\ QueueAcknowledgement(c.channel, c.rsn)
        /\ UNCHANGED <<alive, total_waiting_data>>

\* The process dies: in the walk, on the null command that a discard
\* returns, or on the empty bitmap of a command that is not a fragment.
CrashOnFragment(c) ==
    LET ch == channels[c.channel]
    IN  /\ Receives(c)
        /\ ~OutsideWindow(ch, c.start)
        /\ \/ /\ ~ \E p \in DOMAIN ch.commands : Extracts(ch, c, p)
              /\ Unwanted(ch, c.start) \/ WalkCrashes(ch, c.start)
           \/ \E p \in DOMAIN ch.commands :
                 Extracts(ch, c, p) /\ ch.commands[p].count = 0
        /\ Dies

ReceiveFragment(c) ==
    /\ c.kind = "SEND_FRAGMENT"
    /\ \/ LeaveFragment(c)
       \/ DiscardFragment(c)
       \/ OpenMessage(c)
       \/ AddFragment(c)
       \/ CrashOnFragment(c)

-----------------------------------------------------------------------------
(* The rest of Host::Service, and the application.                         *)

\* Mutants of Released: the test is missing; the data that waits behind the
\* command is forgotten too.
ReleasedBelowZero(length) == total_waiting_data - length
ReleasedAtOnce(length) == 0

\* Peer::Receive: total_waiting_data_ once the data of a command was taken.
Released(length) ==
    IF total_waiting_data >= length THEN total_waiting_data - length
                                    ELSE total_waiting_data

\* Mutant of DispatchIncomingCommands: a peer that has more is not put back.
DispatchWithoutRequeue ==
    /\ alive
    /\ dispatch_queue > 0
    /\ IF state = "CONNECTED" /\ dispatched_commands # <<>>
       THEN /\ delivered' = Append(delivered, Head(dispatched_commands))
            /\ dispatched_commands' = Tail(dispatched_commands)
            /\ total_waiting_data' = Released(Head(dispatched_commands).length)
            /\ needs_dispatch' = (Tail(dispatched_commands) # <<>>)
            /\ dispatch_queue' = dispatch_queue - 1
       ELSE /\ needs_dispatch' = FALSE
            /\ dispatch_queue' = 0
            /\ UNCHANGED <<delivered, dispatched_commands, total_waiting_data>>
    /\ UNCHANGED <<alive, arrivals, channels, state, acknowledgements, handed,
                   confirmed>>

\* RUdpProtocol::DispatchIncomingCommands: peers leave the queue until one
\* yields an event.  A connected peer yields one command and goes back to
\* the queue if it has more; a peer that is closing is dropped.
DispatchIncomingCommands ==
    /\ alive
    /\ dispatch_queue > 0
    /\ IF state = "CONNECTED" /\ dispatched_commands # <<>>
       THEN LET first == Head(dispatched_commands)
                more  == Tail(dispatched_commands) # <<>>
            IN  /\ delivered' = Append(delivered, first)
                /\ dispatched_commands' = Tail(dispatched_commands)
                /\ total_waiting_data' = Released(first.length)
                /\ needs_dispatch' = more
                /\ dispatch_queue' =
                     IF more THEN dispatch_queue ELSE dispatch_queue - 1
       ELSE /\ needs_dispatch' = FALSE
            /\ dispatch_queue' = 0
            /\ UNCHANGED <<delivered, dispatched_commands, total_waiting_data>>
    /\ UNCHANGED <<alive, arrivals, channels, state, acknowledgements, handed,
                   confirmed>>

\* RUdpProtocol::SendAcknowledgements, called for chamber after chamber until
\* none is left: the acknowledgement that finds the chamber full has already
\* left the list and is forgotten.
SendAcknowledgements ==
    /\ alive
    /\ acknowledgements # <<>>
    /\ acknowledgements' = <<>>
    /\ confirmed' = confirmed \cup
         {acknowledgements[i] : i \in
            {j \in DOMAIN acknowledgements :
               j % (PROTOCOL_MAXIMUM_SEGMENT_COMMANDS + 1) # 0}}
    /\ UNCHANGED <<alive, arrivals, channels, state, dispatched_commands,
                   total_waiting_data, needs_dispatch, dispatch_queue, handed,
                   delivered>>

\* PeerPod::DisconnectLater while commands of its own are still unsent or
\* unacknowledged.
DisconnectLater ==
    /\ alive
    /\ MayDisconnectLater
    /\ state = "CONNECTED"
    /\ state' = "DISCONNECT_LATER"
    /\ UNCHANGED <<alive, arrivals, channels, acknowledgements,
                   dispatched_commands, total_waiting_data, needs_dispatch,
                   dispatch_queue, history>>

\* The bound on what arrives.
Counted ==
    /\ arrivals < MAX_ARRIVALS
    /\ arrivals' = arrivals + 1

Next ==
    \/ \E c \in Commands : Counted /\ (ReceiveReliable(c) \/ ReceiveFragment(c))
    \/ DispatchIncomingCommands
    \/ SendAcknowledgements
    \/ DisconnectLater

Spec == Init /\ [][Next]_vars

-----------------------------------------------------------------------------
(* Properties.                                                             *)

QueuedCommand ==
    [channel : CHANNELS, rsn : Nat, count : Nat, received : SUBSET Nat,
     payload : Seq([msg : Nat, number : Nat]), length : Nat]

Acknowledgement == [channel : CHANNELS, rsn : Nat]

\* Every variable has its type.
TypeOK ==
    /\ alive \in BOOLEAN
    /\ state \in {"CONNECTED", "DISCONNECT_LATER"}
    /\ channels \in [CHANNELS -> [incoming : 0..(SEQUENCE_NUMBERS - 1),
                                  commands : Seq(QueuedCommand)]]
    /\ acknowledgements \in Seq(Acknowledgement)
    /\ dispatched_commands \in Seq(QueuedCommand)
    /\ total_waiting_data \in Nat
    /\ needs_dispatch \in BOOLEAN
    /\ dispatch_queue \in Nat
    /\ arrivals \in 0..MAX_ARRIVALS
    /\ handed \in [CHANNELS -> Seq(QueuedCommand)]
    /\ delivered \in Seq(QueuedCommand)
    /\ confirmed \in SUBSET Acknowledgement

\* The channel's list is sorted, without overlap, ahead of its number.
Ordered(ch) ==
    /\ \A i \in DOMAIN ch.commands : ch.incoming < ch.commands[i].rsn
    /\ \A i, j \in DOMAIN ch.commands :
          i < j => LastNumber(ch.commands[i]) < ch.commands[j].rsn

\* The commands follow one another from 1, and end at `last`.
Contiguous(log, last) ==
    /\ \A i \in DOMAIN log :
          log[i].rsn = 1 + (IF i = 1 THEN 0 ELSE LastNumber(log[i - 1]))
    /\ last = IF log = <<>> THEN 0 ELSE LastNumber(log[Len(log)])

\* The turn of the first command has come, and it is complete.
Stalled(ch) ==
    /\ ch.commands # <<>>
    /\ Complete(ch.commands[1])
    /\ ch.commands[1].rsn = (ch.incoming + 1) % SEQUENCE_NUMBERS

\* What a channel holds back lies strictly ahead of what it handed over and
\* is sorted without overlap, each message's numbers ending before the next
\* message starts: the order the back-to-front walk of QueueIncomingCommand
\* relies on and has to keep.
PendingInOrder == \A id \in CHANNELS : Ordered(channels[id])

\* Whatever the network loses, repeats or reorders, a channel hands over
\* every message exactly once and in the order it was sent: each begins right
\* after the numbers of the one before it, the first at 1, and
\* NewIncomingReliableCommands leaves the channel at the end of the last one.
HandedOverInSequence ==
    \A id \in CHANNELS : Contiguous(handed[id], channels[id].incoming)

\* A complete command whose turn has come, counting sequence numbers as the
\* uint16_t they are, is never left in the list once a datagram has been
\* handled: nothing else would look at it until another datagram arrives.
NoStalledHead == \A id \in CHANNELS : ~Stalled(channels[id])

\* While the peer is connected, commands in its dispatch deque have it
\* standing in the DispatchQueue, and needs_dispatch_ tells that it stands
\* there, once and only once: no command waits for a poll that never comes.
NothingStranded ==
    /\ dispatch_queue = (IF needs_dispatch THEN 1 ELSE 0)
    /\ state = "CONNECTED" /\ dispatched_commands # <<>> => needs_dispatch

KeptParts(id) ==
    UNION {ToSet(command.payload) :
             command \in ToSet(handed[id]) \cup ToSet(channels[id].commands)}

\* The receiver acknowledges only what it has kept: a command whose
\* acknowledgement is queued or was sent was handed over or waits in its
\* channel.  The sender drops a command for good on its acknowledgement.
ConfirmedIsKept ==
    \A a \in confirmed \cup ToSet(acknowledgements) :
        \A c \in Commands :
            (c.channel = a.channel /\ c.rsn = a.rsn) =>
                Part(c) \in KeptParts(a.channel)

SumOfLengths(seq) == SumFunction([i \in DOMAIN seq |-> seq[i].length])

\* total_waiting_data_ never falls below the data that waits, in a channel's
\* list or in the dispatch deque, so the limit on waiting data holds for it.
WaitingDataIsCounted ==
    total_waiting_data >=
        SumOfLengths(dispatched_commands) +
        SumFunction([id \in CHANNELS |-> SumOfLengths(channels[id].commands)])

-----------------------------------------------------------------------------
(* What one would expect of the code and does not hold; README.md names    *)
(* for each an instance that refutes it.                                   *)

\* The application receives the commands of one channel in the order the
\* channel handed them over.
DeliveredInOrder ==
    \A id \in CHANNELS :
        IsPrefix(SelectSeq(delivered, LAMBDA command : command.channel = id),
                 handed[id])

\* A message is handed over with its own fragments, each once, in order.
MessagesWhole ==
    \A id \in CHANNELS : \A i \in DOMAIN handed[id] :
        LET command == handed[id][i]
            whole   == [n \in 1..(command.count) |->
                          [msg |-> command.payload[1].msg, number |-> n - 1]]
        IN  command.count > 0 => command.payload = whole

\* The receiver outlives every datagram.
ReceiverSurvives == alive
=============================================================================
