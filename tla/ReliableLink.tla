---------------------------- MODULE ReliableLink ----------------------------
(***************************************************************************)
(* One direction of a connection: the sending half of one peer (module     *)
(* PeerSender) and the receiving half of the peer at the other end (module *)
(* PeerReceiver), which answers with the acknowledgements it really sends. *)
(*                                                                         *)
(* Where PeerSender alone allows an answer for every copy on its way, here *)
(* a copy arrives, is handled, is acknowledged or not, and the             *)
(* acknowledgement travels back: under_way counts both, and `answers` says *)
(* how many of them are acknowledgements already sent.  Copies and         *)
(* acknowledgements are lost and overtake one another.                     *)
(*                                                                         *)
(* Messages are not fragmented, the peers stay connected, and the sequence *)
(* numbers do not wrap, so that a number names a command.                  *)
(***************************************************************************)
EXTENDS Integers, Sequences, FiniteSets, SequencesExt, FiniteSetsExt

CONSTANTS
    \* of module Channel
    PEER_RELIABLE_WINDOWS, PEER_RELIABLE_WINDOW_SIZE, PEER_FREE_RELIABLE_WINDOWS,
    \* of module PeerSender
    CHANNELS, NO_CHANNEL, DATA_MODULUS, IN_TRANSIT_LIMITS, ROOMS,
    TimeoutsMayBeEarly, MAX_MESSAGES, MAX_COPIES, MAX_LOSSES,
    \* of module PeerReceiver
    HOST_DEFAULT_MAXIMUM_WAITING_DATA, PROTOCOL_MAXIMUM_SEGMENT_COMMANDS,
    LENGTH          \* the length of every message

VARIABLES
    \* the sender
    state, pod, gave_up, under_way, acknowledged, messages, losses,
    \* the receiver
    alive, channels, acknowledgements, dispatched_commands, total_waiting_data,
    needs_dispatch, dispatch_queue, handed, delivered, confirmed,
    \* the way back
    answers         \* acknowledgements sent and neither handled nor lost

sender   == <<state, pod, gave_up, under_way, acknowledged, messages, losses>>
receiver == <<alive, channels, acknowledgements, dispatched_commands,
              total_waiting_data, needs_dispatch, dispatch_queue, handed,
              delivered, confirmed>>
linkVars == <<sender, receiver, answers>>

\* A command as the sender numbers it.
Sent(ch, n) == [channel |-> ch, serial |-> n, length |-> LENGTH]

\* The same command in a datagram.
Wire(c) ==
    [kind |-> "SEND_RELIABLE", channel |-> c.channel, rsn |-> c.serial,
     start |-> c.serial, number |-> 0, count |-> 0, length |-> c.length,
     msg |-> c.serial]

AllSent == {Sent(ch, n) : ch \in CHANNELS, n \in 1..MAX_MESSAGES}

Sender == INSTANCE PeerSender WITH
    Messages <- {<<LENGTH>>}, MayGiveUp <- FALSE, MAX_PINGS <- 0

Receiver == INSTANCE PeerReceiver WITH
    state <- "CONNECTED", Commands <- {Wire(c) : c \in AllSent},
    MayDisconnectLater <- FALSE, arrivals <- 0, MAX_ARRIVALS <- 0

\* The assumptions of the two components, and that no number wraps.
ASSUME LinkAssumption ==
    /\ PEER_RELIABLE_WINDOWS \in Nat \ {0}
    /\ PEER_RELIABLE_WINDOW_SIZE \in Nat \ {0}
    /\ PEER_FREE_RELIABLE_WINDOWS \in 1..PEER_RELIABLE_WINDOWS
    /\ IsFiniteSet(CHANNELS) /\ NO_CHANNEL \notin CHANNELS
    /\ DATA_MODULUS \in Nat \ {0}
    /\ IN_TRANSIT_LIMITS \subseteq LENGTH..(DATA_MODULUS - 1)
    /\ ROOMS \subseteq Nat /\ ROOMS \ {0} # {}
    /\ TimeoutsMayBeEarly \in BOOLEAN
    /\ {LENGTH, MAX_MESSAGES, MAX_COPIES, MAX_LOSSES} \subseteq Nat
    /\ MAX_MESSAGES < PEER_RELIABLE_WINDOWS * PEER_RELIABLE_WINDOW_SIZE
    /\ HOST_DEFAULT_MAXIMUM_WAITING_DATA \in Nat
    /\ PROTOCOL_MAXIMUM_SEGMENT_COMMANDS \in Nat \ {0}

Init ==
    /\ Sender!Init
    /\ Receiver!Init
    /\ answers = [c \in AllSent |-> 0]

-----------------------------------------------------------------------------
\* The command an acknowledgement names.
Named(ack) == Sent(ack.channel, ack.rsn)

Pending(c) == Cardinality({i \in DOMAIN acknowledgements : Named(acknowledgements[i]) = c})

\* Copies of a command that have yet to arrive.
OnWire(c) == Sender!Copies(c) - answers[c] - Pending(c)

SenderStep ==
    /\ \/ \E ch \in CHANNELS : Sender!Send(ch, <<LENGTH>>)
       \/ Sender!Poll
    /\ UNCHANGED <<receiver, answers>>

\* A copy arrives.  Nothing comes back when the receiver keeps silent about
\* the number, or dies.
Arrive(c) ==
    /\ OnWire(c) > 0
    /\ Receiver!ReceiveReliable(Wire(c))
    /\ under_way' = IF acknowledgements' = acknowledgements
                    THEN [under_way EXCEPT ![c] = @ - 1]
                    ELSE under_way
    /\ UNCHANGED <<state, pod, gave_up, acknowledged, messages, losses, answers>>

\* What SendAcknowledgements forgets, because the chamber is full, is on its
\* way no more.
SendAcknowledgements ==
    /\ Receiver!SendAcknowledgements
    /\ LET leaves(i) == i % (PROTOCOL_MAXIMUM_SEGMENT_COMMANDS + 1) # 0
           Of(c)     == {i \in DOMAIN acknowledgements :
                            Named(acknowledgements[i]) = c}
       IN  /\ answers' = [c \in AllSent |->
                 answers[c] + Cardinality({i \in Of(c) : leaves(i)})]
           /\ under_way' = [c \in DOMAIN under_way |->
                 under_way[c] - Cardinality({i \in Of(c) : ~leaves(i)})]
    /\ UNCHANGED <<state, pod, gave_up, acknowledged, messages, losses>>

DispatchIncomingCommands ==
    /\ Receiver!DispatchIncomingCommands
    /\ UNCHANGED <<sender, answers>>

HandleAcknowledge(c) ==
    /\ answers[c] > 0
    /\ answers' = [answers EXCEPT ![c] = @ - 1]
    /\ Sender!HandleAcknowledge(c)
    /\ UNCHANGED receiver

\* A copy is lost, or an acknowledgement.
Lose(c) ==
    /\ \/ OnWire(c) > 0 /\ UNCHANGED answers
       \/ answers[c] > 0 /\ answers' = [answers EXCEPT ![c] = @ - 1]
    /\ Sender!Lose(c)
    /\ UNCHANGED receiver

Next ==
    \/ SenderStep
    \/ \E c \in AllSent : Arrive(c) \/ HandleAcknowledge(c) \/ Lose(c)
    \/ SendAcknowledgements
    \/ DispatchIncomingCommands

Spec == Init /\ [][Next]_linkVars

-----------------------------------------------------------------------------
(* Fairness.  Both applications call Host::Service as long as they live,   *)
(* and as long as something is on its way, something arrives.              *)

TimelyPoll == Sender!TimelyPoll /\ UNCHANGED <<receiver, answers>>

Fairness ==
    /\ WF_linkVars(TimelyPoll)
    /\ WF_linkVars(\E c \in AllSent : Arrive(c))
    /\ WF_linkVars(\E c \in AllSent : HandleAcknowledge(c))
    /\ WF_linkVars(SendAcknowledgements)
    /\ WF_linkVars(DispatchIncomingCommands)

FairSpec == Spec /\ Fairness

-----------------------------------------------------------------------------
(* Properties.                                                             *)

\* The messages of a sequence of commands of a channel.
MessagesOf(ch, commands) ==
    {command.payload[1].msg : command \in
        {commands[i] : i \in {j \in DOMAIN commands : commands[j].channel = ch}}}

\* The messages of a channel that the other end has.
Kept == [ch \in CHANNELS |->
            MessagesOf(ch, handed[ch]) \cup MessagesOf(ch, channels[ch].commands)]

HandedOver == [ch \in CHANNELS |-> Len(handed[ch])]

Received == [ch \in CHANNELS |-> MessagesOf(ch, delivered)]

\* The messages of a channel that the sender has forgotten, or may forget.
Confirmed == [ch \in CHANNELS |->
                 {c.serial : c \in {d \in acknowledged : d.channel = ch}}]

Delivery == INSTANCE ReliableDelivery WITH
    sent <- messages, kept <- Kept, handed <- HandedOver, received <- Received,
    acknowledged <- Confirmed

\* The two halves with the network between them do what RELIABLE promises:
\* whatever is lost, repeated or overtaken, a message enters the channel of
\* the other end once, leaves it in its turn and at once when its turn has
\* come, is given to the application once at most, and the sender forgets
\* only what the other end has kept.
ImplementsDelivery == Delivery!Spec

\* As long as nothing is lost, every message that is sent reaches the
\* application in the end, in whatever order copies arrive, unless the
\* receiver dies on a command that was overtaken.
EventuallyReceived ==
    \A ch \in CHANNELS : \A n \in 1..MAX_MESSAGES :
        messages[ch] >= n ~>
            n \in MessagesOf(ch, delivered) \/ ~alive \/ losses > 0

\* A message that was sent is in the hands of one end at least: the sender
\* has it in a list and will send it again, or the receiver has kept it.
NothingLost ==
    \A ch \in CHANNELS : \A n \in 1..messages[ch] :
        \/ Sent(ch, n) \in ToSet(pod.outgoing) \cup ToSet(pod.sent)
        \/ n \in Kept[ch]

-----------------------------------------------------------------------------
(* What one would expect of the code and does not hold; README.md names    *)
(* for each an instance that refutes it.                                   *)

\* A number on its way that has not been handed over is one the receiver
\* takes: the windows that say how far ahead the sender may run keep it
\* within the windows the receiver accepts.
AcceptedOnArrival ==
    \A c \in AllSent :
        (OnWire(c) > 0 /\ c.serial > channels[c.channel].incoming) =>
            ~Receiver!OutsideWindow(channels[c.channel], c.serial)

\* Every message reaches the application in the end, in spite of losses,
\* unless the receiver dies.
EventuallyReceivedAnyway ==
    \A ch \in CHANNELS : \A n \in 1..MAX_MESSAGES :
        messages[ch] >= n ~> n \in MessagesOf(ch, delivered) \/ ~alive
=============================================================================
