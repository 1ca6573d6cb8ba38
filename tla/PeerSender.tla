----------------------------- MODULE PeerSender -----------------------------
(***************************************************************************)
(* The sending path of one connected rudp::Peer: the application queues    *)
(* messages, every Host::Service times out what was sent, loads what is    *)
(* queued into the datagram and sends it, and the acknowledgements that    *)
(* come back take commands off the sent list.  The application may ask for *)
(* a graceful disconnect, which waits until nothing is left to send.       *)
(*                                                                         *)
(* The other end and the network are reduced to `under_way`: how many      *)
(* copies of a command, or of its acknowledgement, are on their way.  Each *)
(* copy is answered by one acknowledgement or lost, in any order.          *)
(***************************************************************************)
EXTENDS CommandPod

CONSTANTS
    Messages,           \* what may be sent: sequences of fragment lengths
    IN_TRANSIT_LIMITS,  \* max(throttled window size, MTU), as it varies
    ROOMS,              \* how many commands the chamber may have room for
    TimeoutsMayBeEarly, \* may an answer be slower than the timeout?
    MayGiveUp,          \* may a command exceed its timeout limit?
    MAX_MESSAGES,       \* bound on the messages of a channel
    MAX_PINGS,          \* bound on the pings
    MAX_COPIES,         \* bound on the copies in the two lists
    MAX_LOSSES          \* bound on the copies that are lost

ASSUME SenderAssumption ==
    /\ Messages \subseteq Seq(Nat)
    /\ IN_TRANSIT_LIMITS \subseteq 0..(DATA_MODULUS - 1)
    /\ \A m \in Messages : \A i \in DOMAIN m :
          \A limit \in IN_TRANSIT_LIMITS : m[i] <= limit
    /\ ROOMS \subseteq Nat /\ ROOMS \ {0} # {}
    /\ {TimeoutsMayBeEarly, MayGiveUp} \subseteq BOOLEAN
    /\ {MAX_MESSAGES, MAX_PINGS, MAX_COPIES, MAX_LOSSES} \subseteq Nat

VARIABLES
    state,         \* the peer's RUdpPeerState
    pod,           \* see module CommandPod
    gave_up,       \* Timeout() has returned true, and would again
    under_way,     \* copies sent and neither answered nor lost, per command
    acknowledged,  \* history: the commands whose acknowledgement was handled
    messages,      \* messages queued so far, per channel (bounds the runs)
    losses         \* copies lost so far (bounds the runs)

vars == <<state, pod, gave_up, under_way, acknowledged, messages, losses>>

Init ==
    /\ state = "CONNECTED"
    /\ pod = EmptyPod
    /\ gave_up = FALSE
    /\ under_way = <<>>
    /\ acknowledged = {}
    /\ messages = [ch \in CHANNELS |-> 0]
    /\ losses = 0

Copies(c) == IF c \in DOMAIN under_way THEN under_way[c] ELSE 0

-----------------------------------------------------------------------------
\* Peer::Send refuses a peer that is not CONNECTED.
Send(ch, lengths) ==
    /\ state = "CONNECTED"
    /\ messages[ch] < MAX_MESSAGES
    /\ messages' = [messages EXCEPT ![ch] = @ + 1]
    /\ pod' = QueueMessage(pod, ch, lengths)
    /\ UNCHANGED <<state, gave_up, under_way, acknowledged, losses>>

\* The positions of the sent list whose timeout may have passed.
Expirable ==
    {i \in DOMAIN pod.sent : TimeoutsMayBeEarly \/ Copies(pod.sent[i]) = 0}

\* The bound on the lists keeps copies from expiring, and nothing else.
HasRoomFor(expired) ==
    expired # {} =>
        Len(pod.sent) + Len(pod.outgoing) + Cardinality(expired) <= MAX_COPIES

\* What the datagram carries: the copies that joined the sent list.
Loaded(before, after) == SubSeq(after.sent, Len(before.sent) + 1, Len(after.sent))

Transmitted(copies) ==
    [c \in DOMAIN under_way \cup ToSet(copies) |->
        Copies(c) + Cardinality({i \in DOMAIN copies : copies[i] = c})]

\* Peer::Ping queues nothing unless the peer is CONNECTED.
Ping(before) ==
    IF state = "CONNECTED" /\ before.numbers[NO_CHANNEL] < MAX_PINGS
    THEN SetupOutgoingCommand(before, NO_CHANNEL, 0)
    ELSE before

\* PeerPod::SendOutgoingCommands, for one peer and one datagram: timeouts,
\* then the reliable commands, then a ping if there is nothing else and its
\* interval has passed.
SendOutgoingCommands(expired, rooms) ==
    LET timed    == Timeout(pod, expired)
        Loads(p) == LoadReliableCommands(p, IN_TRANSIT_LIMITS, rooms)
    IN  /\ state # "DISCONNECTED"
        /\ ~gave_up
        /\ MayExpire(pod, expired)
        /\ HasRoomFor(expired)
        /\ \E loaded \in Loads(timed) :
              \E after \in {loaded} \cup
                    (IF loaded.sent = <<>> THEN Loads(Ping(loaded)) ELSE {}) :
                 /\ pod' = after
                 /\ under_way' = Transmitted(Loaded(timed, after))
        /\ UNCHANGED <<state, gave_up, acknowledged, messages, losses>>

\* A command has exceeded its limit.  Timeout() returns true when it comes to
\* that command, after it moved the expired ones before it, and nothing is
\* loaded.  No state is changed: the call that would tell the application
\* that the peer is disconnected is still to be written.
GiveUp(expired, p) ==
    /\ MayGiveUp
    /\ state # "DISCONNECTED"
    /\ ~gave_up
    /\ expired \cup {p} \subseteq Expirable
    /\ MayExpire(pod, expired \cup {p})
    /\ \A i \in expired : i < p
    /\ HasRoomFor(expired)
    /\ pod' = Timeout(pod, expired)
    /\ gave_up' = TRUE
    /\ UNCHANGED <<state, under_way, acknowledged, messages, losses>>

\* PeerPod::Disconnect queues a DISCONNECT in place of all that was queued.
Disconnected(before) ==
    SetupOutgoingCommand(ResetPeerQueues(before), NO_CHANNEL, 0)

\* Mutant of AfterAcknowledge: whether anything is left is read before the
\* command is removed.
AfterEarlyLook(removed, found) ==
    CASE state = "DISCONNECT_LATER" /\ pod.sent = <<>> /\ pod.outgoing = <<>> ->
           state' = "DISCONNECTING" /\ pod' = Disconnected(removed)
      [] state = "DISCONNECTING" /\ found ->
           state' = "DISCONNECTED" /\ pod' = Reset(removed)
      [] OTHER -> UNCHANGED state /\ pod' = removed

\* What HandleAcknowledge does of the peer's state once the command is gone.
AfterAcknowledge(removed, found) ==
    CASE state = "DISCONNECT_LATER" /\ removed.sent = <<>> /\ removed.outgoing = <<>> ->
           state' = "DISCONNECTING" /\ pod' = Disconnected(removed)
      [] state = "DISCONNECTING" /\ found ->
           state' = "DISCONNECTED" /\ pod' = Reset(removed)
      [] OTHER -> UNCHANGED state /\ pod' = removed

\* RUdpProtocol::HandleAcknowledge for a copy of c.  It clears the earliest
\* timeout first, which is what made Timeout() give up.
HandleAcknowledge(c) ==
    /\ Copies(c) > 0
    /\ under_way' = [under_way EXCEPT ![c] = @ - 1]
    /\ IF state = "DISCONNECTED"
       THEN UNCHANGED <<state, pod, gave_up, acknowledged>>
       ELSE /\ gave_up' = FALSE
            /\ acknowledged' = acknowledged \cup {c}
            /\ \/ \E p \in DOMAIN pod.sent :
                     /\ Acknowledges(pod, c.channel, Rsn(c), p)
                     /\ AfterAcknowledge(RemoveSentReliableCommand(pod, p), TRUE)
               \/ /\ ~ \E p \in DOMAIN pod.sent :
                         Acknowledges(pod, c.channel, Rsn(c), p)
                  /\ AfterAcknowledge(pod, FALSE)
    /\ UNCHANGED <<messages, losses>>

\* A copy, or the acknowledgement of it, is lost on the way.
Lose(c) ==
    /\ Copies(c) > 0
    /\ losses < MAX_LOSSES
    /\ losses' = losses + 1
    /\ under_way' = [under_way EXCEPT ![c] = @ - 1]
    /\ UNCHANGED <<state, pod, gave_up, acknowledged, messages>>

\* PeerPod::DisconnectLater, called by the application.
DisconnectLater ==
    /\ state = "CONNECTED"
    /\ IF pod.outgoing # <<>> \/ pod.sent # <<>>
       THEN state' = "DISCONNECT_LATER" /\ UNCHANGED pod
       ELSE state' = "DISCONNECTING" /\ pod' = Disconnected(pod)
    /\ UNCHANGED <<gave_up, under_way, acknowledged, messages, losses>>

Poll ==
    \E expired \in SUBSET Expirable :
        SendOutgoingCommands(expired, ROOMS)

Next ==
    \/ \E ch \in CHANNELS, lengths \in Messages : Send(ch, lengths)
    \/ Poll
    \/ \E expired \in SUBSET Expirable, p \in Expirable : GiveUp(expired, p)
    \/ \E c \in DOMAIN under_way : HandleAcknowledge(c) \/ Lose(c)
    \/ DisconnectLater

Spec == Init /\ [][Next]_vars

-----------------------------------------------------------------------------
(* Fairness.  The application calls Host::Service for as long as it lives, *)
(* so that datagrams go out again and again with room for commands, clocks *)
(* run out, and a copy that is not lost is answered in the end.            *)

TimelyPoll ==
    SendOutgoingCommands(IF HasRoomFor(Expirable) THEN Expirable ELSE {},
                         {Max(ROOMS)})

Fairness ==
    /\ WF_vars(TimelyPoll)
    /\ WF_vars(\E c \in DOMAIN under_way : HandleAcknowledge(c))

FairSpec == Spec /\ Fairness

-----------------------------------------------------------------------------
(* Properties.                                                             *)

Command == [channel : CHANNELS \cup {NO_CHANNEL}, serial : Nat, length : Nat]

\* Every variable has its type.
TypeOK ==
    /\ state \in {"CONNECTED", "DISCONNECT_LATER", "DISCONNECTING", "DISCONNECTED"}
    /\ pod.numbers \in [CHANNELS \cup {NO_CHANNEL} -> Nat]
    /\ {pod.outgoing, pod.sent} \subseteq Seq(Command)
    /\ pod.attempted \subseteq Command
    /\ pod.windows \in [CHANNELS -> [Windows -> Nat]]
    /\ pod.used \in [CHANNELS -> SUBSET Windows]
    /\ pod.transit \in 0..(DATA_MODULUS - 1)
    /\ gave_up \in BOOLEAN
    /\ DOMAIN under_way \subseteq Command
    /\ \A c \in DOMAIN under_way : under_way[c] \in Nat
    /\ acknowledged \subseteq Command
    /\ messages \in [CHANNELS -> 0..MAX_MESSAGES]
    /\ losses \in 0..MAX_LOSSES

Open == state \in {"CONNECTED", "DISCONNECT_LATER"}

Queued == ToSet(pod.outgoing) \cup ToSet(pod.sent)

\* The commands that were sent and are not known to have arrived.
Unacknowledged == {c \in pod.attempted : HasChannel(c)} \ acknowledged

\* Until the peer is disconnected every command that was given a number is
\* acknowledged or still in one of the two lists, whatever is lost or late:
\* neither a timeout, nor a full chamber, nor the acknowledgement of another
\* command makes the pod forget it.
NothingForgotten ==
    Open => \A ch \in CHANNELS : \A n \in 1..pod.numbers[ch] :
               \E c \in Queued \cup acknowledged : c.channel = ch /\ c.serial = n

\* A channel's commands go out for the first time in the order of their
\* numbers, although each pass over the list skips what a window or the
\* window size holds back and retransmissions are put in front.
FirstSentInOrder ==
    /\ \A c \in pod.attempted : \A d \in ToSet(pod.outgoing) \ pod.attempted :
          c.channel = d.channel => c.serial < d.serial
    /\ \A i, j \in DOMAIN pod.outgoing :
          LET c == pod.outgoing[i]
              d == pod.outgoing[j]
          IN  (i < j /\ c.channel = d.channel /\ {c, d} \cap pod.attempted = {}) =>
                  c.serial < d.serial

\* Two commands of a channel that are unacknowledged at the same time are no
\* more than PEER_RELIABLE_WINDOWS - PEER_FREE_RELIABLE_WINDOWS windows apart:
\* what the receiver's QueueAcknowledgement and window checks rely on to tell
\* a late number from a new one after the uint16_t wraps.
NumbersStayApart ==
    \A c, d \in Unacknowledged :
        c.channel = d.channel =>
            Window(c.serial) - Window(d.serial) <=
                PEER_RELIABLE_WINDOWS - PEER_FREE_RELIABLE_WINDOWS

\* A window that holds unacknowledged commands is marked as used.
UsedWindowsAreMarked ==
    Open => \A c \in Unacknowledged : Window(Rsn(c)) \in pod.used[c.channel]

\* What a number of copies of each command carry together.
Payload(copies) == SumFunction([c \in DOMAIN copies |-> copies[c] * c.length])

\* The payload under way never exceeds the largest window size.
WithinWindowSize == Payload(under_way) <= Max(IN_TRANSIT_LIMITS)

IsAcknowledged(ch, n) ==
    \E c \in acknowledged : c.channel = ch /\ c.serial = n

\* Every command that is queued is acknowledged in the end, as long as the
\* application does not disconnect the peer.
EventuallyAcknowledged ==
    \A ch \in CHANNELS : \A n \in 1..(MAX_MESSAGES * Max({Len(m) : m \in Messages})) :
        pod.numbers[ch] >= n ~> IsAcknowledged(ch, n) \/ ~Open

\* A graceful disconnect comes to its end.
GracefulDisconnectEnds ==
    (state = "DISCONNECT_LATER") ~> (state = "DISCONNECTED")

-----------------------------------------------------------------------------
(* What one would expect of the code and does not hold; README.md names    *)
(* for each an instance that refutes it.                                   *)

\* A step that sends a command again sends one that is not acknowledged.
OnlyUnacknowledgedIsResent ==
    [][\A c \in DOMAIN under_way' :
          (HasChannel(c) /\ under_way'[c] > Copies(c)) => c \notin acknowledged]_vars

\* A peer whose commands have exceeded their timeout limit is disconnected.
GivenUpIsDisconnected == gave_up => ~Open
=============================================================================
