------------------------- MODULE ReliableLinkProofs -------------------------
(***************************************************************************)
(* Proofs about ReliableLink: its steps are steps of ReliableDelivery, and *)
(* no message is lost between its two ends.                                *)
(*                                                                         *)
(* The two halves are taken with what is proved of them, so that nothing   *)
(* is said here of lists and windows: S is PeerSenderProofs and R is       *)
(* PeerReceiverProofs, under the substitutions of Sender and Receiver.     *)
(***************************************************************************)
EXTENDS ReliableLink, FiniteSetTheorems, TLAPS

S == INSTANCE PeerSenderProofs WITH
    Messages <- {<<LENGTH>>}, MayGiveUp <- FALSE, MAX_PINGS <- 0

R == INSTANCE PeerReceiverProofs WITH
    state <- "CONNECTED", Commands <- {Wire(c) : c \in AllSent},
    MayDisconnectLater <- FALSE, arrivals <- 0, MAX_ARRIVALS <- 0

-----------------------------------------------------------------------------
(* The assumptions of the two modules hold of the instances.               *)

SenderConstants ==
    /\ {<<LENGTH>>} \subseteq Seq(Nat)
    /\ IN_TRANSIT_LIMITS \subseteq 0..(DATA_MODULUS - 1)
    /\ \A m \in {<<LENGTH>>} : \A i \in DOMAIN m :
          \A limit \in IN_TRANSIT_LIMITS : m[i] <= limit
    /\ {TimeoutsMayBeEarly, FALSE} \subseteq BOOLEAN
    /\ {MAX_MESSAGES, 0, MAX_COPIES, MAX_LOSSES} \subseteq Nat

ReceiverConstants ==
    /\ R!IsFiniteSet(CHANNELS)
    /\ {Wire(c) : c \in AllSent} \subseteq R!Command
    /\ \A c \in {Wire(d) : d \in AllSent} :
          /\ c.rsn = c.start + c.number
          /\ c.kind = "SEND_RELIABLE" => c.count = 0 /\ c.number = 0
          /\ c.kind = "SEND_FRAGMENT" => c.count >= 2 /\ c.number < c.count

LEMMA SenderConstantsHold == SenderConstants
<1>1. PICK m : m = <<LENGTH>>
  OBVIOUS
<1>2. m \in Seq(Nat) /\ DOMAIN m = {1} /\ m[1] = LENGTH
  BY <1>1, LinkAssumption
<1>3. /\ {m} \subseteq Seq(Nat)
      /\ \A n \in {m} : \A i \in DOMAIN n :
            \A limit \in IN_TRANSIT_LIMITS : n[i] <= limit
  BY <1>2, LinkAssumption
<1> QED BY <1>1, <1>3, LinkAssumption DEF SenderConstants

LEMMA ReceiverConstantsHold == ReceiverConstants
<1>1. R!IsFiniteSet(CHANNELS)
  BY LinkAssumption, Zenon DEF R!IsFiniteSet, IsFiniteSet
<1> QED BY <1>1, LinkAssumption DEF ReceiverConstants, R!Command, Wire, AllSent, Sent

\* A command and what arrives of it.
LEMMA SentFacts ==
    ASSUME NEW c \in AllSent
    PROVE  /\ c.channel \in CHANNELS /\ c.serial \in 1..MAX_MESSAGES
           /\ c = Sent(c.channel, c.serial)
           /\ Wire(c) \in {Wire(d) : d \in AllSent}
           /\ Wire(c).channel = c.channel /\ Wire(c).start = c.serial
           /\ Wire(c).rsn = c.serial /\ Wire(c).kind = "SEND_RELIABLE"
           /\ Wire(c).msg = c.serial /\ Wire(c).number = 0
BY DEF AllSent, Sent, Wire

LEMMA SameSend == \A ch, l : Sender!Send(ch, l) <=> S!Send(ch, l)
BY DEF Sender!Send, S!Send, Sender!QueueMessage, S!QueueMessage, Sender!Fragments, S!Fragments

LEMMA SameLose == \A c : Sender!Lose(c) <=> S!Lose(c)
BY DEF Sender!Lose, S!Lose, Sender!Copies, S!Copies

LEMMA SameDispatch == Receiver!DispatchIncomingCommands <=> R!DispatchIncomingCommands
BY DEF Receiver!DispatchIncomingCommands, R!DispatchIncomingCommands, Receiver!Released, R!Released

LEMMA SameTimeout == \A p, e : Sender!Timeout(p, e) = S!Timeout(p, e)
BY DEF Sender!Timeout, S!Timeout, Sender!Expirations, S!Expirations, Sender!Expire, S!Expire, Sender!Minus, S!Minus

LEMMA SameWalks == \A p, l, r : Sender!Walks(p, l, r) = S!Walks(p, l, r)
BY DEF Sender!Walks, S!Walks, Sender!Starts, S!Starts, Sender!Start, S!Start, Sender!LoadNext, S!LoadNext, Sender!LoadOne, S!LoadOne, Sender!PutOnWire, S!PutOnWire, Sender!Plus, S!Plus, Sender!CountInWindow, S!CountInWindow, Sender!HasChannel, S!HasChannel, Sender!HasPayload, S!HasPayload, Sender!Window, S!Window, Sender!Rsn, S!Rsn, Sender!WindowWraps, S!WindowWraps, Sender!WindowExceeds, S!WindowExceeds, Sender!FreeWindows, S!FreeWindows, Sender!SEQUENCE_NUMBERS, S!SEQUENCE_NUMBERS

LEMMA SameLoad == \A p, l, r : Sender!LoadReliableCommands(p, l, r) = S!LoadReliableCommands(p, l, r)
BY SameWalks DEF Sender!LoadReliableCommands, S!LoadReliableCommands

LEMMA SameTransmitted == \A p, q : Sender!Transmitted(Sender!Loaded(p, q)) = S!Transmitted(S!Loaded(p, q))
BY DEF Sender!Transmitted, S!Transmitted, Sender!Loaded, S!Loaded, Sender!Copies, S!Copies, Sender!ToSet, S!ToSet, Sender!Cardinality, S!Cardinality

LEMMA SamePing == \A p : Sender!Ping(p) = S!Ping(p)
BY DEF Sender!Ping, S!Ping, Sender!SetupOutgoingCommand, S!SetupOutgoingCommand

LEMMA SameRoom == \A e : Sender!HasRoomFor(e) <=> S!HasRoomFor(e)
BY DEF Sender!HasRoomFor, S!HasRoomFor, Sender!Cardinality, S!Cardinality

LEMMA SameSending == \A e, r : Sender!SendOutgoingCommands(e, r) <=> S!SendOutgoingCommands(e, r)
BY SameTimeout, SameLoad, SameTransmitted, SamePing, SameRoom DEF Sender!SendOutgoingCommands, S!SendOutgoingCommands, Sender!MayExpire, S!MayExpire

LEMMA SamePoll == Sender!Poll <=> S!Poll
BY SameSending DEF Sender!Poll, S!Poll, Sender!Expirable, S!Expirable, Sender!Copies, S!Copies

LEMMA SameAck == \A c : Sender!HandleAcknowledge(c) <=> S!HandleAcknowledge(c)
BY ZenonT(30) DEF Sender!HandleAcknowledge, S!HandleAcknowledge, Sender!Copies, S!Copies, Sender!Acknowledges, S!Acknowledges, Sender!AfterAcknowledge, S!AfterAcknowledge, Sender!RemoveSentReliableCommand, S!RemoveSentReliableCommand, Sender!UncountInWindow, S!UncountInWindow, Sender!Rsn, S!Rsn, Sender!Window, S!Window, Sender!SEQUENCE_NUMBERS, S!SEQUENCE_NUMBERS, Sender!HasChannel, S!HasChannel, Sender!HasPayload, S!HasPayload, Sender!Minus, S!Minus, Sender!Disconnected, S!Disconnected, Sender!ResetPeerQueues, S!ResetPeerQueues, Sender!Reset, S!Reset, Sender!SetupOutgoingCommand, S!SetupOutgoingCommand, Sender!RemoveAt, S!RemoveAt, Sender!EmptyPod, S!EmptyPod, Sender!Windows, S!Windows

LEMMA SameReliable == \A c : Receiver!ReceiveReliable(c) <=> R!ReceiveReliable(c)
BY SMTT(30) DEF Receiver!ReceiveReliable, R!ReceiveReliable, Receiver!DiscardReliable, R!DiscardReliable, Receiver!QueueReliable, R!QueueReliable, Receiver!CrashOnReliable, R!CrashOnReliable, Receiver!Receives, R!Receives, Receiver!PeerDiscards, R!PeerDiscards, Receiver!Unwanted, R!Unwanted, Receiver!OutsideWindow, R!OutsideWindow, Receiver!WindowFrom, R!WindowFrom, Receiver!Window, R!Window, Receiver!WalkEndsAt, R!WalkEndsAt, Receiver!StopsAt, R!StopsAt, Receiver!DispatchIncomingReliableCommands, R!DispatchIncomingReliableCommands, Receiver!HandsOver, R!HandsOver, Receiver!Ready, R!Ready, Receiver!Complete, R!Complete, Receiver!LastNumber, R!LastNumber, Receiver!SEQUENCE_NUMBERS, R!SEQUENCE_NUMBERS, Receiver!AfterHandOver, R!AfterHandOver, Receiver!NewCommands, R!NewCommands, Receiver!QueueAcknowledgement, R!QueueAcknowledgement, Receiver!StaysSilent, R!StaysSilent, Receiver!GoesAfter, R!GoesAfter, Receiver!Inserted, R!Inserted, Receiver!NewIncomingCommand, R!NewIncomingCommand, Receiver!Part, R!Part, Receiver!Dies, R!Dies, Receiver!WalkCrashes, R!WalkCrashes, Receiver!WalkLeavesList, R!WalkLeavesList, Receiver!InsertAt, R!InsertAt, Receiver!Cardinality, R!Cardinality

LEMMA SameAnswers == Receiver!SendAcknowledgements <=> R!SendAcknowledgements
BY DEF Receiver!SendAcknowledgements, R!SendAcknowledgements

-----------------------------------------------------------------------------
(* The sender's steps.                                                     *)

\* The sender's half of the invariant.
SenderLinked ==
    /\ S!Inv /\ S!NothingForgotten
    /\ state = "CONNECTED"
    /\ \A ch \in CHANNELS : pod.numbers[ch] = messages[ch]
    /\ \A c \in S!Queued : c.channel \in CHANNELS => c.length = LENGTH

LEMMA SenderTyped ==
    ASSUME SenderLinked
    PROVE  /\ messages \in [CHANNELS -> 0..MAX_MESSAGES]
           /\ acknowledged \subseteq S!Command
           /\ under_way \in [DOMAIN under_way -> Nat]
           /\ \A c \in DOMAIN under_way :
                 c.channel \in CHANNELS => c.serial \in Nat /\ c.serial <= messages[c.channel]
           /\ S!TellApart
<1>1. /\ messages \in [CHANNELS -> 0..MAX_MESSAGES] /\ acknowledged \subseteq S!Command
      /\ under_way \in [DOMAIN under_way -> Nat] /\ DOMAIN under_way \subseteq S!Command
  BY DEF SenderLinked, S!Inv, S!Typed
<1>2. DOMAIN under_way \subseteq pod.attempted /\ S!WithinNumbers(pod)
  BY DEF SenderLinked, S!Inv, S!UnderWayIsAttempted, S!Open
<1>3. \A c \in DOMAIN under_way : c.serial \in Nat /\ c.serial <= pod.numbers[c.channel]
  BY <1>1, <1>2 DEF S!WithinNumbers, S!Command
<1>4. S!FirstLap
  <2>1. \A ch \in CHANNELS : pod.numbers[ch] \in 0..MAX_MESSAGES
    BY <1>1 DEF SenderLinked
  <2> QED BY <2>1, LinkAssumption DEF S!FirstLap, S!SEQUENCE_NUMBERS
<1>5. S!TellApart
  BY <1>4, S!FirstLapTellsApart, LinkAssumption, SenderConstantsHold DEF SenderConstants, SenderLinked
<1> QED BY <1>1, <1>3, <1>5 DEF SenderLinked

\* What PeerSenderProofs says of any step.
LEMMA SenderKeeps ==
    ASSUME SenderLinked, S!Next
    PROVE  S!Inv' /\ S!NothingForgotten'
<1>1. S!Inv /\ S!NothingForgotten /\ S!TellApart
  BY SenderTyped DEF SenderLinked
<1>2. S!Inv'
  BY <1>1, S!InvNext, LinkAssumption, SenderConstantsHold DEF SenderConstants
<1>3. S!NothingForgotten'
  BY <1>1, S!NothingForgottenNext, LinkAssumption, SenderConstantsHold DEF SenderConstants
<1> QED BY <1>2, <1>3

LEMMA LinkInitSender == Sender!Init => SenderLinked
<1> SUFFICES ASSUME Sender!Init PROVE SenderLinked
  OBVIOUS
<1>1. S!Init
  BY DEF Sender!Init, S!Init, Sender!EmptyPod, S!EmptyPod, Sender!Windows, S!Windows
<1>2. S!Inv /\ S!NothingForgotten
  BY <1>1, S!InvInit, S!NothingForgottenInit, LinkAssumption, SenderConstantsHold DEF SenderConstants
<1>3. \A ch \in CHANNELS : pod.numbers[ch] = messages[ch]
  BY <1>1 DEF S!Init, S!EmptyPod
<1>4. S!Queued = {}
  BY <1>1 DEF S!Init, S!EmptyPod, S!Queued, S!ToSet
<1> QED BY <1>1, <1>2, <1>3, <1>4 DEF SenderLinked, S!Init

LEMMA LinkSend ==
    ASSUME SenderLinked, NEW ch \in CHANNELS, Sender!Send(ch, <<LENGTH>>)
    PROVE  /\ SenderLinked'
           /\ messages[ch] < MAX_MESSAGES
           /\ messages' = [messages EXCEPT ![ch] = @ + 1]
           /\ UNCHANGED <<acknowledged, under_way>>
<1>1. S!Send(ch, <<LENGTH>>)
  BY SameSend
<1>2. /\ messages' = [messages EXCEPT ![ch] = @ + 1]
      /\ pod.numbers \in [S!Numbered -> Nat]
      /\ pod'.numbers = [pod.numbers EXCEPT ![ch] = @ + 1]
      /\ \A c \in S!Queued' : c \in S!Queued \/ c.length = LENGTH
      /\ UNCHANGED <<state, gave_up, under_way, acknowledged, losses>>
  BY <1>1, S!SendOne, LinkAssumption, SenderConstantsHold DEF SenderConstants, SenderLinked
<1>3. S!Inv' /\ S!NothingForgotten'
  BY <1>1, SenderKeeps DEF S!Next
<1>4. messages[ch] < MAX_MESSAGES
  BY <1>1 DEF S!Send
<1>5. \A id \in CHANNELS : pod'.numbers[id] = messages'[id]
  BY <1>2, SenderTyped DEF SenderLinked, S!Numbered
<1> QED BY <1>2, <1>3, <1>4, <1>5 DEF SenderLinked

LEMMA LinkPoll ==
    ASSUME SenderLinked, Sender!Poll
    PROVE  /\ SenderLinked'
           /\ UNCHANGED <<messages, acknowledged>>
           /\ DOMAIN under_way \subseteq DOMAIN under_way'
           /\ \A c \in DOMAIN under_way : /\ under_way[c] \in Nat /\ under_way'[c] \in Nat
                                          /\ under_way'[c] >= under_way[c]
<1>1. S!Poll
  BY SamePoll
<1>2. /\ S!Keeps(pod, pod')
      /\ UNCHANGED <<state, gave_up, acknowledged, messages, losses>>
  BY <1>1, S!PollEffect, LinkAssumption, SenderConstantsHold DEF SenderConstants, SenderLinked
<1>3. S!Inv' /\ S!NothingForgotten'
  BY <1>1, SenderKeeps DEF S!Next
<1>4. \A c \in S!Queued' : c.channel \in CHANNELS => c \in S!Queued
  BY <1>2, LinkAssumption DEF S!Keeps, S!Queued, S!HasChannel
<1>5. /\ DOMAIN under_way \subseteq DOMAIN under_way'
      /\ \A c \in DOMAIN under_way : /\ under_way[c] \in Nat /\ under_way'[c] \in Nat
                                     /\ under_way'[c] >= under_way[c]
  BY <1>1, S!PollCopies, LinkAssumption, SenderConstantsHold DEF SenderConstants, SenderLinked
<1> QED BY <1>2, <1>3, <1>4, <1>5 DEF SenderLinked, S!Keeps

LEMMA LinkAcknowledge ==
    ASSUME SenderLinked, NEW c \in DOMAIN under_way, Sender!HandleAcknowledge(c)
    PROVE  /\ SenderLinked'
           /\ acknowledged' = acknowledged \cup {c}
           /\ under_way' = [under_way EXCEPT ![c] = @ - 1]
           /\ UNCHANGED messages
<1>1. S!HandleAcknowledge(c)
  BY SameAck
<1>2. /\ state' = "CONNECTED" /\ acknowledged' = acknowledged \cup {c}
      /\ S!Queued' \subseteq S!Queued
      /\ under_way' = [under_way EXCEPT ![c] = @ - 1]
      /\ UNCHANGED <<messages, losses>>
  BY <1>1, S!ConnectedAcknowledge, LinkAssumption, SenderConstantsHold
     DEF SenderConstants, SenderLinked
<1>3. S!Open' => pod'.numbers = pod.numbers
  BY <1>1, S!AcknowledgeEffect, LinkAssumption, SenderConstantsHold
     DEF SenderConstants, SenderLinked
<1>4. S!Inv' /\ S!NothingForgotten'
  BY <1>1, SenderKeeps DEF S!Next
<1>5. pod'.numbers = pod.numbers
  BY <1>2, <1>3 DEF S!Open
<1> QED BY <1>2, <1>4, <1>5 DEF SenderLinked

LEMMA LinkLose ==
    ASSUME SenderLinked, NEW c \in DOMAIN under_way, Sender!Lose(c)
    PROVE  /\ SenderLinked'
           /\ under_way' = [under_way EXCEPT ![c] = @ - 1]
           /\ UNCHANGED <<messages, acknowledged>>
<1>1. S!Lose(c)
  BY SameLose
<1>2. S!Inv' /\ S!NothingForgotten'
  BY <1>1, SenderKeeps DEF S!Next
<1>3. /\ under_way' = [under_way EXCEPT ![c] = @ - 1]
      /\ UNCHANGED <<state, pod, messages, acknowledged>>
  BY <1>1 DEF S!Lose
<1> QED BY <1>2, <1>3 DEF SenderLinked, S!Queued

LEMMA LinkCopiesGo ==
    ASSUME SenderLinked, under_way' \in [DOMAIN under_way -> Nat],
           UNCHANGED <<state, pod, gave_up, acknowledged, messages, losses>>
    PROVE  SenderLinked'
<1>1. S!Inv' /\ (S!NothingForgotten => S!NothingForgotten')
  BY S!CopiesMayGo, LinkAssumption, SenderConstantsHold DEF SenderConstants, SenderLinked
<1> QED BY <1>1 DEF SenderLinked, S!Queued

-----------------------------------------------------------------------------
(* The receiver's steps.                                                   *)

\* Few enough messages for the windows to tell a late number from one ahead:
\* numbers of the first ten windows with the code's constants.
FewMessages ==
    MAX_MESSAGES \div PEER_RELIABLE_WINDOW_SIZE + PEER_FREE_RELIABLE_WINDOWS - 1
      <= PEER_RELIABLE_WINDOWS

LEMMA DivMonotone ==
    ASSUME NEW s \in Nat \ {0}, NEW m \in Nat, NEW n \in Nat, m <= n
    PROVE  m \div s <= n \div s /\ m \div s \in Nat /\ n \div s \in Nat
<1>1. /\ m \div s \in Nat /\ n \div s \in Nat
      /\ m % s \in 0..(s - 1) /\ n % s \in 0..(s - 1)
      /\ m = (s * (m \div s)) + (m % s) /\ n = (s * (n \div s)) + (n % s)
  OBVIOUS
<1>2. ASSUME NEW a \in Nat, NEW b \in Nat, NEW x \in 0..(s - 1), NEW y \in 0..(s - 1),
             s * a + x <= s * b + y, a >= b + 1
      PROVE  FALSE
  <2>1. s * a >= s * (b + 1) /\ s * (b + 1) = s * b + s
    BY <1>2
  <2> QED BY <1>2, <2>1
<1> QED BY <1>1, <1>2

\* The numbers are those of one lap, of messages of one command each.
LEMMA OneLapHolds == ASSUME FewMessages PROVE R!OneLap /\ R!WholeMessages
<1> USE DEF R!LastOf
<1>1. ASSUME NEW c \in AllSent, NEW d \in AllSent
      PROVE  /\ R!LastOf(Wire(d)) = d.serial
             /\ Wire(c).start < R!LastOf(Wire(d)) =>
                  R!Window(Wire(c).start) + PEER_RELIABLE_WINDOWS >=
                    R!Window(R!LastOf(Wire(d))) + PEER_FREE_RELIABLE_WINDOWS - 1
  <2>1. R!LastOf(Wire(d)) = d.serial /\ Wire(c).start = c.serial
    BY DEF Wire
  <2>2. c.serial \in Nat /\ d.serial \in Nat /\ d.serial <= MAX_MESSAGES /\ MAX_MESSAGES \in Nat
    BY SentFacts, LinkAssumption
  <2>3. /\ d.serial \div PEER_RELIABLE_WINDOW_SIZE <= MAX_MESSAGES \div PEER_RELIABLE_WINDOW_SIZE
        /\ c.serial \div PEER_RELIABLE_WINDOW_SIZE \in Nat
        /\ d.serial \div PEER_RELIABLE_WINDOW_SIZE \in Nat
        /\ MAX_MESSAGES \div PEER_RELIABLE_WINDOW_SIZE \in Nat
    BY <2>2, DivMonotone, LinkAssumption
  <2> QED BY <2>1, <2>3, LinkAssumption DEF FewMessages, R!Window
<1>2. R!NoAliasing({Wire(c) : c \in AllSent})
  BY <1>1 DEF R!NoAliasing
<1>3. R!FirstLap({Wire(c) : c \in AllSent})
  <2>1. ASSUME NEW c \in AllSent
        PROVE  Wire(c).start >= 1 /\ R!LastOf(Wire(c)) < R!SEQUENCE_NUMBERS
    BY <1>1, SentFacts, LinkAssumption DEF R!SEQUENCE_NUMBERS
  <2>2. ASSUME NEW c \in AllSent, NEW d \in AllSent
        PROVE  \/ Wire(c).start = Wire(d).start /\ Wire(c).count = Wire(d).count
               \/ R!LastOf(Wire(c)) < Wire(d).start
               \/ R!LastOf(Wire(d)) < Wire(c).start
    <3>1. Wire(c).start = c.serial /\ Wire(d).start = d.serial /\ Wire(c).count = Wire(d).count
      BY DEF Wire
    <3>2. c.serial \in Int /\ d.serial \in Int
      BY SentFacts, LinkAssumption
    <3> QED BY <1>1, <3>1, <3>2
  <2> QED BY <2>1, <2>2 DEF R!FirstLap
<1>4. R!WholeMessages
  BY DEF R!WholeMessages, R!Part, Wire
<1> QED BY <1>2, <1>3, <1>4 DEF R!OneLap

\* The receiver's half of the invariant.
ReceiverLinked == R!Inv /\ R!Labels /\ R!Once /\ R!AcknowledgedIsHeld

\* What the receiver's steps do to what it holds.
Holds(ch, n) == \E q \in R!Held(ch) : q.rsn = n

LEMMA LinkInitReceiver == Receiver!Init => ReceiverLinked
<1> SUFFICES ASSUME Receiver!Init PROVE ReceiverLinked
  OBVIOUS
<1>1. R!Init
  BY DEF Receiver!Init, R!Init, Receiver!EmptyChannel, R!EmptyChannel
<1>2. R!Inv /\ R!Labels /\ R!Once
  BY <1>1, R!InitKeeps, R!WholeInit, LinkAssumption, ReceiverConstantsHold DEF ReceiverConstants
<1>3. R!AcknowledgedIsHeld
  BY <1>1 DEF R!Init, R!AcknowledgedIsHeld, R!ToSet
<1> QED BY <1>2, <1>3 DEF ReceiverLinked

LEMMA LinkReceiverRests ==
    ASSUME FewMessages, ReceiverLinked, UNCHANGED receiver
    PROVE  ReceiverLinked' /\ \A ch \in CHANNELS : R!Held(ch)' = R!Held(ch)
<1>1. UNCHANGED R!vars
  BY DEF receiver, R!vars, R!peerVars, R!history
<1>2. R!OneLap /\ R!WholeMessages
  BY OneLapHolds
<1>3. [R!Next]_R!vars /\ [R!ConsideredOnArrival]_R!vars
  BY <1>1
<1>4. R!Inv'
  BY <1>2, <1>3, R!NextKeeps, LinkAssumption, ReceiverConstantsHold
     DEF ReceiverConstants, ReceiverLinked
<1>5. R!Labels' /\ R!Once'
  BY <1>2, <1>3, R!WholeNext, LinkAssumption, ReceiverConstantsHold
     DEF ReceiverConstants, ReceiverLinked
<1>6. R!AcknowledgedIsHeld'
  BY <1>2, <1>3, R!AcknowledgedNext, LinkAssumption, ReceiverConstantsHold
     DEF ReceiverConstants, ReceiverLinked
<1>7. \A ch \in CHANNELS : R!Held(ch)' = R!Held(ch)
  BY DEF receiver, R!Held
<1> QED BY <1>4, <1>5, <1>6, <1>7 DEF ReceiverLinked

LEMMA LinkDispatch ==
    ASSUME FewMessages, ReceiverLinked, Receiver!DispatchIncomingCommands
    PROVE  /\ ReceiverLinked'
           /\ UNCHANGED <<channels, acknowledgements, handed, confirmed>>
           /\ \/ UNCHANGED delivered
              \/ \E q \in R!ToSet(dispatched_commands) :
                    /\ R!ToSet(delivered') = R!ToSet(delivered) \cup {q}
                    /\ \A r \in R!ToSet(delivered) : ~R!Same(q, r)
<1>1. R!DispatchIncomingCommands
  BY SameDispatch
<1>2. /\ R!Once' /\ UNCHANGED <<channels, acknowledgements, handed, confirmed>>
      /\ \/ UNCHANGED delivered
         \/ \E q \in R!ToSet(dispatched_commands) :
               /\ R!ToSet(delivered') = R!ToSet(delivered) \cup {q}
               /\ \A r \in R!ToSet(delivered) : ~R!Same(q, r)
  BY <1>1, R!OnceDispatch, LinkAssumption, ReceiverConstantsHold
     DEF ReceiverConstants, ReceiverLinked
<1>3. R!Inv'
  BY <1>1, R!DispatchStep, LinkAssumption, ReceiverConstantsHold
     DEF ReceiverConstants, ReceiverLinked
<1>4. R!Labels' /\ R!AcknowledgedIsHeld'
  BY <1>2 DEF ReceiverLinked, R!Labels, R!Held, R!AcknowledgedIsHeld, R!HoldsNumber, R!Labelled
<1> QED BY <1>2, <1>3, <1>4 DEF ReceiverLinked

\* A command arrives: the receiver takes it, once, and answers or not.
LEMMA LinkArrive ==
    ASSUME FewMessages, ReceiverLinked, NEW c \in AllSent,
           Receiver!ReceiveReliable(Wire(c)), R!Considered(Wire(c))
    PROVE  /\ ReceiverLinked'
           /\ UNCHANGED <<delivered, confirmed>>
           /\ \/ acknowledgements' = acknowledgements
              \/ acknowledgements' =
                   Append(acknowledgements, [channel |-> c.channel, rsn |-> c.serial])
           /\ \/ \A j \in CHANNELS : R!Held(j)' = R!Held(j)
              \/ /\ R!Held(c.channel)' =
                      R!Held(c.channel) \cup {R!NewIncomingCommand(Wire(c))}
                 /\ R!NewIncomingCommand(Wire(c)).rsn = c.serial
                 /\ \A j \in CHANNELS : j # c.channel => R!Held(j)' = R!Held(j)
                 /\ \A q \in R!Held(c.channel) : q.rsn # c.serial
<1>1. R!ReceiveReliable(Wire(c))
  BY SameReliable
<1>2. /\ R!OneLap /\ R!WholeMessages
      /\ Wire(c) \in {Wire(d) : d \in AllSent}
      /\ Wire(c).channel = c.channel /\ Wire(c).start = c.serial
  BY OneLapHolds, SentFacts
<1>3. R!Bounded
  BY DEF R!Bounded
<1>4. /\ R!Inv /\ R!Labels /\ R!Once /\ R!AcknowledgedIsHeld
  BY DEF ReceiverLinked
<1>5. R!Inv'
  BY <1>1, <1>2, <1>3, <1>4, R!ReliableStep, LinkAssumption, ReceiverConstantsHold
     DEF ReceiverConstants
<1>6. R!Labels'
  BY <1>1, <1>2, <1>4, R!LabelsReliable, LinkAssumption, ReceiverConstantsHold
     DEF ReceiverConstants
<1>7. R!Once'
  BY <1>1, <1>2, <1>4, R!OnceReliable, LinkAssumption, ReceiverConstantsHold
     DEF ReceiverConstants
<1>8. R!AcknowledgedIsHeld'
  BY <1>1, <1>2, <1>4, R!AcknowledgedReliable, LinkAssumption, ReceiverConstantsHold
     DEF ReceiverConstants
<1>9. /\ UNCHANGED <<delivered, confirmed>>
      /\ \/ /\ UNCHANGED <<channels, handed>>
            /\ \/ UNCHANGED acknowledgements
               \/ R!QueueAcknowledgement(c.channel, c.serial)
         \/ /\ \E p \in 0..Len(channels[c.channel].commands) : R!Joins(Wire(c), p)
            /\ R!QueueAcknowledgement(c.channel, c.serial)
  <2>1. /\ UNCHANGED <<delivered, confirmed>>
        /\ \/ /\ UNCHANGED <<channels, handed>>
              /\ \/ UNCHANGED acknowledgements
                 \/ R!QueueAcknowledgement(Wire(c).channel, Wire(c).start)
           \/ /\ \E p \in 0..Len(channels[Wire(c).channel].commands) : R!Joins(Wire(c), p)
              /\ R!QueueAcknowledgement(Wire(c).channel, Wire(c).start)
    BY <1>1, <1>2, <1>4, R!ReliableEffect, LinkAssumption, ReceiverConstantsHold
       DEF ReceiverConstants
  <2> QED BY <1>2, <2>1
<1>10. \/ acknowledgements' = acknowledgements
       \/ acknowledgements' =
            Append(acknowledgements, [channel |-> c.channel, rsn |-> c.serial])
  BY <1>9 DEF R!QueueAcknowledgement
<1>11. ASSUME NEW p \in 0..Len(channels[c.channel].commands), R!Joins(Wire(c), p)
       PROVE  /\ R!Held(c.channel)' =
                   R!Held(c.channel) \cup {R!NewIncomingCommand(Wire(c))}
              /\ R!NewIncomingCommand(Wire(c)).rsn = c.serial
              /\ \A j \in CHANNELS : j # c.channel => R!Held(j)' = R!Held(j)
              /\ \A q \in R!Held(c.channel) : q.rsn # c.serial
  BY <1>2, <1>4, <1>11, R!JoinEffect, LinkAssumption, ReceiverConstantsHold
     DEF ReceiverConstants
<1>12. CASE UNCHANGED <<channels, handed>>
  <2>1. \A j \in CHANNELS : R!Held(j)' = R!Held(j)
    BY <1>12 DEF R!Held
  <2> QED BY <1>5, <1>6, <1>7, <1>8, <1>9, <1>10, <2>1 DEF ReceiverLinked
<1> QED BY <1>5, <1>6, <1>7, <1>8, <1>9, <1>10, <1>11, <1>12 DEF ReceiverLinked

LEMMA LinkAnswer ==
    ASSUME FewMessages, ReceiverLinked, Receiver!SendAcknowledgements
    PROVE  /\ ReceiverLinked'
           /\ acknowledgements' = <<>>
           /\ UNCHANGED <<channels, handed, delivered>>
<1>1. R!SendAcknowledgements
  BY SameAnswers
<1>2. acknowledgements' = <<>> /\ UNCHANGED <<channels, handed, delivered, dispatched_commands>>
  BY <1>1 DEF R!SendAcknowledgements
<1>3. R!Inv'
  BY <1>1, R!SendStep, LinkAssumption, ReceiverConstantsHold
     DEF ReceiverConstants, ReceiverLinked
<1>4. R!AcknowledgedIsHeld'
  BY <1>1, R!AcknowledgedSend, LinkAssumption, ReceiverConstantsHold
     DEF ReceiverConstants, ReceiverLinked
<1>5. R!Labels' /\ R!Once'
  BY <1>2 DEF ReceiverLinked, R!Labels, R!Held, R!Labelled, R!Once, R!DeliveredOnce, R!Distinct,
              R!Apart
<1> QED BY <1>2, <1>3, <1>4, <1>5 DEF ReceiverLinked

-----------------------------------------------------------------------------
(* How many copies are on their way.                                       *)

\* The places at which a command is to be acknowledged.
Places(c) == {i \in DOMAIN acknowledgements : Named(acknowledgements[i]) = c}

LEMMA PlacesAreFinite ==
    ASSUME ReceiverLinked, NEW c
    PROVE  /\ acknowledgements \in Seq(R!Acknowledgement)
           /\ IsFiniteSet(Places(c)) /\ Pending(c) = Cardinality(Places(c)) /\ Pending(c) \in Nat
<1>1. acknowledgements \in Seq(R!Acknowledgement)
  BY DEF ReceiverLinked, R!Inv, R!TypeOK
<1>2. Places(c) \subseteq 1..Len(acknowledgements) /\ Len(acknowledgements) \in Nat
  BY <1>1 DEF Places
<1>3. IsFiniteSet(Places(c))
  <2>1. IsFiniteSet(1..Len(acknowledgements))
    BY <1>2, FS_Interval
  <2> QED BY <1>2, <2>1, FS_Subset
<1>4. Pending(c) = Cardinality(Places(c))
  BY DEF Pending, Places
<1> QED BY <1>1, <1>3, <1>4, FS_CardinalityType

\* One more acknowledgement is pending.
LEMMA PendingGrows ==
    ASSUME ReceiverLinked, NEW c \in AllSent, NEW d,
           acknowledgements' =
             Append(acknowledgements, [channel |-> c.channel, rsn |-> c.serial])
    PROVE  Pending(d)' = Pending(d) + (IF d = c THEN 1 ELSE 0)
<1> DEFINE n == Len(acknowledgements)
           a == [channel |-> c.channel, rsn |-> c.serial]
<1>1. acknowledgements \in Seq(R!Acknowledgement) /\ n \in Nat
  BY PlacesAreFinite
<1>2. PICK b \in R!Acknowledgement : b = a
  BY SentFacts, LinkAssumption DEF R!Acknowledgement
<1>3. PICK acks : acks = acknowledgements'
  OBVIOUS
<1>4. /\ DOMAIN acks = 1..(n + 1) /\ acks[n + 1] = b
      /\ \A i \in 1..n : acks[i] = acknowledgements[i]
  BY <1>1, <1>2, <1>3
<1>5. Named(b) = c
  BY <1>2, SentFacts DEF Named
<1> DEFINE K == {i \in DOMAIN acks : Named(acks[i]) = d}
<1>6. (d = c => K = Places(d) \cup {n + 1}) /\ (d # c => K = Places(d))
  BY <1>1, <1>4, <1>5 DEF Places
<1>7. n + 1 \notin Places(d)
  BY <1>1 DEF Places
<1>8. IsFiniteSet(Places(d)) /\ Pending(d) = Cardinality(Places(d)) /\ Pending(d) \in Nat
  BY PlacesAreFinite
<1> HIDE DEF K
<1>9. Cardinality(K) = Pending(d) + (IF d = c THEN 1 ELSE 0)
  <2>1. CASE d = c
    <3>1. Cardinality(Places(d) \cup {n + 1}) = Cardinality(Places(d)) + 1
      BY <1>7, <1>8, FS_AddElement
    <3> QED BY <1>6, <1>8, <2>1, <3>1
  <2>2. CASE d # c
    BY <1>6, <1>8, <2>2
  <2> QED BY <2>1, <2>2
<1>10. Pending(d)' = Cardinality({i \in DOMAIN acknowledgements' : Named(acknowledgements'[i]) = d})
  BY DEF Pending, Named
<1> QED BY <1>3, <1>9, <1>10 DEF K

\* What leaves and what is forgotten are together what was pending.
LEMMA PendingSplits ==
    ASSUME ReceiverLinked, NEW c, NEW A, NEW B, A \cup B = Places(c), A \cap B = {}
    PROVE  /\ Cardinality(A) \in Nat /\ Cardinality(B) \in Nat
           /\ Pending(c) = Cardinality(A) + Cardinality(B)
           /\ Cardinality(A) > 0 => A # {}
<1>1. IsFiniteSet(Places(c)) /\ Pending(c) = Cardinality(Places(c))
  BY PlacesAreFinite
<1>2. A \subseteq Places(c) /\ B \subseteq Places(c)
  OBVIOUS
<1>3. IsFiniteSet(A) /\ IsFiniteSet(B)
  BY <1>1, <1>2, FS_Subset
<1>4. Cardinality(A) \in Nat /\ Cardinality(B) \in Nat
  BY <1>3, FS_CardinalityType
<1>5. Cardinality(A \cup B) = Cardinality(A) + Cardinality(B) - Cardinality(A \cap B)
  BY <1>3, FS_Union
<1>6. Cardinality(A \cap B) = 0 /\ (A = {} => Cardinality(A) = 0)
  BY FS_EmptySet
<1>7. Cardinality(A \cup B) = Pending(c) /\ Cardinality(A \cap B) = 0
  BY <1>1, <1>6
<1>8. PICK m, n, k \in Nat : m = Cardinality(A) /\ n = Cardinality(B) /\ k = 0
  BY <1>4
<1>9. Pending(c) = m + n
  BY <1>5, <1>7, <1>8
<1> QED BY <1>6, <1>8, <1>9

-----------------------------------------------------------------------------
(* The invariant of the link.                                              *)

HoldsWhatWasSent ==
    \A ch \in CHANNELS : \A q \in R!Held(ch) : q.rsn <= messages[ch]

\* The sender learns, or will learn, only of what the receiver holds.
AnsweredIsHeld ==
    /\ acknowledged \subseteq AllSent
    /\ \A c \in AllSent :
          (c \in acknowledged \/ answers[c] > 0) => Holds(c.channel, c.serial)

\* Every acknowledgement that was sent or is pending answers a copy.
Accounted ==
    /\ answers \in [AllSent -> Nat]
    /\ \A c \in AllSent : S!Copies(c) >= answers[c] + Pending(c)

Linked ==
    /\ SenderLinked /\ ReceiverLinked
    /\ HoldsWhatWasSent /\ AnsweredIsHeld /\ Accounted

LEMMA SameCopies == \A c : Sender!Copies(c) = S!Copies(c)
BY DEF Sender!Copies, S!Copies

LEMMA CopiesTyped ==
    ASSUME SenderLinked, NEW c
    PROVE  /\ S!Copies(c) \in Nat
           /\ S!Copies(c) > 0 => c \in DOMAIN under_way
           /\ c \in DOMAIN under_way => S!Copies(c) = under_way[c]
BY SenderTyped DEF S!Copies

LEMMA OneCopyLess ==
    ASSUME SenderLinked, NEW c, S!Copies(c) > 0,
           under_way' = [under_way EXCEPT ![c] = @ - 1]
    PROVE  /\ under_way' \in [DOMAIN under_way -> Nat]
           /\ \A d : S!Copies(d)' = S!Copies(d) - (IF d = c THEN 1 ELSE 0)
<1>1. PICK f : f = under_way /\ f \in [DOMAIN f -> Nat]
  BY SenderTyped
<1>2. c \in DOMAIN f /\ f[c] > 0
  BY <1>1, CopiesTyped
<1>3. PICK g : g = [f EXCEPT ![c] = @ - 1]
  OBVIOUS
<1>4. g \in [DOMAIN f -> Nat] /\ DOMAIN g = DOMAIN f
  BY <1>1, <1>2, <1>3
<1>5. \A d \in DOMAIN f : g[d] = f[d] - (IF d = c THEN 1 ELSE 0)
  BY <1>1, <1>2, <1>3
<1>6. under_way' = g
  BY <1>1, <1>3
<1>7. ASSUME NEW d PROVE S!Copies(d)' = S!Copies(d) - (IF d = c THEN 1 ELSE 0)
  <2>1. S!Copies(d)' = (IF d \in DOMAIN g THEN g[d] ELSE 0)
    BY <1>6 DEF S!Copies
  <2>2. S!Copies(d) = (IF d \in DOMAIN f THEN f[d] ELSE 0)
    BY <1>1 DEF S!Copies
  <2>3. CASE d \in DOMAIN f
    BY <1>4, <1>5, <2>1, <2>2, <2>3
  <2>4. CASE d \notin DOMAIN f
    BY <1>2, <1>4, <2>1, <2>2, <2>4
  <2> QED BY <2>3, <2>4
<1> QED BY <1>1, <1>4, <1>6, <1>7

\* What is held is numbered as it was sent.
LEMMA HeldNumbers ==
    ASSUME FewMessages, ReceiverLinked, NEW ch \in CHANNELS, NEW q \in R!Held(ch)
    PROVE  /\ q.rsn \in 1..MAX_MESSAGES /\ q.channel = ch
           /\ q.payload[1].msg = q.rsn
           /\ R!Labelled(ch, q)
<1>1. R!Labelled(ch, q)
  BY DEF ReceiverLinked, R!Labels
<1>2. PICK c \in AllSent : Wire(c).channel = ch /\ q = R!NewIncomingCommand(Wire(c))
  BY <1>1 DEF R!Labelled
<1>3. /\ q.channel = ch /\ q.rsn = Wire(c).start /\ q.payload = <<R!Part(Wire(c))>>
  BY <1>2 DEF R!NewIncomingCommand
<1>4. q.payload[1].msg = Wire(c).msg
  BY <1>3 DEF R!Part
<1> QED BY <1>1, <1>3, <1>4, SentFacts

LEMMA StillHeld ==
    ASSUME \A ch \in CHANNELS : R!Held(ch) \subseteq R!Held(ch)', NEW c \in AllSent,
           Holds(c.channel, c.serial)
    PROVE  Holds(c.channel, c.serial)'
BY SentFacts DEF Holds

LEMMA LinkInit == Init => Linked
<1> SUFFICES ASSUME Init PROVE Linked
  OBVIOUS
<1>1. SenderLinked /\ ReceiverLinked
  BY LinkInitSender, LinkInitReceiver DEF Init
<1>2. answers = [c \in AllSent |-> 0]
  BY DEF Init
<1>3. \A ch \in CHANNELS : R!Held(ch) = {}
  BY DEF Init, Receiver!Init, R!Held, R!ToSet, Receiver!EmptyChannel
<1>4. acknowledged = {} /\ acknowledgements = <<>>
  BY DEF Init, Sender!Init, Receiver!Init
<1>5. ASSUME NEW c \in AllSent PROVE S!Copies(c) >= answers[c] + Pending(c)
  <2>1. Places(c) = {}
    BY <1>4 DEF Places
  <2>2. Pending(c) = 0
    BY <1>1, <2>1, PlacesAreFinite, FS_EmptySet
  <2> QED BY <1>1, <1>2, <2>2, CopiesTyped
<1> QED BY <1>1, <1>2, <1>3, <1>4, <1>5
        DEF Linked, HoldsWhatWasSent, AnsweredIsHeld, Accounted

\* A step of the sender that takes nothing off the wire.
LEMMA LinkSenderStep ==
    ASSUME FewMessages, Linked, SenderStep
    PROVE  Linked'
<1>1. UNCHANGED <<receiver, answers>> /\ SenderLinked /\ ReceiverLinked
  BY DEF SenderStep, Linked
<1>2. ReceiverLinked' /\ \A ch \in CHANNELS : R!Held(ch)' = R!Held(ch)
  BY <1>1, LinkReceiverRests
<1>3. \A c : Pending(c)' = Pending(c)
  BY <1>1 DEF receiver, Pending, Named
<1>4. /\ SenderLinked' /\ UNCHANGED acknowledged
      /\ \A ch \in CHANNELS : messages'[ch] >= messages[ch] /\ messages[ch] \in Nat
                              /\ messages'[ch] \in Nat
      /\ \A c : S!Copies(c)' >= S!Copies(c) /\ S!Copies(c)' \in Nat
  <2>1. ASSUME NEW id \in CHANNELS, Sender!Send(id, <<LENGTH>>)
        PROVE  /\ SenderLinked' /\ UNCHANGED <<acknowledged, under_way>>
               /\ messages' = [messages EXCEPT ![id] = @ + 1]
    BY <1>1, <2>1, LinkSend
  <2>2. ASSUME NEW id \in CHANNELS, Sender!Send(id, <<LENGTH>>)
        PROVE  /\ \A ch \in CHANNELS : messages'[ch] >= messages[ch] /\ messages[ch] \in Nat
                                       /\ messages'[ch] \in Nat
               /\ \A c : S!Copies(c)' >= S!Copies(c) /\ S!Copies(c)' \in Nat
    <3>1. \A c : S!Copies(c)' = S!Copies(c)
      BY <2>1, <2>2 DEF S!Copies
    <3> QED BY <1>1, <2>1, <2>2, <3>1, CopiesTyped, SenderTyped
  <2>3. CASE Sender!Poll
    <3>1. /\ SenderLinked'
          /\ UNCHANGED <<messages, acknowledged>>
          /\ DOMAIN under_way \subseteq DOMAIN under_way'
          /\ \A c \in DOMAIN under_way : /\ under_way[c] \in Nat /\ under_way'[c] \in Nat
                                         /\ under_way'[c] >= under_way[c]
      BY <1>1, <2>3, LinkPoll
    <3>2. under_way' \in [DOMAIN under_way' -> Nat]
      BY <3>1 DEF SenderLinked, S!Inv, S!Typed
    <3>3. ASSUME NEW c PROVE S!Copies(c)' >= S!Copies(c) /\ S!Copies(c)' \in Nat
      BY <3>1, <3>2 DEF S!Copies
    <3> QED BY <1>1, <3>1, <3>3, SenderTyped
  <2> QED BY <2>1, <2>2, <2>3 DEF SenderStep
<1>5. HoldsWhatWasSent'
  <2>1. ASSUME NEW ch \in CHANNELS, NEW q \in R!Held(ch) PROVE q.rsn <= messages'[ch]
    BY <1>1, <1>4, HeldNumbers, LinkAssumption DEF Linked, HoldsWhatWasSent
  <2> QED BY <1>2, <2>1 DEF HoldsWhatWasSent
<1>6. AnsweredIsHeld'
  BY <1>1, <1>2, <1>4, StillHeld DEF Linked, AnsweredIsHeld
<1>7. Accounted'
  <2>1. ASSUME NEW c \in AllSent PROVE S!Copies(c)' >= answers[c] + Pending(c)
    <3>1. S!Copies(c) >= answers[c] + Pending(c) /\ answers[c] \in Nat /\ Pending(c) \in Nat
      BY <1>1, PlacesAreFinite DEF Linked, Accounted
    <3>2. S!Copies(c) \in Nat
      BY <1>1, CopiesTyped
    <3> QED BY <1>4, <3>1, <3>2
  <2> QED BY <1>1, <1>3, <2>1 DEF Linked, Accounted
<1> QED BY <1>2, <1>4, <1>5, <1>6, <1>7 DEF Linked

\* A copy arrives.
LEMMA LinkArriveStep ==
    ASSUME FewMessages, Linked, NEW c \in AllSent, Arrive(c), R!Considered(Wire(c))
    PROVE  Linked'
<1>1. /\ SenderLinked /\ ReceiverLinked
      /\ UNCHANGED <<state, pod, gave_up, acknowledged, messages, losses, answers>>
      /\ Receiver!ReceiveReliable(Wire(c))
  BY DEF Linked, Arrive
<1>2. /\ ReceiverLinked'
      /\ UNCHANGED <<delivered, confirmed>>
      /\ \/ acknowledgements' = acknowledgements
         \/ acknowledgements' =
              Append(acknowledgements, [channel |-> c.channel, rsn |-> c.serial])
      /\ \/ \A j \in CHANNELS : R!Held(j)' = R!Held(j)
         \/ /\ R!Held(c.channel)' =
                 R!Held(c.channel) \cup {R!NewIncomingCommand(Wire(c))}
            /\ R!NewIncomingCommand(Wire(c)).rsn = c.serial
            /\ \A j \in CHANNELS : j # c.channel => R!Held(j)' = R!Held(j)
  BY <1>1, LinkArrive
<1>3. /\ S!Copies(c) > answers[c] + Pending(c)
      /\ S!Copies(c) \in Nat /\ answers[c] \in Nat /\ Pending(c) \in Nat
  BY <1>1, SameCopies, CopiesTyped, PlacesAreFinite DEF Linked, Accounted, Arrive, OnWire
<1> S!Copies(c) > 0
  BY <1>3
<1>4. c.serial <= messages[c.channel]
  BY <1>1, <1>3, CopiesTyped, SenderTyped, SentFacts
<1>5. \/ /\ under_way' = [under_way EXCEPT ![c] = @ - 1]
         /\ acknowledgements' = acknowledgements
      \/ under_way' = under_way /\ acknowledgements' # acknowledgements
  BY DEF Arrive
<1>6. under_way' \in [DOMAIN under_way -> Nat]
  BY <1>1, <1>3, <1>5, OneCopyLess, SenderTyped
<1>7. SenderLinked'
  BY <1>1, <1>6, LinkCopiesGo
<1>8. HoldsWhatWasSent'
  BY <1>1, <1>2, <1>4 DEF Linked, HoldsWhatWasSent
<1>9. AnsweredIsHeld'
  <2>1. \A j \in CHANNELS : R!Held(j) \subseteq R!Held(j)'
    BY <1>2
  <2> QED BY <1>1, <2>1, StillHeld DEF Linked, AnsweredIsHeld
<1>10. ASSUME NEW d \in AllSent PROVE S!Copies(d)' >= answers[d] + Pending(d)'
  <2>1. /\ S!Copies(d) >= answers[d] + Pending(d)
        /\ S!Copies(d) \in Nat /\ answers[d] \in Nat /\ Pending(d) \in Nat
    BY <1>1, CopiesTyped, PlacesAreFinite DEF Linked, Accounted
  <2>2. CASE /\ under_way' = [under_way EXCEPT ![c] = @ - 1]
             /\ acknowledgements' = acknowledgements
    <3>1. S!Copies(d)' = S!Copies(d) - (IF d = c THEN 1 ELSE 0)
      BY <1>1, <1>3, <2>2, OneCopyLess
    <3>2. Pending(d)' = Pending(d)
      BY <2>2 DEF Pending, Named
    <3> QED BY <1>3, <2>1, <3>1, <3>2
  <2>3. CASE under_way' = under_way /\ acknowledgements' # acknowledgements
    <3>1. S!Copies(d)' = S!Copies(d)
      BY <2>3 DEF S!Copies
    <3>2. Pending(d)' = Pending(d) + (IF d = c THEN 1 ELSE 0)
      BY <1>1, <1>2, <2>3, PendingGrows
    <3> QED BY <1>3, <2>1, <3>1, <3>2
  <2> QED BY <1>5, <2>2, <2>3
<1>11. Accounted'
  BY <1>1, <1>10 DEF Linked, Accounted
<1> QED BY <1>2, <1>7, <1>8, <1>9, <1>11 DEF Linked

\* Acknowledgements leave, or are forgotten.
LEMMA LinkAnswerStep ==
    ASSUME FewMessages, Linked, SendAcknowledgements
    PROVE  Linked'
<1> DEFINE Leaves(i) == i % (PROTOCOL_MAXIMUM_SEGMENT_COMMANDS + 1) # 0
           Leave(c) == {i \in Places(c) : Leaves(i)}
           Stay(c) == {i \in Places(c) : ~Leaves(i)}
<1>1. /\ SenderLinked /\ ReceiverLinked
      /\ UNCHANGED <<state, pod, gave_up, acknowledged, messages, losses>>
  BY DEF Linked, SendAcknowledgements
<1>2. /\ ReceiverLinked' /\ acknowledgements' = <<>>
      /\ UNCHANGED <<channels, handed, delivered>>
  BY <1>1, LinkAnswer DEF SendAcknowledgements
<1>3. \A j \in CHANNELS : R!Held(j)' = R!Held(j)
  BY <1>2 DEF R!Held
<1>4. ASSUME NEW c
      PROVE  /\ Cardinality(Leave(c)) \in Nat /\ Cardinality(Stay(c)) \in Nat
             /\ Pending(c) = Cardinality(Leave(c)) + Cardinality(Stay(c))
             /\ Cardinality(Leave(c)) > 0 => \E i \in Places(c) : TRUE
  <2>0. Leave(c) # {} => \E i \in Places(c) : TRUE
    OBVIOUS
  <2>1. Leave(c) \cup Stay(c) = Places(c) /\ Leave(c) \cap Stay(c) = {}
    OBVIOUS
  <2> HIDE DEF Leave, Stay
  <2> QED BY <1>1, <2>0, <2>1, PendingSplits
<1>5. /\ answers' = [c \in AllSent |-> answers[c] + Cardinality(Leave(c))]
      /\ under_way' = [c \in DOMAIN under_way |-> under_way[c] - Cardinality(Stay(c))]
  <2>1. \A c : /\ Leave(c) = {i \in {j \in DOMAIN acknowledgements :
                                       Named(acknowledgements[j]) = c} : Leaves(i)}
               /\ Stay(c) = {i \in {j \in DOMAIN acknowledgements :
                                       Named(acknowledgements[j]) = c} : ~Leaves(i)}
    BY DEF Places
  <2> HIDE DEF Leave, Stay
  <2> QED BY <2>1 DEF SendAcknowledgements
<1> HIDE DEF Leave, Stay
\* Only what was sent is acknowledged.
<1>6. ASSUME NEW i \in DOMAIN acknowledgements
      PROVE  LET c == Named(acknowledgements[i])
             IN  c \in AllSent /\ Holds(c.channel, c.serial)
  <2>1. PICK a : a = acknowledgements[i]
    OBVIOUS
  <2>2. a \in R!ToSet(acknowledgements)
    BY <2>1 DEF R!ToSet
  <2>3. a.channel \in CHANNELS /\ R!HoldsNumber(a.channel, a.rsn)
    BY <1>1, <2>2 DEF ReceiverLinked, R!AcknowledgedIsHeld
  <2>4. PICK q \in R!Held(a.channel) : q.rsn = a.rsn
    BY <2>3 DEF R!HoldsNumber
  <2>5. a.rsn \in 1..MAX_MESSAGES
    BY <1>1, <2>3, <2>4, HeldNumbers
  <2>6. Named(a) = Sent(a.channel, a.rsn)
    BY DEF Named
  <2> QED BY <2>1, <2>3, <2>4, <2>5, <2>6 DEF AllSent, Holds, Sent
<1>7. ASSUME NEW c \in DOMAIN under_way
      PROVE  under_way[c] - Cardinality(Stay(c)) \in Nat
  <2>1. under_way[c] \in Nat /\ S!Copies(c) = under_way[c]
    BY <1>1, SenderTyped, CopiesTyped
  <2>2. CASE c \in AllSent
    <3>1. S!Copies(c) >= answers[c] + Pending(c) /\ answers[c] \in Nat
      BY <2>2 DEF Linked, Accounted
    <3> QED BY <1>4, <2>1, <3>1
  <2>3. CASE c \notin AllSent
    <3>1. Places(c) = {}
      BY <1>6, <2>3 DEF Places
    <3>2. Pending(c) = 0
      BY <1>1, <3>1, PlacesAreFinite, FS_EmptySet
    <3>3. Cardinality(Stay(c)) = 0
      BY <1>4, <3>2
    <3> QED BY <2>1, <3>3
  <2> QED BY <2>2, <2>3
<1>8. under_way' \in [DOMAIN under_way -> Nat]
  BY <1>5, <1>7
<1>9. SenderLinked'
  BY <1>1, <1>8, LinkCopiesGo
<1>10. HoldsWhatWasSent'
  BY <1>1, <1>3 DEF Linked, HoldsWhatWasSent
<1>11. AnsweredIsHeld'
  <2>1. ASSUME NEW c \in AllSent, c \in acknowledged \/ answers'[c] > 0
        PROVE  Holds(c.channel, c.serial)
    <3>1. answers'[c] = answers[c] + Cardinality(Leave(c)) /\ answers[c] \in Nat
      BY <1>5 DEF Linked, Accounted
    <3>2. CASE c \in acknowledged \/ answers[c] > 0
      BY <3>2 DEF Linked, AnsweredIsHeld
    <3>3. CASE Cardinality(Leave(c)) > 0
      <4>1. PICK i \in Places(c) : TRUE
        BY <1>4, <3>3
      <4> QED BY <1>6, <4>1 DEF Places
    <3> QED BY <1>4, <2>1, <3>1, <3>2, <3>3
  <2> QED BY <1>1, <1>3, <2>1, StillHeld DEF Linked, AnsweredIsHeld
<1>12. Accounted'
  <2>1. ASSUME NEW c \in AllSent
        PROVE  /\ answers'[c] \in Nat /\ S!Copies(c)' >= answers'[c] + Pending(c)'
    <3>1. /\ answers'[c] = answers[c] + Cardinality(Leave(c)) /\ answers[c] \in Nat
          /\ S!Copies(c) >= answers[c] + Pending(c)
      BY <1>5 DEF Linked, Accounted
    <3>2. Places(c)' = {}
      BY <1>2 DEF Places
    <3>3. Pending(c)' = 0
      <4>1. Pending(c)' = Cardinality(Places(c)')
        BY DEF Pending, Places, Named
      <4> QED BY <3>2, <4>1, FS_EmptySet
    <3>4. S!Copies(c)' = S!Copies(c) - (IF c \in DOMAIN under_way THEN Cardinality(Stay(c)) ELSE 0)
      BY <1>5, CopiesTyped, <1>1 DEF S!Copies
    <3>5. c \notin DOMAIN under_way => S!Copies(c) = 0
      BY DEF S!Copies
    <3> QED BY <1>1, <1>4, <3>1, <3>3, <3>4, <3>5, CopiesTyped
  <2>2. answers' \in [AllSent -> Nat]
    BY <1>5, <2>1
  <2> QED BY <2>1, <2>2 DEF Accounted
<1> QED BY <1>2, <1>9, <1>10, <1>11, <1>12 DEF Linked

LEMMA LinkDispatchStep ==
    ASSUME FewMessages, Linked, DispatchIncomingCommands
    PROVE  Linked'
<1>1. /\ SenderLinked /\ ReceiverLinked /\ UNCHANGED <<sender, answers>>
      /\ Receiver!DispatchIncomingCommands
  BY DEF Linked, DispatchIncomingCommands
<1>2. ReceiverLinked' /\ UNCHANGED <<channels, acknowledgements, handed, confirmed>>
  BY <1>1, LinkDispatch
<1>3. /\ \A j \in CHANNELS : R!Held(j)' = R!Held(j)
      /\ \A c : Pending(c)' = Pending(c) /\ S!Copies(c)' = S!Copies(c)
  BY <1>1, <1>2 DEF R!Held, Pending, Named, sender, S!Copies
<1>4. UNCHANGED <<state, pod, gave_up, under_way, acknowledged, messages, losses>>
  BY <1>1 DEF sender
<1>5. SenderLinked'
  <2>1. under_way' \in [DOMAIN under_way -> Nat]
    BY <1>1, <1>4, SenderTyped
  <2> QED BY <1>1, <1>4, <2>1, LinkCopiesGo
<1>6. HoldsWhatWasSent'
  BY <1>3, <1>4 DEF Linked, HoldsWhatWasSent
<1>7. AnsweredIsHeld'
  BY <1>1, <1>3, <1>4, StillHeld DEF Linked, AnsweredIsHeld
<1>8. Accounted'
  BY <1>1, <1>3 DEF Linked, Accounted
<1> QED BY <1>2, <1>5, <1>6, <1>7, <1>8 DEF Linked

\* A copy, or its acknowledgement, is on its way no more.
LEMMA LinkTakenOff ==
    ASSUME FewMessages, Linked, SenderLinked', UNCHANGED <<receiver, messages>>,
           NEW c \in AllSent, under_way' = [under_way EXCEPT ![c] = @ - 1],
           acknowledged' \subseteq acknowledged \cup {c},
           \/ /\ answers[c] > 0 /\ answers' = [answers EXCEPT ![c] = @ - 1]
           \/ /\ OnWire(c) > 0 /\ UNCHANGED answers /\ UNCHANGED acknowledged
    PROVE  Linked'
<1>1. /\ SenderLinked /\ ReceiverLinked /\ answers \in [AllSent -> Nat]
      /\ acknowledged \subseteq AllSent
  BY DEF Linked, Accounted, AnsweredIsHeld
<1>2. /\ ReceiverLinked' /\ \A j \in CHANNELS : R!Held(j)' = R!Held(j)
  BY <1>1, LinkReceiverRests
<1>3. \A d : Pending(d)' = Pending(d)
  BY DEF receiver, Pending, Named
<1>4. \A d \in AllSent : /\ S!Copies(d) \in Nat /\ answers[d] \in Nat /\ Pending(d) \in Nat
                         /\ S!Copies(d) >= answers[d] + Pending(d)
  BY <1>1, CopiesTyped, PlacesAreFinite DEF Linked, Accounted
<1>5. OnWire(c) > 0 => S!Copies(c) > answers[c] + Pending(c)
  BY <1>4, SameCopies DEF OnWire
<1>6. S!Copies(c) > 0
  BY <1>4, <1>5
<1>7. \A d : S!Copies(d)' = S!Copies(d) - (IF d = c THEN 1 ELSE 0)
  BY <1>1, <1>6, OneCopyLess
<1>8. HoldsWhatWasSent'
  BY <1>2 DEF Linked, HoldsWhatWasSent
<1>9. AnsweredIsHeld'
  <2>1. acknowledged' \subseteq AllSent
    BY <1>1
  <2>2. ASSUME NEW d \in AllSent, d \in acknowledged' \/ answers'[d] > 0
        PROVE  Holds(d.channel, d.serial)
    <3>1. answers'[d] > 0 => answers[d] > 0
      BY <1>1, <1>4
    <3>2. d \in acknowledged \/ answers[d] > 0
      BY <2>2, <3>1
    <3> QED BY <3>2 DEF Linked, AnsweredIsHeld
  <2> QED BY <1>2, <2>1, <2>2, StillHeld DEF AnsweredIsHeld
<1>10. Accounted'
  <2>1. answers' \in [AllSent -> Nat]
    BY <1>1, <1>4
  <2>2. ASSUME NEW d \in AllSent PROVE S!Copies(d)' >= answers'[d] + Pending(d)'
    <3>1. S!Copies(d)' = S!Copies(d) - (IF d = c THEN 1 ELSE 0) /\ Pending(d)' = Pending(d)
      BY <1>3, <1>7
    <3>2. d # c => answers'[d] = answers[d]
      BY <1>1
    <3>3. d = c => \/ answers'[d] = answers[d] - 1
                   \/ answers'[d] = answers[d] /\ S!Copies(d) > answers[d] + Pending(d)
      BY <1>1, <1>5
    <3> QED BY <1>4, <3>1, <3>2, <3>3
  <2> QED BY <2>1, <2>2 DEF Accounted
<1> QED BY <1>2, <1>8, <1>9, <1>10 DEF Linked

LEMMA LinkLosesStep ==
    ASSUME FewMessages, Linked, NEW c \in AllSent, Lose(c)
    PROVE  Linked' /\ UNCHANGED <<messages, acknowledged, receiver>>
<1>1. SenderLinked /\ UNCHANGED receiver /\ Sender!Lose(c)
  BY DEF Linked, Lose
<1>2. c \in DOMAIN under_way
  BY <1>1, SameLose, CopiesTyped DEF S!Lose
<1>3. /\ SenderLinked' /\ under_way' = [under_way EXCEPT ![c] = @ - 1]
      /\ UNCHANGED <<messages, acknowledged>>
  BY <1>1, <1>2, LinkLose
<1>4. \/ answers[c] > 0 /\ answers' = [answers EXCEPT ![c] = @ - 1]
      \/ OnWire(c) > 0 /\ UNCHANGED answers
  BY DEF Lose
<1> QED BY <1>1, <1>3, <1>4, LinkTakenOff

LEMMA LinkLearnsStep ==
    ASSUME FewMessages, Linked, NEW c \in AllSent, HandleAcknowledge(c)
    PROVE  /\ Linked'
           /\ acknowledged' = acknowledged \cup {c} /\ UNCHANGED <<messages, receiver>>
           /\ Holds(c.channel, c.serial)
<1>1. /\ SenderLinked /\ UNCHANGED receiver /\ Sender!HandleAcknowledge(c)
      /\ answers[c] > 0 /\ answers' = [answers EXCEPT ![c] = @ - 1]
  BY DEF Linked, HandleAcknowledge
<1>2. c \in DOMAIN under_way
  BY <1>1, SameAck, CopiesTyped DEF S!HandleAcknowledge
<1>3. /\ SenderLinked' /\ under_way' = [under_way EXCEPT ![c] = @ - 1]
      /\ acknowledged' = acknowledged \cup {c} /\ UNCHANGED messages
  BY <1>1, <1>2, LinkAcknowledge
<1>4. Holds(c.channel, c.serial)
  BY <1>1 DEF Linked, AnsweredIsHeld
<1> QED BY <1>1, <1>3, <1>4, LinkTakenOff

\* What arrives is taken, or refused in silence: no peer with too much waiting
\* data discards it, and no number ahead of the windows is acknowledged.
TakenOrRefusedInSilence == \A c \in AllSent : Arrive(c) => R!Considered(Wire(c))

LEMMA LinkNext ==
    ASSUME FewMessages, Linked, [Next]_linkVars, [TakenOrRefusedInSilence]_linkVars
    PROVE  Linked'
<1>1. CASE UNCHANGED linkVars
  <2>1. SenderLinked /\ ReceiverLinked /\ UNCHANGED <<receiver, sender, answers>>
    BY <1>1 DEF Linked, linkVars
  <2>2. ReceiverLinked' /\ \A j \in CHANNELS : R!Held(j)' = R!Held(j)
    BY <2>1, LinkReceiverRests
  <2>3. UNCHANGED <<state, pod, gave_up, under_way, acknowledged, messages, losses>>
    BY <2>1 DEF sender
  <2>4. SenderLinked'
    <3>1. under_way' \in [DOMAIN under_way -> Nat]
      BY <2>1, <2>3, SenderTyped
    <3> QED BY <2>1, <2>3, <3>1, LinkCopiesGo
  <2>5. \A c : Pending(c)' = Pending(c) /\ S!Copies(c)' = S!Copies(c)
    BY <2>1, <2>3 DEF Pending, Named, S!Copies, receiver
  <2>6. AnsweredIsHeld'
    BY <2>1, <2>2, <2>3, StillHeld DEF Linked, AnsweredIsHeld
  <2> QED BY <2>1, <2>2, <2>3, <2>4, <2>5, <2>6
          DEF Linked, HoldsWhatWasSent, Accounted
<1>2. CASE Next /\ TakenOrRefusedInSilence
  <2>1. ASSUME NEW c \in AllSent, Arrive(c) PROVE Linked'
    BY <1>2, <2>1, LinkArriveStep DEF TakenOrRefusedInSilence
  <2> QED BY <1>2, <2>1, LinkSenderStep, LinkLearnsStep, LinkLosesStep, LinkAnswerStep,
             LinkDispatchStep DEF Next
<1>3. CASE Next /\ ~TakenOrRefusedInSilence
  BY <1>1, <1>3
<1> QED BY <1>1, <1>2, <1>3


-----------------------------------------------------------------------------
(* The refinement mapping, read off the invariant.                         *)

\* The application was given a message.
Took(ch, n) == \E q \in R!ToSet(delivered) : q.channel = ch /\ q.rsn = n

\* What the mapping makes of a state: the numbers the receiver holds, the
\* numbers the application was given, and the numbers the sender was told of.
Readable ==
    /\ Kept = [ch \in CHANNELS |-> Kept[ch]]
    /\ HandedOver = [ch \in CHANNELS |-> HandedOver[ch]]
    /\ Received = [ch \in CHANNELS |-> Received[ch]]
    /\ Confirmed = [ch \in CHANNELS |-> Confirmed[ch]]
    /\ \A ch \in CHANNELS :
          /\ HandedOver[ch] \in Nat
          /\ \A n : /\ n \in Kept[ch] <=> Holds(ch, n)
                    /\ n \in Received[ch] <=> Took(ch, n)
                    /\ n \in Confirmed[ch] <=> Sent(ch, n) \in acknowledged
          /\ Delivery!Turn(Kept[ch], HandedOver[ch])

LEMMA MessagesFound ==
    \A ch, s, n : n \in MessagesOf(ch, s) <=>
                    \E q \in R!ToSet(s) : q.channel = ch /\ q.payload[1].msg = n
BY DEF MessagesOf, R!ToSet

LEMMA SmallRemainder ==
    ASSUME NEW s \in Nat, NEW n \in Nat, n < s
    PROVE  n % s = n
OBVIOUS

\* All numbers up to the length of the log are held, and the next one is not:
\* it would be complete and first in the list, and its turn would have come.
LEMMA HeldInTurn ==
    ASSUME FewMessages, ReceiverLinked, NEW ch \in CHANNELS
    PROVE  /\ Len(handed[ch]) \in Nat
           /\ \A n \in 1..Len(handed[ch]) : Holds(ch, n)
           /\ ~Holds(ch, Len(handed[ch]) + 1)
<1> DEFINE n == Len(handed[ch])
           s == channels[ch].commands
<1>1. R!OneLap /\ R!WholeMessages /\ R!Inv /\ R!Labels
  BY OneLapHolds DEF ReceiverLinked
<1>2. handed[ch] \in Seq(R!QueuedCommand) /\ channels[ch].incoming = n
  BY <1>1, R!LogIsNumbered, LinkAssumption, ReceiverConstantsHold DEF ReceiverConstants
<1>3. /\ \A q \in R!ToSet(handed[ch]) : q.rsn \in 1..n
      /\ \A i \in 1..n : \E q \in R!ToSet(handed[ch]) : q.rsn = i
      /\ \A q \in R!ToSet(s) : q.rsn \in Nat /\ q.rsn > n
  BY <1>1, R!LogIsBehind, LinkAssumption, ReceiverConstantsHold DEF ReceiverConstants
<1>4. n \in Nat
  BY <1>2
<1>5. ASSUME Holds(ch, n + 1) PROVE FALSE
  <2>1. PICK q \in R!Held(ch) : q.rsn = n + 1
    BY <1>5 DEF Holds
  <2>2. q \in R!ToSet(s)
    BY <1>3, <1>4, <2>1 DEF R!Held
  <2>3. PICK i \in DOMAIN s : s[i] = q
    BY <2>2 DEF R!ToSet
  <2>4. s \in Seq(R!QueuedCommand) /\ R!Ordered(channels[ch]) /\ ~R!Stalled(channels[ch])
    BY <1>1 DEF R!Inv, R!WellFormed, R!ChannelType
  <2>5. /\ 1 \in DOMAIN s /\ s # <<>> /\ i >= 1 /\ i \in Nat
        /\ s[1] \in R!ToSet(s)
    BY <2>3, <2>4 DEF R!ToSet
  <2>6. R!Labelled(ch, s[1])
    BY <1>1, <2>5 DEF R!Labels, R!Held
  <2>7. R!LastNumber(s[1]) = s[1].rsn /\ R!Complete(s[1]) /\ s[1].rsn \in Nat
    BY <1>1, <2>6, R!LabelledFacts, LinkAssumption, ReceiverConstantsHold DEF ReceiverConstants
  <2>8. i = 1
    <3>1. 1 < i => s[1].rsn < s[i].rsn
      BY <2>3, <2>4, <2>5, <2>7 DEF R!Ordered
    <3> QED BY <1>3, <1>4, <2>1, <2>3, <2>5, <3>1
  <2>9. n + 1 <= MAX_MESSAGES
    BY <1>1, <2>1, HeldNumbers
  <2>10. (n + 1) % R!SEQUENCE_NUMBERS = n + 1
    <3>1. R!SEQUENCE_NUMBERS \in Nat /\ n + 1 < R!SEQUENCE_NUMBERS
      BY <1>4, <2>9, LinkAssumption DEF R!SEQUENCE_NUMBERS
    <3>2. PICK m \in Nat : m = n + 1
      BY <1>4
    <3>3. m % R!SEQUENCE_NUMBERS = m
      BY <3>1, <3>2, SmallRemainder
    <3> QED BY <3>2, <3>3
  <2>11. R!Stalled(channels[ch])
    BY <1>2, <2>1, <2>3, <2>5, <2>7, <2>8, <2>10 DEF R!Stalled
  <2> QED BY <2>4, <2>11
<1> QED BY <1>3, <1>4, <1>5 DEF Holds, R!Held

LEMMA LinkedIsReadable == ASSUME FewMessages, Linked PROVE Readable
<1>1. ReceiverLinked /\ acknowledged \subseteq AllSent
  BY DEF Linked, AnsweredIsHeld
<1>2. ASSUME NEW ch \in CHANNELS, NEW n PROVE n \in Kept[ch] <=> Holds(ch, n)
  <2>1. n \in Kept[ch] <=> \E q \in R!Held(ch) : q.channel = ch /\ q.payload[1].msg = n
    BY MessagesFound DEF Kept, R!Held
  <2>2. \A q \in R!Held(ch) : q.channel = ch /\ q.payload[1].msg = q.rsn
    BY <1>1, HeldNumbers
  <2> QED BY <2>1, <2>2 DEF Holds
<1>3. ASSUME NEW ch \in CHANNELS, NEW n PROVE n \in Received[ch] <=> Took(ch, n)
  <2>1. n \in Received[ch] <=>
          \E q \in R!ToSet(delivered) : q.channel = ch /\ q.payload[1].msg = n
    BY MessagesFound DEF Received
  <2>2. ASSUME NEW q \in R!ToSet(delivered), q.channel = ch PROVE q.payload[1].msg = q.rsn
    <3>1. q \in R!Held(ch)
      BY <1>1, <2>2 DEF ReceiverLinked, R!Once, R!Held
    <3> QED BY <1>1, <3>1, HeldNumbers
  <2> QED BY <2>1, <2>2 DEF Took
<1>4. ASSUME NEW ch \in CHANNELS, NEW n
      PROVE  n \in Confirmed[ch] <=> Sent(ch, n) \in acknowledged
  <2>1. \A c \in acknowledged : c = Sent(c.channel, c.serial)
    BY <1>1, SentFacts
  <2>2. Sent(ch, n).channel = ch /\ Sent(ch, n).serial = n
    BY DEF Sent
  <2> QED BY <2>1, <2>2 DEF Confirmed
<1>5. ASSUME NEW ch \in CHANNELS
      PROVE  HandedOver[ch] \in Nat /\ Delivery!Turn(Kept[ch], HandedOver[ch])
  BY <1>1, <1>2, HeldInTurn DEF HandedOver, Delivery!Turn
<1>6. /\ Kept = [ch \in CHANNELS |-> Kept[ch]]
      /\ HandedOver = [ch \in CHANNELS |-> HandedOver[ch]]
      /\ Received = [ch \in CHANNELS |-> Received[ch]]
      /\ Confirmed = [ch \in CHANNELS |-> Confirmed[ch]]
  BY DEF Kept, HandedOver, Received, Confirmed
<1> QED BY <1>2, <1>3, <1>4, <1>5, <1>6 DEF Readable

\* There is only one number at which it is the next one's turn, and it does
\* not fall when more is kept.
LEMMA TurnGrows ==
    ASSUME NEW A, NEW B, A \subseteq B, NEW m \in Nat, NEW n \in Nat,
           Delivery!Turn(A, m), Delivery!Turn(B, n)
    PROVE  m <= n
BY DEF Delivery!Turn

LEMMA SameFunction ==
    ASSUME NEW D, NEW f, NEW g, f = [x \in D |-> f[x]], g = [x \in D |-> g[x]],
           \A x \in D : f[x] = g[x]
    PROVE  f = g
OBVIOUS

LEMMA SameHeld ==
    ASSUME Readable, Readable', \A ch \in CHANNELS : R!Held(ch)' = R!Held(ch)
    PROVE  Kept' = Kept /\ HandedOver' = HandedOver
<1>1. ASSUME NEW ch \in CHANNELS
      PROVE  Kept'[ch] = Kept[ch] /\ HandedOver'[ch] = HandedOver[ch]
  <2>1. \A n : n \in Kept'[ch] <=> n \in Kept[ch]
    BY DEF Readable, Holds
  <2>2. Kept'[ch] = Kept[ch]
    BY <2>1
  <2>3. /\ HandedOver[ch] \in Nat /\ HandedOver'[ch] \in Nat
        /\ Delivery!Turn(Kept[ch], HandedOver[ch])
        /\ Delivery!Turn(Kept[ch], HandedOver'[ch])
    BY <2>2 DEF Readable
  <2>4. HandedOver[ch] <= HandedOver'[ch] /\ HandedOver'[ch] <= HandedOver[ch]
    BY <2>3, TurnGrows
  <2> QED BY <2>2, <2>3, <2>4
<1>2. /\ Kept = [ch \in CHANNELS |-> Kept[ch]] /\ Kept' = [ch \in CHANNELS |-> Kept'[ch]]
      /\ HandedOver = [ch \in CHANNELS |-> HandedOver[ch]]
      /\ HandedOver' = [ch \in CHANNELS |-> HandedOver'[ch]]
  BY DEF Readable
<1> QED BY <1>1, <1>2, SameFunction

\* Messages that leave the log as it is leave the mapping of the receiver.
LEMMA SameGiven ==
    ASSUME UNCHANGED delivered
    PROVE  Received' = Received
BY DEF Received

LEMMA SameLearnt ==
    ASSUME UNCHANGED acknowledged
    PROVE  Confirmed' = Confirmed
BY DEF Confirmed

-----------------------------------------------------------------------------
(* Every step is a step of ReliableDelivery, or leaves its state.          *)

LEMMA SenderStepMaps ==
    ASSUME FewMessages, Linked, Readable, Readable', SenderStep
    PROVE  [Delivery!Next]_(Delivery!vars)
<1>1. UNCHANGED <<receiver, answers>> /\ SenderLinked /\ ReceiverLinked
  BY DEF SenderStep, Linked
<1>2. /\ \A j \in CHANNELS : R!Held(j)' = R!Held(j)
      /\ UNCHANGED delivered
  BY <1>1, LinkReceiverRests DEF receiver
<1>3. UNCHANGED <<Kept, HandedOver, Received>>
  BY <1>2, SameHeld, SameGiven
<1>4. ASSUME NEW ch \in CHANNELS, Sender!Send(ch, <<LENGTH>>)
      PROVE  Delivery!Send(ch)
  <2>1. messages' = [messages EXCEPT ![ch] = @ + 1] /\ UNCHANGED acknowledged
    BY <1>1, <1>4, LinkSend
  <2> QED BY <1>3, <2>1, SameLearnt DEF Delivery!Send
<1>5. CASE Sender!Poll
  <2>1. UNCHANGED <<messages, acknowledged>>
    BY <1>1, <1>5, LinkPoll
  <2> QED BY <1>3, <2>1, SameLearnt DEF Delivery!vars
<1> QED BY <1>4, <1>5 DEF SenderStep, Delivery!Next

LEMMA ArriveMaps ==
    ASSUME FewMessages, Linked, Linked', Readable, Readable',
           NEW c \in AllSent, Arrive(c), R!Considered(Wire(c))
    PROVE  [Delivery!Next]_(Delivery!vars)
<1> DEFINE ch == c.channel
           n  == c.serial
<1>1. /\ ReceiverLinked /\ Receiver!ReceiveReliable(Wire(c))
      /\ UNCHANGED <<acknowledged, messages>>
      /\ ch \in CHANNELS /\ n \in Nat /\ n >= 1
  BY SentFacts, LinkAssumption DEF Linked, Arrive
<1>2. /\ UNCHANGED delivered
      /\ \/ \A j \in CHANNELS : R!Held(j)' = R!Held(j)
         \/ /\ R!Held(ch)' = R!Held(ch) \cup {R!NewIncomingCommand(Wire(c))}
            /\ R!NewIncomingCommand(Wire(c)).rsn = n
            /\ \A j \in CHANNELS : j # ch => R!Held(j)' = R!Held(j)
            /\ \A q \in R!Held(ch) : q.rsn # n
  BY <1>1, LinkArrive
<1>3. UNCHANGED <<messages, Received, Confirmed>>
  BY <1>1, <1>2, SameGiven, SameLearnt
<1>4. CASE \A j \in CHANNELS : R!Held(j)' = R!Held(j)
  BY <1>3, <1>4, SameHeld DEF Delivery!vars
<1>5. CASE /\ R!Held(ch)' = R!Held(ch) \cup {R!NewIncomingCommand(Wire(c))}
           /\ R!NewIncomingCommand(Wire(c)).rsn = n
           /\ \A j \in CHANNELS : j # ch => R!Held(j)' = R!Held(j)
           /\ \A q \in R!Held(ch) : q.rsn # n
  <2>1. /\ n \notin Kept[ch]
        /\ Kept'[ch] = Kept[ch] \cup {n}
        /\ HandedOver[ch] \in Nat /\ HandedOver'[ch] \in Nat
        /\ Delivery!Turn(Kept[ch], HandedOver[ch])
        /\ Delivery!Turn(Kept'[ch], HandedOver'[ch])
    <3>1. n \notin Kept[ch]
      BY <1>1, <1>5 DEF Readable, Holds
    <3>2. \A m : m \in Kept'[ch] <=> m \in Kept[ch] \/ m = n
      <4>1. \A m : Holds(ch, m)' <=> Holds(ch, m) \/ m = n
        BY <1>5 DEF Holds
      <4> QED BY <1>1, <4>1 DEF Readable
    <3>3. Kept'[ch] = Kept[ch] \cup {n}
      BY <3>2
    <3> QED BY <1>1, <3>1, <3>3 DEF Readable
  <2>2. ASSUME NEW j \in CHANNELS, j # ch
        PROVE  Kept'[j] = Kept[j] /\ HandedOver'[j] = HandedOver[j]
    <3>1. \A m : m \in Kept'[j] <=> m \in Kept[j]
      BY <1>5, <2>2 DEF Readable, Holds
    <3>2. Kept'[j] = Kept[j]
      BY <3>1
    <3>3. /\ HandedOver[j] \in Nat /\ HandedOver'[j] \in Nat
          /\ Delivery!Turn(Kept[j], HandedOver[j]) /\ Delivery!Turn(Kept[j], HandedOver'[j])
      BY <2>2, <3>2 DEF Readable
    <3>4. HandedOver[j] <= HandedOver'[j] /\ HandedOver'[j] <= HandedOver[j]
      BY <3>3, TurnGrows
    <3> QED BY <3>2, <3>3, <3>4
  <2>3. /\ Kept' = [Kept EXCEPT ![ch] = @ \cup {n}]
        /\ HandedOver' = [HandedOver EXCEPT ![ch] = HandedOver'[ch]]
    <3>1. /\ Kept = [j \in CHANNELS |-> Kept[j]] /\ Kept' = [j \in CHANNELS |-> Kept'[j]]
          /\ HandedOver = [j \in CHANNELS |-> HandedOver[j]]
          /\ HandedOver' = [j \in CHANNELS |-> HandedOver'[j]]
      BY DEF Readable
    <3>2. PICK f, g, h, i : f = Kept /\ g = Kept' /\ h = HandedOver /\ i = HandedOver'
      OBVIOUS
    <3>3. /\ f = [j \in CHANNELS |-> f[j]] /\ g = [j \in CHANNELS |-> g[j]]
          /\ h = [j \in CHANNELS |-> h[j]] /\ i = [j \in CHANNELS |-> i[j]]
      BY <3>1, <3>2
    <3>4. \A j \in CHANNELS : /\ g[j] = IF j = ch THEN f[ch] \cup {n} ELSE f[j]
                              /\ i[j] = IF j = ch THEN i[ch] ELSE h[j]
      BY <2>1, <2>2, <3>2
    <3>5. g = [f EXCEPT ![ch] = @ \cup {n}] /\ i = [h EXCEPT ![ch] = i[ch]]
      BY <1>1, <3>3, <3>4
    <3> QED BY <3>2, <3>5
  <2>4. HandedOver[ch] <= HandedOver'[ch]
    <3>1. Kept[ch] \subseteq Kept'[ch]
      BY <2>1
    <3> QED BY <2>1, <3>1, TurnGrows
  <2>5. messages[ch] \in Nat /\ n <= messages[ch] /\ HandedOver'[ch] <= messages[ch]
    <3>1. messages[ch] \in Nat
      BY <1>1, SenderTyped DEF Linked
    <3>2. Holds(ch, n)'
      BY <1>5 DEF Holds
    <3>3. HandedOver'[ch] = 0 \/ HandedOver'[ch] \in Kept'[ch]
      BY <2>1 DEF Delivery!Turn
    <3>4. \A m : Holds(ch, m)' => m <= messages[ch]
      BY <1>1 DEF Linked, HoldsWhatWasSent, Holds
    <3>5. \A m \in Kept'[ch] : Holds(ch, m)'
      BY <1>1 DEF Readable
    <3> QED BY <2>1, <3>1, <3>2, <3>3, <3>4, <3>5
  <2>6. Delivery!Keep(ch, n)
    <3>1. HandedOver'[ch] \in HandedOver[ch]..messages[ch] /\ n \in 1..messages[ch]
      BY <1>1, <2>1, <2>4, <2>5
    <3> QED BY <1>3, <2>1, <2>3, <3>1 DEF Delivery!Keep
  <2>7. n \in 1..messages[ch]
    BY <1>1, <2>5
  <2> QED BY <1>1, <2>6, <2>7 DEF Delivery!Next
<1> QED BY <1>2, <1>4, <1>5

LEMMA DispatchMaps ==
    ASSUME FewMessages, Linked, Linked', Readable, Readable', DispatchIncomingCommands
    PROVE  [Delivery!Next]_(Delivery!vars)
<1>1. ReceiverLinked /\ UNCHANGED <<sender, answers>> /\ Receiver!DispatchIncomingCommands
  BY DEF Linked, DispatchIncomingCommands
<1>2. /\ UNCHANGED <<channels, handed>>
      /\ \/ UNCHANGED delivered
         \/ \E q \in R!ToSet(dispatched_commands) :
               /\ R!ToSet(delivered') = R!ToSet(delivered) \cup {q}
               /\ \A r \in R!ToSet(delivered) : ~R!Same(q, r)
  BY <1>1, LinkDispatch
<1>3. UNCHANGED <<messages, Kept, HandedOver, Confirmed>>
  <2>1. \A j \in CHANNELS : R!Held(j)' = R!Held(j)
    BY <1>2 DEF R!Held
  <2> QED BY <1>1, <2>1, SameHeld, SameLearnt DEF sender
<1>4. CASE UNCHANGED delivered
  BY <1>3, <1>4, SameGiven DEF Delivery!vars
<1>5. ASSUME NEW q \in R!ToSet(dispatched_commands),
             R!ToSet(delivered') = R!ToSet(delivered) \cup {q},
             \A r \in R!ToSet(delivered) : ~R!Same(q, r)
      PROVE  Delivery!Next
  <2> DEFINE ch == q.channel
             n  == q.rsn
  <2>1. ch \in CHANNELS /\ q \in R!ToSet(handed[ch])
    BY <1>1 DEF ReceiverLinked, R!Once
  <2>2. n \in 1..Len(handed[ch]) /\ Len(handed[ch]) \in Nat
    <3>1. R!WholeMessages /\ R!Inv /\ R!Labels
      BY <1>1, OneLapHolds DEF ReceiverLinked
    <3>2. \A r \in R!ToSet(handed[ch]) : r.rsn \in 1..Len(handed[ch])
      BY <2>1, <3>1, R!LogIsBehind, LinkAssumption, ReceiverConstantsHold
         DEF ReceiverConstants
    <3> QED BY <1>1, <2>1, <3>2, HeldInTurn
  <2>3. HandedOver[ch] = Len(handed[ch])
    BY <2>1 DEF HandedOver
  <2>4. n <= messages[ch] /\ messages[ch] \in Nat
    <3>1. q \in R!Held(ch)
      BY <2>1 DEF R!Held
    <3> QED BY <2>1, <3>1, SenderTyped DEF Linked, HoldsWhatWasSent
  <2>5. n \notin Received[ch]
    BY <1>5, <2>1 DEF Readable, Took, R!Same
  <2>6. \A j \in CHANNELS : \A m : Took(j, m)' <=> Took(j, m) \/ (j = ch /\ m = n)
    BY <1>5 DEF Took
  <2>7. Received' = [Received EXCEPT ![ch] = @ \cup {n}]
    <3>1. PICK f, g : f = Received /\ g = Received'
      OBVIOUS
    <3>2. f = [j \in CHANNELS |-> f[j]] /\ g = [j \in CHANNELS |-> g[j]]
      BY <3>1 DEF Readable
    <3>3. ASSUME NEW j \in CHANNELS
          PROVE  g[j] = IF j = ch THEN f[ch] \cup {n} ELSE f[j]
      <4>1. \A m : m \in g[j] <=> m \in f[j] \/ (j = ch /\ m = n)
        BY <2>6, <3>1 DEF Readable
      <4>2. CASE j = ch
        BY <4>1, <4>2
      <4>3. CASE j # ch
        BY <4>1, <4>3
      <4> QED BY <4>2, <4>3
    <3>4. g = [f EXCEPT ![ch] = @ \cup {n}]
      BY <2>1, <3>2, <3>3
    <3> QED BY <3>1, <3>4
  <2>8. n \in 1..messages[ch] /\ Delivery!Receive(ch, n)
    BY <1>3, <2>2, <2>3, <2>4, <2>5, <2>7 DEF Delivery!Receive
  <2> QED BY <2>1, <2>8 DEF Delivery!Next
<1> QED BY <1>2, <1>4, <1>5

LEMMA LearnMaps ==
    ASSUME FewMessages, Linked, Readable, Readable', NEW c \in AllSent, HandleAcknowledge(c)
    PROVE  [Delivery!Next]_(Delivery!vars)
<1> DEFINE ch == c.channel
           n  == c.serial
<1>1. /\ acknowledged' = acknowledged \cup {c} /\ UNCHANGED <<messages, receiver>>
      /\ Holds(ch, n)
  BY LinkLearnsStep
<1>2. ch \in CHANNELS /\ n \in 1..MAX_MESSAGES /\ c = Sent(ch, n)
  BY SentFacts
<1>3. UNCHANGED <<messages, Kept, HandedOver, Received>>
  <2>1. \A j \in CHANNELS : R!Held(j)' = R!Held(j)
    BY <1>1 DEF R!Held, receiver
  <2> QED BY <1>1, <2>1, SameHeld, SameGiven DEF receiver
<1>4. n \in Kept[ch] /\ n \in 1..messages[ch]
  <2>1. PICK q \in R!Held(ch) : q.rsn = n
    BY <1>1 DEF Holds
  <2>2. n <= messages[ch] /\ messages[ch] \in Nat
    BY <1>2, <2>1, SenderTyped DEF Linked, HoldsWhatWasSent
  <2> QED BY <1>1, <1>2, <2>2, LinkAssumption DEF Readable
<1>5. Confirmed' = [Confirmed EXCEPT ![ch] = @ \cup {n}]
  <2>1. PICK f, g : f = Confirmed /\ g = Confirmed'
    OBVIOUS
  <2>2. f = [j \in CHANNELS |-> f[j]] /\ g = [j \in CHANNELS |-> g[j]]
    BY <2>1 DEF Readable
  <2>3. ASSUME NEW j \in CHANNELS
        PROVE  g[j] = IF j = ch THEN f[ch] \cup {n} ELSE f[j]
    <3>1. \A m : Sent(j, m) = c <=> (j = ch /\ m = n)
      BY <1>2 DEF Sent
    <3>2. \A m : m \in g[j] <=> m \in f[j] \/ (j = ch /\ m = n)
      BY <1>1, <2>1, <3>1 DEF Readable
    <3>3. CASE j = ch
      BY <3>2, <3>3
    <3>4. CASE j # ch
      BY <3>2, <3>4
    <3> QED BY <3>3, <3>4
  <2>4. g = [f EXCEPT ![ch] = @ \cup {n}]
    BY <1>2, <2>2, <2>3
  <2> QED BY <2>1, <2>4
<1>6. Delivery!Confirm(ch, n)
  BY <1>3, <1>4, <1>5 DEF Delivery!Confirm
<1> QED BY <1>2, <1>4, <1>6 DEF Delivery!Next

LEMMA NextMaps ==
    ASSUME FewMessages, Linked, Linked', Readable, Readable',
           [Next]_linkVars, [TakenOrRefusedInSilence]_linkVars
    PROVE  [Delivery!Next]_(Delivery!vars)
<1>1. CASE UNCHANGED linkVars
  <2>1. UNCHANGED <<messages, acknowledged, delivered>>
    BY <1>1 DEF linkVars, sender, receiver
  <2>2. \A j \in CHANNELS : R!Held(j)' = R!Held(j)
    BY <1>1 DEF linkVars, receiver, R!Held
  <2> QED BY <2>1, <2>2, SameHeld, SameGiven, SameLearnt DEF Delivery!vars
<1>2. CASE Next /\ TakenOrRefusedInSilence
  <2>1. CASE SenderStep
    BY <2>1, SenderStepMaps
  <2>2. ASSUME NEW c \in AllSent, Arrive(c) PROVE [Delivery!Next]_(Delivery!vars)
    BY <1>2, <2>2, ArriveMaps DEF TakenOrRefusedInSilence
  <2>3. ASSUME NEW c \in AllSent, HandleAcknowledge(c) PROVE [Delivery!Next]_(Delivery!vars)
    BY <2>3, LearnMaps
  <2>4. ASSUME NEW c \in AllSent, Lose(c) PROVE [Delivery!Next]_(Delivery!vars)
    <3>1. UNCHANGED <<messages, acknowledged, receiver>>
      BY <2>4, LinkLosesStep
    <3>2. \A j \in CHANNELS : R!Held(j)' = R!Held(j)
      BY <3>1 DEF receiver, R!Held
    <3>3. UNCHANGED delivered
      BY <3>1 DEF receiver
    <3> QED BY <3>1, <3>2, <3>3, SameHeld, SameGiven, SameLearnt DEF Delivery!vars
  <2>5. CASE SendAcknowledgements
    <3>1. ReceiverLinked /\ UNCHANGED <<messages, acknowledged>>
      BY <2>5 DEF Linked, SendAcknowledgements
    <3>2. UNCHANGED <<channels, handed, delivered>>
      BY <2>5, <3>1, LinkAnswer DEF SendAcknowledgements
    <3>3. \A j \in CHANNELS : R!Held(j)' = R!Held(j)
      BY <3>2 DEF R!Held
    <3> QED BY <3>1, <3>2, <3>3, SameHeld, SameGiven, SameLearnt DEF Delivery!vars
  <2>6. CASE DispatchIncomingCommands
    BY <2>6, DispatchMaps
  <2> QED BY <1>2, <2>1, <2>2, <2>3, <2>4, <2>5, <2>6 DEF Next
<1>3. CASE Next /\ ~TakenOrRefusedInSilence
  BY <1>1, <1>3
<1> QED BY <1>1, <1>2, <1>3

\* At the start nothing is held, given or learnt of.
LEMMA InitMaps == ASSUME FewMessages, Init, Linked, Readable PROVE Delivery!Init
<1>1. messages = [ch \in CHANNELS |-> 0]
  BY DEF Init, Sender!Init
<1>2. ASSUME NEW ch \in CHANNELS
      PROVE  Kept[ch] = {} /\ HandedOver[ch] = 0 /\ Received[ch] = {} /\ Confirmed[ch] = {}
  <2>1. handed[ch] = <<>> /\ channels[ch].commands = <<>> /\ delivered = <<>> /\ acknowledged = {}
    BY DEF Init, Receiver!Init, Receiver!EmptyChannel, Sender!Init
  <2>2. R!Held(ch) = {} /\ R!ToSet(delivered) = {}
    BY <2>1 DEF R!Held, R!ToSet
  <2>3. Kept[ch] = {} /\ Received[ch] = {} /\ Confirmed[ch] = {}
    BY <2>1, <2>2 DEF Readable, Holds, Took
  <2> QED BY <2>1, <2>3 DEF HandedOver
<1>3. /\ Kept = [ch \in CHANNELS |-> Kept[ch]]
      /\ HandedOver = [ch \in CHANNELS |-> HandedOver[ch]]
      /\ Received = [ch \in CHANNELS |-> Received[ch]]
      /\ Confirmed = [ch \in CHANNELS |-> Confirmed[ch]]
  BY DEF Readable
<1>4. /\ Kept = [ch \in CHANNELS |-> {}] /\ HandedOver = [ch \in CHANNELS |-> 0]
      /\ Received = [ch \in CHANNELS |-> {}] /\ Confirmed = [ch \in CHANNELS |-> {}]
  BY <1>2, <1>3
<1> QED BY <1>1, <1>4 DEF Delivery!Init

\* A number that was given is in a list of the sender, or its acknowledgement
\* came from a receiver that holds it.
LEMMA LinkedLosesNothing == ASSUME FewMessages, Linked, Readable PROVE NothingLost
<1> SUFFICES ASSUME NEW ch \in CHANNELS, NEW n \in 1..messages[ch]
             PROVE  \/ Sent(ch, n) \in ToSet(pod.outgoing) \cup ToSet(pod.sent)
                    \/ n \in Kept[ch]
  BY DEF NothingLost
<1>1. SenderLinked /\ acknowledged \subseteq AllSent
  BY DEF Linked, AnsweredIsHeld
<1>2. PICK c \in S!Queued \cup acknowledged : c.channel = ch /\ c.serial = n
  BY <1>1 DEF SenderLinked, S!NothingForgotten, S!Open
<1>3. CASE c \in S!Queued
  <2>1. c \in S!Command
    BY <1>1, <1>3 DEF SenderLinked, S!Inv, S!Typed, S!Pod, S!Queued, S!ToSet
  <2>2. c.length = LENGTH
    BY <1>1, <1>2, <1>3 DEF SenderLinked
  <2>3. c = Sent(ch, n)
    BY <1>2, <2>1, <2>2 DEF S!Command, Sent
  <2> QED BY <1>3, <2>3 DEF S!Queued, S!ToSet, ToSet
<1>4. CASE c \in acknowledged
  <2>1. c \in AllSent /\ Holds(ch, n)
    BY <1>1, <1>2, <1>4 DEF Linked, AnsweredIsHeld
  <2> QED BY <2>1 DEF Readable
<1> QED BY <1>2, <1>3, <1>4

-----------------------------------------------------------------------------
(* The theorems.                                                           *)

\* The two halves keep what was proved of each of them, and what ties them
\* together: nothing is held that was not sent, nothing acknowledged that is
\* not held, and every acknowledgement answers a copy of its own.
THEOREM LinkStaysLinked ==
    ASSUME FewMessages
    PROVE  Spec /\ [][TakenOrRefusedInSilence]_linkVars => []Linked
<1>1. Init => Linked
  BY LinkInit
<1>2. Linked /\ [Next]_linkVars /\ [TakenOrRefusedInSilence]_linkVars => Linked'
  BY LinkNext
<1> QED BY <1>1, <1>2, PTL DEF Spec

\* Whatever is lost, repeated or overtaken, Peer and Channel at the two ends
\* of a connection deliver each message once and in its turn, and the sender
\* forgets only what the other end has kept.
THEOREM LinkDelivers ==
    ASSUME FewMessages
    PROVE  Spec /\ [][TakenOrRefusedInSilence]_linkVars => ImplementsDelivery
<1>1. Linked => Readable
  BY LinkedIsReadable
<1>2. Init /\ Linked /\ Readable => Delivery!Init
  BY InitMaps
<1>3. Linked /\ Linked' /\ Readable /\ Readable'
        /\ [Next]_linkVars /\ [TakenOrRefusedInSilence]_linkVars
      => [Delivery!Next]_(Delivery!vars)
  BY NextMaps
<1> QED BY <1>1, <1>2, <1>3, LinkStaysLinked, PTL DEF Spec, ImplementsDelivery, Delivery!Spec

\* Until a message is in the hands of the receiver the sender has it in a
\* list: neither a timeout nor an acknowledgement makes both ends forget it.
THEOREM NothingIsLost ==
    ASSUME FewMessages
    PROVE  Spec /\ [][TakenOrRefusedInSilence]_linkVars => []NothingLost
<1>1. Linked => Readable /\ NothingLost
  BY LinkedIsReadable, LinkedLosesNothing
<1> QED BY <1>1, LinkStaysLinked, PTL
=============================================================================
