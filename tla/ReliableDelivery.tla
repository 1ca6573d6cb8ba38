-------------------------- MODULE ReliableDelivery --------------------------
(***************************************************************************)
(* What SegmentFlag::RELIABLE promises of one direction of a connection    *)
(* (enum.h:69-70), with nothing said of how: no lists, windows, timeouts   *)
(* or datagrams.  The messages of a channel are known by their place in    *)
(* the order in which they were sent.                                      *)
(***************************************************************************)
EXTENDS Naturals, FiniteSets

CONSTANT CHANNELS   \* the channel identifiers of the connection

VARIABLES
    sent,           \* how many messages were sent, per channel
    kept,           \* the messages the other end has, per channel
    handed,         \* how many left the channel for the application, in order
    received,       \* the messages the application was given, per channel
    acknowledged    \* the messages the sender may forget, per channel

vars == <<sent, kept, handed, received, acknowledged>>

Init ==
    /\ sent = [ch \in CHANNELS |-> 0]
    /\ kept = [ch \in CHANNELS |-> {}]
    /\ handed = [ch \in CHANNELS |-> 0]
    /\ received = [ch \in CHANNELS |-> {}]
    /\ acknowledged = [ch \in CHANNELS |-> {}]

\* The first n messages are there and the next one is not.
Turn(messages, n) == 1..n \subseteq messages /\ n + 1 \notin messages

Send(ch) ==
    /\ sent' = [sent EXCEPT ![ch] = @ + 1]
    /\ UNCHANGED <<kept, handed, received, acknowledged>>

\* A message gets through, once, and everything whose turn has come with it
\* is handed over in order.
Keep(ch, n) ==
    /\ n \in 1..sent[ch]
    /\ n \notin kept[ch]
    /\ kept' = [kept EXCEPT ![ch] = @ \cup {n}]
    /\ \E last \in handed[ch]..sent[ch] :
          /\ Turn(kept'[ch], last)
          /\ handed' = [handed EXCEPT ![ch] = last]
    /\ UNCHANGED <<sent, received, acknowledged>>

\* The application receives a message, once.
Receive(ch, n) ==
    /\ n \in 1..handed[ch]
    /\ n \notin received[ch]
    /\ received' = [received EXCEPT ![ch] = @ \cup {n}]
    /\ UNCHANGED <<sent, kept, handed, acknowledged>>

\* The sender learns of a message that got through.
Confirm(ch, n) ==
    /\ n \in kept[ch]
    /\ acknowledged' = [acknowledged EXCEPT ![ch] = @ \cup {n}]
    /\ UNCHANGED <<sent, kept, handed, received>>

Next ==
    \E ch \in CHANNELS :
        \/ Send(ch)
        \/ \E n \in 1..sent[ch] : Keep(ch, n) \/ Receive(ch, n) \/ Confirm(ch, n)

Spec == Init /\ [][Next]_vars
=============================================================================
