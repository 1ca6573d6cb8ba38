--------------------------- MODULE MCPeerReceiver ---------------------------
(***************************************************************************)
(* Small sets of commands for PeerReceiver: what a sender that numbers its *)
(* messages one after the other may have put on the wire.                  *)
(***************************************************************************)
EXTENDS PeerReceiver

CONSTANTS ch1, ch2

Reliable(id, n, m) ==
    [kind |-> "SEND_RELIABLE", channel |-> id, rsn |-> n, start |-> n,
     number |-> 0, count |-> 0, length |-> 1, msg |-> m]

\* The fragments of message m, numbered from n.
Fragments(id, n, count, m) ==
    {[kind |-> "SEND_FRAGMENT", channel |-> id, rsn |-> n + f, start |-> n,
      number |-> f, count |-> count, length |-> count, msg |-> m] :
        f \in 0..(count - 1)}

OneChannel   == {ch1}
TwoChannels  == {ch1, ch2}

\* Five messages on one channel.
FiveMessages == {Reliable(ch1, n, n) : n \in 1..5}

\* A message, a message of two fragments, one of three, and a message; and
\* a message on another channel.
Fragmented   == {Reliable(ch1, 1, 1), Reliable(ch1, 7, 4), Reliable(ch2, 1, 5)}
                    \cup Fragments(ch1, 2, 2, 2)
                    \cup Fragments(ch1, 4, 3, 3)

\* Two messages of two fragments each.
TwoLarge     == Fragments(ch1, 1, 2, 1) \cup Fragments(ch1, 3, 2, 2)

\* The commands of the passing runs are those the theorems speak of.
ASSUME RunsStayInFirstLap ==
    \A S \in {FiveMessages, Fragmented} :
        SEQUENCE_NUMBERS >= 16 => FirstLap(S) /\ NoAliasing(S)
=============================================================================
