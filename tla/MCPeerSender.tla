---------------------------- MODULE MCPeerSender ----------------------------
(***************************************************************************)
(* Small instances of PeerSender.                                          *)
(***************************************************************************)
EXTENDS PeerSender

CONSTANTS ch1, none

OneChannel == {ch1}

\* A command without data; a command of one unit; that, or a message of two
\* fragments that do not fit the narrow limit together.
Empty      == {<<0>>}
Units      == {<<1>>}
Fragmented == {<<1>>, <<2, 2>>}

\* The larger of the throttled window size and the MTU.
NarrowLimit == {2}
MediumLimit == {3}

\* PROTOCOL_MAXIMUM_SEGMENT_COMMANDS is 32 in the code; acknowledgements and
\* earlier commands may leave less room, or none.
AnyRoom  == 0..2
FullRoom == {2}
=============================================================================
