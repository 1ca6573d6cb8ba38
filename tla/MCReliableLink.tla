--------------------------- MODULE MCReliableLink ---------------------------
(***************************************************************************)
(* Small instances of ReliableLink.                                        *)
(***************************************************************************)
EXTENDS ReliableLink

CONSTANTS ch1, none

OneChannel == {ch1}

\* The larger of the throttled window size and the MTU.
MediumLimit == {3}
WideLimit   == {9}

AnyRoom  == 0..2
FullRoom == {2}
WideRoom == {8}
=============================================================================
