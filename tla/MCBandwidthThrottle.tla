------------------------- MODULE MCBandwidthThrottle -------------------------
(***************************************************************************)
(* Small instances of BandwidthThrottle.                                   *)
(***************************************************************************)
EXTENDS BandwidthThrottle

CONSTANTS g1, g2

TwoGuests == <<g1, g2>>

UnlimitedOr2    == {0, 2}
UnlimitedOr2Or5 == {0, 2, 5}
Five            == {5}
TwoSeconds      == {2}
Default         == {PEER_DEFAULT_ROUND_TRIP_TIME}
Quick           == {2}
=============================================================================
