----------------------------- MODULE MCDatagram -----------------------------
(***************************************************************************)
(* Small instances of Datagram.                                            *)
(***************************************************************************)
EXTENDS Datagram

CONSTANTS p1, p2

TwoPeers == {p1, p2}

Sizes == [ACKNOWLEDGE |-> 2, PING |-> 1, SEND |-> 1]
=============================================================================
