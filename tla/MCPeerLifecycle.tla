--------------------------- MODULE MCPeerLifecycle ---------------------------
(***************************************************************************)
(* Small instances of PeerLifecycle: a server, and one or two guests.      *)
(***************************************************************************)
EXTENDS PeerLifecycle

CONSTANTS server, guest, guest2

OneGuest  == {server, guest}
TwoGuests == {server, guest, guest2}

\* Who disconnects, and how.
AllLater    == [h \in HOSTS |-> {"later"}]
AllNow      == [h \in HOSTS |-> {"now"}]
ServerLater == [h \in HOSTS |-> IF h = server THEN {"later"} ELSE {}]
GuestsDiffer ==
    [h \in HOSTS |-> CASE h = guest  -> {"later"}
                      [] h = guest2 -> {"now"}
                      [] OTHER      -> {}]

\* The server has two slots and a guest one.
Roomy == [h \in HOSTS |-> IF h = server THEN 2 ELSE 1]
\* Every host has one slot.
Tight == [h \in HOSTS |-> 1]
=============================================================================
