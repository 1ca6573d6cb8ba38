---------------------------- MODULE MCStarRelay -----------------------------
(***************************************************************************)
(* Small instances of StarRelay.                                           *)
(***************************************************************************)
EXTENDS StarRelay

CONSTANTS server, g1, g2, g3

ThreeGuests == {g1, g2, g3}

\* Ids of their own; or the third guest may be given the id of the first.
Distinct   == g1 :> {2} @@ g2 :> {3} @@ g3 :> {4}
MayCollide == g1 :> {2} @@ g2 :> {3} @@ g3 :> {2, 4}

\* A guest says two things, another one and the server one, and one is silent.
Talk == server :> 1 @@ g1 :> 2 @@ g2 :> 1 @@ g3 :> 0

\* Whose dispatcher runs, and who may end.
OneReader == {g2}
TwoEnd    == {server, g1}
=============================================================================
