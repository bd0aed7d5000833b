--------------------------- MODULE MCServerClaim ---------------------------
(***************************************************************************)
(* ServerClaim with two screens, and with three.                           *)
(***************************************************************************)
EXTENDS ServerClaim

CONSTANTS desk, laptop, tablet

TwoScreens == {desk, laptop}
ThreeScreens == {desk, laptop, tablet}

\* An edit of the layout takes the place of a claim.
FewEvents == spent.inputs + spent.moves <= 2
=============================================================================
