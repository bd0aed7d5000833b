----------------------------- MODULE MCProfile -----------------------------
(***************************************************************************)
(* The two things that several computers change in the profile they share: *)
(* which screen is the server, by the services, and the layout, by the     *)
(* configuration windows.  They do not meet but in the version the cloud   *)
(* counts up, so one run checks them side by side: part chooses the one    *)
(* that moves.                                                             *)
(***************************************************************************)
EXTENDS MCServerClaim, Layout

VARIABLE part

MCInit ==
  /\ part \in {"claims", "layout"} /\ Init /\ LayoutInit
  /\ part = "claims" => \A u \in Window : DOMAIN snaps[u][1].at = Screens

ClaimStep == part = "claims" /\ Next /\ UNCHANGED <<layoutVars, part>>
LayoutStep == part = "layout" /\ LayoutNext /\ UNCHANGED <<vars, part>>

MCNext == ClaimStep \/ LayoutStep

MCSpec == MCInit /\ [][MCNext]_<<vars, layoutVars, part>>
=============================================================================
