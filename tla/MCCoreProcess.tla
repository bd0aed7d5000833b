---------------------------- MODULE MCCoreProcess ----------------------------
(***************************************************************************)
(* CoreProcess with three screens (the local one and two others) and two   *)
(* uids.                                                                   *)
(***************************************************************************)
EXTENDS CoreProcess

CONSTANTS local, desk, laptop, root, alice

MCScreen == {local, desk, laptop}
MCUser == {root, alice}
=============================================================================
