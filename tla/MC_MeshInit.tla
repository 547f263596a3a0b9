---------------------------- MODULE MC_MeshInit ----------------------------
(***************************************************************************)
(* MeshInit for TLC over every combination of the four config settings,   *)
(* with up to two rejected registrations, enough for a rejection of the   *)
(* service and of the proxy registration in one run.                       *)
(***************************************************************************)
EXTENDS MeshInit

MCMaxRejects == 2
=============================================================================
