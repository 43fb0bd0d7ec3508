----------------------------- MODULE MCBeeCluster -----------------------------
(***************************************************************************)
(* TLC instance of BeeCluster.                                             *)
(***************************************************************************)
EXTENDS BeeCluster
=============================================================================
