---------------------------- MODULE MCClusterNames ----------------------------
(***************************************************************************)
(* TLC instance of ClusterNames.                                           *)
(***************************************************************************)
EXTENDS ClusterNames
=============================================================================
