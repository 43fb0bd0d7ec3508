---------------------------- MODULE MCClusterWire ----------------------------
(***************************************************************************)
(* TLC instance of ClusterWire.                                            *)
(***************************************************************************)
EXTENDS ClusterWire
=============================================================================
