---------------------------- MODULE MCHandleTable ----------------------------
(***************************************************************************)
(* TLC instances of HandleTable. The launches of one process are made by   *)
(* one caller (the launcher service) or by two.                            *)
(***************************************************************************)
EXTENDS HandleTable, TLC

CONSTANTS p1, p2

OneLauncher == (p1 :> {"register"}) @@ (p2 :> Function \ {"register"})
TwoLaunchers == (p1 :> {"register"}) @@ (p2 :> {"register", "retire"})
=============================================================================
