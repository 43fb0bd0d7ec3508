----------------------------- MODULE MCMysqlPool -----------------------------
(***************************************************************************)
(* TLC instance of MysqlPool: two slots, of which only one coroutine uses  *)
(* both, so that CMD.stop meets a connection that is dead while the other  *)
(* slot is repaired.                                                       *)
(***************************************************************************)
EXTENDS MysqlPool, TLC

CONSTANTS c1, c2, c3

MCUses == c1 :> {1, 2} @@ c2 :> {1} @@ c3 :> {1}
=============================================================================
