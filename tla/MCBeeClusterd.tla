---------------------------- MODULE MCBeeClusterd ----------------------------
(***************************************************************************)
(* TLC instances of BeeClusterd: the callers, the forks, the services and  *)
(* the well-formed addresses are interchangeable.                          *)
(***************************************************************************)
EXTENDS BeeClusterd, TLC

Symmetry ==
    Permutations(Client) \cup Permutations(Fork) \cup Permutations(Service)
    \cup Permutations(WellFormed)
=============================================================================
