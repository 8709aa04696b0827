------------------------------ MODULE MCMaksatukset ------------------------------
(***************************************************************************)
(* Small instances of Maksatukset for TLC.                                 *)
(***************************************************************************)
EXTENDS Maksatukset, TLC

Symmetry == Permutations(Officers) \cup Permutations(Jobs)

OnePhase == {0}
TwoPhases == {0, 1}

=============================================================================
