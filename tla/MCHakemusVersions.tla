--------------------------- MODULE MCHakemusVersions ---------------------------
(***************************************************************************)
(* Small instances of HakemusVersions for TLC.  The properties the runs   *)
(* check are safety properties and treat transactions alike, so Tx is      *)
(* symmetric.                                                              *)
(***************************************************************************)
EXTENDS HakemusVersions, TLC

Symmetry == Permutations(Tx)

=============================================================================
