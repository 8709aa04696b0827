-------------------------- MODULE MCSubmissionVersions --------------------------
(***************************************************************************)
(* A small instance of SubmissionVersions for TLC.                         *)
(***************************************************************************)
EXTENDS SubmissionVersions, TLC

Symmetry == Permutations(Tx)

=============================================================================
