------------------------------ MODULE Yhteiset ------------------------------
(***************************************************************************)
(* The constants that the modules of several pages share.                  *)
(***************************************************************************)

CONSTANTS Officers,        \* each has one page open
          Haut,            \* the grants (avustushaku)
          NoHaku           \* none of them

\* An id that is not given (null, undefined) is the id of no grant.
ASSUME NoHakuAssumption == NoHaku \notin Haut

=============================================================================
