\* Two refusals.
CONSTANTS
  Requests = {r1, r2}
  NoRequest = NoRequest
  Asks <- RefuseAsks
  FirstStatuses <- MainStatuses
SPECIFICATION Spec
INVARIANTS RefusedOnce
SYMMETRY Symmetry
