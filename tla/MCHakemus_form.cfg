\* Three requests at an application in review.
CONSTANTS
  Requests = {r1, r2, r3}
  NoRequest = NoRequest
  Asks <- FormAsks
  FirstStatuses <- MainStatuses
SPECIFICATION Spec
INVARIANTS SavesLoseNoAnswers PointerBehindHasACause
SYMMETRY Symmetry
