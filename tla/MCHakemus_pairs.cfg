\* Every two requests, from every status (liveness, so no symmetry).
CONSTANTS
  Requests = {r1, r2}
  NoRequest = NoRequest
  Asks <- EveryAsk
  FirstStatuses <- Statuses
SPECIFICATION FairSpec
INVARIANTS TypeOK EditingNeedsPermission CancelledStaysCancelled SubmittedVersionIsASubmission
PROPERTIES EveryRequestIsAnswered
