\* One officer, one run of the feedback job, a payment of either maksuera, a crash (liveness, so
\* no symmetry).
CONSTANTS
  Apps = {a1}
  Phases <- TwoPhases
  Officers = {o1}
  Jobs = {j1}
  Payment0 = Payment0
  MaxPayments = 1
  MaxAttempts = 2
  MaxFeedback = 2
  MaxDay = 2
  MaxFaults = 1
SPECIFICATION FairSpec
INVARIANTS TypeOK OneOpenVersion PaymentsGoOutOnce TokenEndsWithPayment
PROPERTIES StatusGoesForward RequestEnds FeedbackIsApplied
CHECK_DEADLOCK FALSE
