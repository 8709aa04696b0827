\* Two officers at once, or two runs of the feedback job and two maksuerat of one application.
CONSTANTS
  Apps = {a1}
  Phases <- TwoPhases
  Officers = {o1, o2}
  Jobs = {j1, j2}
  Payment0 = Payment0
  MaxPayments = 2
  MaxAttempts = 2
  MaxFeedback = 2
  MaxDay = 1
  MaxFaults = 0
SPECIFICATION WideSpec
SYMMETRY Symmetry
INVARIANTS FeedbackIsKept SentWasDelivered HangsOverDeletion
CHECK_DEADLOCK FALSE
