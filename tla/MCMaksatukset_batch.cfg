\* Two officers create a batch on one day.
CONSTANTS
  Apps = {a1}
  Phases <- OnePhase
  Officers = {o1, o2}
  Jobs = {j1}
  Payment0 = Payment0
  MaxPayments = 1
  MaxAttempts = 2
  MaxFeedback = 0
  MaxDay = 1
  MaxFaults = 0
SPECIFICATION Spec
INVARIANTS NoDuplicateBatch
CHECK_DEADLOCK FALSE
