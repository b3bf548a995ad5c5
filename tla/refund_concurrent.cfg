SPECIFICATION Spec
CONSTANTS
  l1 = l1
  l2 = l2
  l3 = l3
  l4 = l4
  f1 = f1
  f2 = f2
  r1 = r1
  r2 = r2
  Lines = {l1, l2}
  Refunds = {f1, f2}
  Requests = {r1, r2}
  Kind <- SeatAndCode
  Course <- OwnCourses
  Cost <- SecondIsFree
  Processors = {"gateway", "stripe", "store"}
  HasOffer = FALSE
  Creators = {"api", "store"}
  Faults = {"crash", "lost answer"}
  MaxCredits = 2
INVARIANTS
  SettledMeansCredited
  CompleteMeansRevoked
PROPERTIES
  StoreRefundAllOrNothing
SYMMETRY Symmetry
CHECK_DEADLOCK FALSE
