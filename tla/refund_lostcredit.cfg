SPECIFICATION Spec
CONSTANTS
  l1 = l1
  l2 = l2
  l3 = l3
  l4 = l4
  f1 = f1
  f2 = f2
  r1 = r1
  r2 = r2
  Lines = {l1, l2}
  Refunds = {f1, f2}
  Requests = {r1}
  Kind <- SeatAndCode
  Course <- OneCourse
  Cost <- Unit
  Processors = {"gateway"}
  HasOffer = FALSE
  Creators = {"api"}
  Faults = {}
  MaxCredits = 2
INVARIANTS
  CreditShowsInStatus
CHECK_DEADLOCK FALSE
