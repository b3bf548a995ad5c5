SPECIFICATION FairSpec
CONSTANTS
  l1 = l1
  l2 = l2
  l3 = l3
  l4 = l4
  f1 = f1
  f2 = f2
  r1 = r1
  r2 = r2
  Lines = {l1}
  Refunds = {f1, f2}
  Requests = {r1}
  Kind <- OneSeat
  Course <- OwnCourses
  Cost <- Unit
  Processors = {"stripe"}
  HasOffer = FALSE
  Creators = {"api", "command"}
  Faults = {"crash", "lost answer"}
  MaxCredits = 2
PROPERTIES
  EventuallySettled
CHECK_DEADLOCK FALSE
