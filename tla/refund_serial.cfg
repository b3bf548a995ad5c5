SPECIFICATION Spec
CONSTANTS
  l1 = l1
  l2 = l2
  l3 = l3
  l4 = l4
  f1 = f1
  f2 = f2
  r1 = r1
  r2 = r2
  Lines = {l1, l2, l3, l4}
  Refunds = {f1, f2}
  Requests = {r1}
  Kind <- SeatEntitlementOtherAndCode
  Course <- OwnCourses
  Cost <- ThirdIsFree
  Processors = {"gateway", "none"}
  HasOffer = TRUE
  Creators = {"api", "command"}
  Faults = {"crash", "lost answer"}
  MaxCredits = 2
INVARIANTS
  TypeOK
  CreditedOnce
  UnsettledMeansUncredited
  BooksMatchLedger
  OneLiveRefundPerLine
  OfferFreedOnce
  CompleteCoversItsLines
PROPERTIES
  FinalStatusesStay
SYMMETRY RefundSymmetry
CHECK_DEADLOCK FALSE
