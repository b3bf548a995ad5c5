SPECIFICATION Spec
CONSTANTS
  l1 = l1
  l2 = l2
  l3 = l3
  r1 = r1
  r2 = r2
  Lines = {l1, l2, l3}
  Requests = {r1}
  Kind <- SeatCodeAndExecEd
INVARIANTS
  TypeOK
  CompleteMeansDelivered
  OrderMatchesLines
  ShippedMeansDelivered
PROPERTIES
  LinesFollowPipeline
CHECK_DEADLOCK FALSE
