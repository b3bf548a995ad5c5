SPECIFICATION Spec
CONSTANTS
  l1 = l1
  l2 = l2
  l3 = l3
  r1 = r1
  r2 = r2
  Lines = {l1, l2}
  Requests = {r1, r2}
  Kind <- CodeAndEntitlement
INVARIANTS
  CompleteMeansDelivered
  CompleteMeansRecorded
SYMMETRY RequestSymmetry
CHECK_DEADLOCK FALSE
