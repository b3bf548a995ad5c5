SPECIFICATION Spec
CONSTANTS
  c1 = c1
  c2 = c2
  u1 = u1
  u2 = u2
  r1 = r1
  r2 = r2
  Codes = {c1, c2}
  Users = {u1, u2}
  Requests = {r1}
  Usages = {"single", "multi", "once per customer", "multi per customer"}
  Limits = {0, 2}
  OFFER_MAX_USES_DEFAULT = 1
  Notices = {"nudge"}
  MaxRows = 2
  MaxOrders = 2
SYMMETRY Symmetry
INVARIANTS
  TypeOK
  NeverOversold
  AssignedCanRedeem
  OneHolder
  NudgedHoldsCode
PROPERTIES
  FinalRowsStay
CHECK_DEADLOCK FALSE
