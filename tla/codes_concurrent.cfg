SPECIFICATION Spec
CONSTANTS
  c1 = c1
  c2 = c2
  u1 = u1
  u2 = u2
  r1 = r1
  r2 = r2
  Codes = {c1}
  Users = {u1, u2}
  Requests = {r1, r2}
  Usages = {"single", "once per customer", "multi per customer"}
  Limits = {2}
  OFFER_MAX_USES_DEFAULT = 1
  Notices = {"mail"}
  MaxRows = 2
  MaxOrders = 2
SYMMETRY Symmetry
INVARIANTS
  UsageRespected
  RedeemedForAnOrder
CHECK_DEADLOCK FALSE
