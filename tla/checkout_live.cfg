SPECIFICATION FairSpec
CONSTANTS
  b1 = b1
  b2 = b2
  p1 = p1
  p2 = p2
  t1 = t1
  t2 = t2
  r1 = r1
  r2 = r2
  Baskets = {b1, b2}
  Products = {p1, p2}
  FreeProducts = {}
  Requests = {r1}
  Charges = {t1, t2}
  Routes = {"cart", "paypal", "store", "api", "repair"}
  Faults = {"crash", "lost answer", "no order", "broker"}
INVARIANTS
  OrderMatchesCharge
PROPERTIES
  RecordedIsOrdered
CHECK_DEADLOCK FALSE
