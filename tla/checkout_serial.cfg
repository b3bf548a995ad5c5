SPECIFICATION Spec
CONSTANTS
  b1 = b1
  b2 = b2
  p1 = p1
  p2 = p2
  t1 = t1
  t2 = t2
  r1 = r1
  r2 = r2
  Baskets = {b1, b2}
  Products = {p1, p2}
  FreeProducts = {p2}
  Requests = {r1}
  Charges = {t1, t2}
  Routes = {"cart", "rest", "applepay", "stripe", "paypal", "store", "free", "api"}
  Faults = {"crash", "lost answer", "no order", "broker", "expired key"}
SYMMETRY Symmetry
INVARIANTS
  TypeOK
  StripeChargesOnce
  OrderedStaysClosed
  OrderMatchesCharge
PROPERTIES
  DeclinedNotCharged
CHECK_DEADLOCK FALSE
