------------------------------- MODULE Purchase -------------------------------
(***************************************************************************)
(* What selling a basket promises, however the customer pays for it: an    *)
(* order number is used once, for one set of products that never changes,  *)
(* and only after a payment processor has taken money for that number or   *)
(* for products that cost nothing.                                         *)
(***************************************************************************)

CONSTANTS
  Baskets,      \* each basket stands for the order number computed from it
  Products,
  FreeProducts  \* the products with a price of zero

VARIABLES
  paid,  \* the order numbers a payment processor has charged
  sold   \* the products of each order, the empty set before it is placed

Init ==
  /\ paid = {}
  /\ sold = [b \in Baskets |-> {}]

Pay(b) ==
  /\ paid' = paid \cup {b}
  /\ UNCHANGED sold

Sell(b, ps) ==
  /\ sold[b] = {}
  /\ ps # {}
  /\ b \in paid \/ ps \subseteq FreeProducts
  /\ sold' = [sold EXCEPT ![b] = ps]
  /\ UNCHANGED paid

Next ==
  \/ \E b \in Baskets : Pay(b)
  \/ \E b \in Baskets, ps \in SUBSET Products : Sell(b, ps)

Spec == Init /\ [][Next]_<<paid, sold>>
===============================================================================
