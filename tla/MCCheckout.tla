------------------------------ MODULE MCCheckout ------------------------------
(* Small instances of Checkout for TLC.                                    *)
EXTENDS Checkout, TLC

CONSTANTS b1, b2, p1, p2, t1, t2, r1, r2

Symmetry == Permutations(Baskets) \cup Permutations(Charges) \cup Permutations(Requests)

===============================================================================
