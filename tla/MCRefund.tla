------------------------------- MODULE MCRefund -------------------------------
(* Small instances of Refund for TLC.                                      *)
EXTENDS Refund, TLC

CONSTANTS l1, l2, l3, l4, f1, f2, r1, r2

SeatAndCode        == l1 :> "seat" @@ l2 :> "code"
SeatEntitlementOtherAndCode == l1 :> "seat" @@ l2 :> "entitlement" @@ l3 :> "other" @@ l4 :> "code"
OneSeat            == l1 :> "seat"

(* All lines are of one course, or each is of its own.                     *)
OneCourse   == [l \in Lines |-> 1]
OwnCourses  == [l \in Lines |-> l]

(* Every line costs 1, or every line but one.                              *)
Unit         == [S \in SUBSET Lines |-> Cardinality(S)]
SecondIsFree == [S \in SUBSET Lines |-> Cardinality(S \ {l2})]
ThirdIsFree  == [S \in SUBSET Lines |-> Cardinality(S \ {l3})]

RequestSymmetry == Permutations(Requests)
RefundSymmetry  == Permutations(Refunds)
Symmetry        == RequestSymmetry \cup RefundSymmetry

=============================================================================
