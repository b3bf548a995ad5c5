---------------------------- MODULE MCFulfillment ----------------------------
(* Small instances of Fulfillment for TLC.                                 *)
EXTENDS Fulfillment, TLC

CONSTANTS l1, l2, l3, r1, r2

CodeAndEntitlement   == l1 :> "code" @@ l2 :> "entitlement"
SeatCodeAndExecEd    == l1 :> "seat" @@ l2 :> "code" @@ l3 :> "execed"
OneEntitlement       == l1 :> "entitlement"

RequestSymmetry == Permutations(Requests)

=============================================================================
