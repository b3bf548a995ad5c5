-------------------------------- MODULE MCCodes --------------------------------
(* Small instances of Codes for TLC.                                       *)
EXTENDS Codes, TLC

CONSTANTS c1, c2, u1, u2, r1, r2

Symmetry == Permutations(Users) \cup Permutations(Requests)

===============================================================================
