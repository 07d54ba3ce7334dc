----------------------------- MODULE MCFreshDash -----------------------------
(***************************************************************************)
(* Small instances of FreshDash for TLC.                                   *)
(***************************************************************************)
EXTENDS FreshDashInv, TLC

CONSTANTS o1, w1, w2, p1, p2, d1, d2

NoZeroAmount == {}
FreeDelivery == {<<o1, "delivery_earning">>}
Interchangeable == Permutations(Workers) \cup Permutations(Payments) \cup Permutations(Partners)
=============================================================================
