------------------------------ MODULE MCCustomer -----------------------------
(***************************************************************************)
(* Small instances of Customer for TLC.                                    *)
(***************************************************************************)
EXTENDS Customer, TLC

CONSTANTS w1, w2, a1, a2, a3, p1, p2

One(p, n) == [p |-> p, qty |-> n]
SomePayloads == {<<>>, <<One(p1, 3)>>, <<One(p1, 1), One(p2, 2)>>, <<One(p2, -1), One(p2, 1), One(p1, 1), One(p2, 2)>>}
SomePrices == {(p1 :> 33 @@ p2 :> 50)}  \cup {(p1 :> 99 @@ p2 :> 50)}
SomeCoupons == {[type |-> "percent", value |-> 12, min |-> 0, max |-> 0, active |-> TRUE],
                [type |-> "percent", value |-> 50, min |-> 99, max |-> 20, active |-> TRUE],
                [type |-> "fixed", value |-> 60, min |-> 60, max |-> 0, active |-> TRUE]}
Symmetric == Permutations(Workers) \cup Permutations(Ids)
=============================================================================
