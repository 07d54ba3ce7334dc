---------------------------- MODULE MCInventory ------------------------------
(***************************************************************************)
(* Small instances of Inventory for TLC: carts of two products in both   *)
(* orders, of one product twice, and with lines of zero and below.         *)
(***************************************************************************)
EXTENDS Inventory, TLC

CONSTANTS a, b, w1, w2, MaxOrders, MaxReturns, MaxPosts, MaxPuts, MaxDeletes, MaxFaults

One(p, n)  == [p |-> p, qty |-> n]
MixedCarts == {<<One(a, 1), One(b, 1)>>, <<One(b, 1), One(a, 1)>>,
               <<One(a, 2), One(a, 1)>>, <<One(b, 0), One(a, -1)>>, <<One(b, 0)>>}

SomeStarts == {{a, b}, {a}}

Limits == [place |-> MaxOrders, return |-> MaxReturns, post |-> MaxPosts, put |-> MaxPuts,
           delete |-> MaxDeletes, fault |-> MaxFaults]
=============================================================================
