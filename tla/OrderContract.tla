---------------------------- MODULE OrderContract ----------------------------
(***************************************************************************)
(* What FreshDash promises of an order whatever requests overlap and       *)
(* whichever of them are cut short, in terms of what has EVER happened to  *)
(* it: stages are gained along the transition table, and a consequence     *)
(* (an assignment, a movement of money, goods put back) is only recorded   *)
(* of an order that has gained the stage it is a consequence of.           *)
(* The current status is no part of the promise: two overlapping requests  *)
(* can move it back.                                                       *)
(***************************************************************************)
EXTENDS OrderTypes

CONSTANT Orders

VARIABLES
    method,      \* how each order is to be paid
    stages,      \* the statuses each order has ever held
    assigned,    \* the orders that have a delivery assignment
    billed,      \* the orders a payment has been created for
    booked,      \* the <<order, reason>> that have a ledger entry
    returned     \* the orders whose items went back on the shelf

vars == <<method, stages, assigned, billed, booked, returned>>

\* The stage that money moves after.
Cause == [order_charge  |-> DELIVERED, delivery_earning |-> DELIVERED,
          seller_payout |-> DELIVERED, order_refund     |-> CANCELLED]

Init == /\ method \in [Orders -> PaymentMethod]
        /\ stages = [o \in Orders |-> {PENDING}]
        /\ assigned = {} /\ billed = {} /\ booked = {} /\ returned = {}

\* An order gains a stage next to one it has had; it leaves the store only
\* with a partner.
Gain(o, s) == /\ \E t \in stages[o] : <<t, s>> \in TRANSITIONS
              /\ s \in {OUT_FOR_DELIVERY, DELIVERED} => o \in assigned
              /\ stages' = [stages EXCEPT ![o] = @ \cup {s}]
              /\ UNCHANGED <<method, assigned, billed, booked, returned>>

Assign(o) == /\ READY_FOR_PICKUP \in stages[o]
             /\ assigned' = assigned \cup {o}
             /\ UNCHANGED <<method, stages, billed, booked, returned>>

Bill(o) == /\ method[o] = "prepaid"
           /\ billed' = billed \cup {o}
           /\ UNCHANGED <<method, stages, assigned, booked, returned>>

\* A prepaid order is charged against a payment, everything else after a stage.
Book(o, r) == /\ IF r = "order_charge" /\ method[o] = "prepaid" THEN o \in billed
                 ELSE Cause[r] \in stages[o]
              /\ booked' = booked \cup {<<o, r>>}
              /\ UNCHANGED <<method, stages, assigned, billed, returned>>

Return(o) == /\ CANCELLED \in stages[o]
             /\ returned' = returned \cup {o}
             /\ UNCHANGED <<method, stages, assigned, billed, booked>>

Next == \E o \in Orders : \/ \E s \in OrderStatus : Gain(o, s)
                          \/ Assign(o)
                          \/ Bill(o)
                          \/ \E r \in LedgerReason : Book(o, r)
                          \/ Return(o)

Spec == Init /\ [][Next]_vars
=============================================================================
