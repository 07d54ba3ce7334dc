----------------------------- MODULE OrderTypes ------------------------------
(***************************************************************************)
(* The enumerations of orders, payments and delivery (models.py) and the   *)
(* transition table of orders/services/status.py.                          *)
(***************************************************************************)
PENDING          == "pending"
CONFIRMED        == "confirmed"
PREPARING        == "preparing"
READY_FOR_PICKUP == "ready_for_pickup"
OUT_FOR_DELIVERY == "out_for_delivery"
DELIVERED        == "delivered"
CANCELLED        == "cancelled"

OrderStatus == {PENDING, CONFIRMED, PREPARING, READY_FOR_PICKUP,
                OUT_FOR_DELIVERY, DELIVERED, CANCELLED}

PaymentStatus == {"pending", "paid", "refunded"}    \* failed is written nowhere
PaymentMethod == {"cod", "prepaid"}    \* upi and card behave alike

BidStatus     == {"open", "accepted", "rejected"}    \* cancelled is written nowhere

\* The ledger reasons of an order.  (platform_fee and adjustment are written nowhere.)
LedgerReason == {"order_charge", "order_refund", "delivery_earning", "seller_payout"}

\* The table that guards transition_order, as <<from, to>> pairs.
TRANSITIONS ==
    {<<PENDING, CONFIRMED>>,    <<PENDING, CANCELLED>>,
     <<CONFIRMED, PREPARING>>,  <<CONFIRMED, CANCELLED>>,
     <<PREPARING, READY_FOR_PICKUP>>, <<PREPARING, CANCELLED>>,
     <<READY_FOR_PICKUP, OUT_FOR_DELIVERY>>,
     <<OUT_FOR_DELIVERY, DELIVERED>>}
=============================================================================
