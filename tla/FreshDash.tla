------------------------------ MODULE FreshDash ------------------------------
(***************************************************************************)
(* The life of an order: the requests of its buyer, its seller, its        *)
(* delivery partner and the payment provider, over the tables they share.  *)
(***************************************************************************)
EXTENDS Bids, PaymentHandlers

\* A request is cut short: the process dies, or an exception that nothing
\* catches (a failing notification, a lost connection) ends it.  What its
\* statements have written stays written.
Crash(w) ==
    /\ faults < MaxFaults
    /\ faults' = faults + 1
    /\ req[w].pc # "idle"
    /\ Goto(w, "idle", {})
    /\ UNCHANGED <<order, log, assignment, payment, ledger, restocked, reached, bid>>

\* A client or the payment provider sends a request.
Arrive(w) ==
    \/ \E o \in Orders : \/ VendorOrderAction(w, o) \/ OrderCancel(w, o)
                         \/ ConfirmPickup(w, o) \/ ConfirmDeliver(w, o)
                         \/ BidCreate(w, o) \/ BidAccept(w, o)
                         \/ PaymentCreate(w, o) \/ PaymentCreateCod(w, o)
    \/ \E p \in Payments : PaymentPaid(w, p) \/ PaymentFailed(w, p)

\* The next statement of the request that w serves.
Step(w) ==
    \/ SaveAssignment(w) \/ ReadOrder(w)
    \/ SaveOrder(w) \/ LogStatus(w) \/ CodPaid(w)
    \/ LedgerCheck(w) \/ LedgerWrite(w)
    \/ Restock(w) \/ RefundPayments(w) \/ RefundOrder(w)
    \/ CreateAssignment(w) \/ SaveBid(w) \/ AssignBidder(w) \/ AcceptBid(w) \/ RejectOthers(w)
    \/ InsertPayment(w) \/ MarkPayment(w) \/ MarkOrder(w)

Next == \E w \in Workers : Arrive(w) \/ Step(w) \/ LedgerFails(w) \/ Crash(w)

Spec == Init /\ [][Next]_vars

\* The server runs every request it has taken to its end.  Nobody has to send one.
FairSpec == Spec /\ \A w \in Workers : WF_vars(Step(w))

-----------------------------------------------------------------------------
(* Whatever overlaps and whatever is cut short.                            *)

\* No order is ever at a stage without having been at one from which the
\* transition table leads there: a stale row written back by transition_order
\* may move an order back, never over a stage.
StagesInOrder ==
    \A o \in Orders : \A s \in reached[o] \ {PENDING} :
        \E t \in reached[o] : <<t, s>> \in TRANSITIONS

\* No order leaves the store, or is delivered, without a partner assigned, and
\* no partner is assigned before the order has been ready (ConfirmPickupView,
\* create_assignment_for_order).
HandedToPartner ==
    \A o \in Orders :
        /\ reached[o] \cap {OUT_FOR_DELIVERY, DELIVERED} # {} => Assigned(o)
        /\ Assigned(o) => READY_FOR_PICKUP \in reached[o]

\* The partner whose bid was accepted is the one who carries the order, although
\* two bids can be accepted, and the seller's ready can assign it, at once.
BidderCarries ==
    \A o \in Orders, d \in Partners : bid[o][d] = "accepted" => assignment[o].partner = d

\* Once an order has a partner it keeps that partner: a confirmation writes back
\* the whole assignment it has read, and nobody else writes one that exists.
PartnerKept ==
    [][\A o \in Orders : Assigned(o) => assignment'[o].partner = assignment[o].partner]_vars

\* Seller and partner are credited, and cash is charged, for delivered orders
\* only; a prepaid charge has a payment; refunds and returned stock are of
\* cancelled orders (on_status_log, mark_payment_paid, the cancelling views).
MoneyFollowsGoods ==
    \A o \in Orders :
        /\ \A r \in {"seller_payout", "delivery_earning"} :
               ledger[o][r] > 0 => DELIVERED \in reached[o]
        /\ ledger[o]["order_charge"] > 0 =>
               IF order[o].method = "cod" THEN DELIVERED \in reached[o]
               ELSE \E p \in Payments : payment[p].order = o
        /\ ledger[o]["order_refund"] > 0 \/ restocked[o] > 0 => CANCELLED \in reached[o]

\* The exists() check of a record_* helper is not atomic with its insert, but an
\* order has at most one entry of a reason per request that can run at a time;
\* served one by one, requests never charge or pay twice.
EntriesBounded ==
    \A o \in Orders, r \in LedgerReason : ledger[o][r] <= Cardinality(Workers)

\* All of this as the abstract specification OrderContract.
Promised == INSTANCE OrderContract WITH
    method   <- [o \in Orders |-> order[o].method],
    stages   <- reached,
    assigned <- {o \in Orders : Assigned(o)},
    billed   <- {o \in Orders : \E p \in Payments : payment[p].order = o},
    booked   <- {b \in Orders \X LedgerReason : ledger[b[1]][b[2]] > 0},
    returned <- {o \in Orders : restocked[o] > 0}

\* The handlers, overlapping and cut short anywhere, implement OrderContract.
KeepsPromise == Promised!Spec

-----------------------------------------------------------------------------
(* Whatever overlaps, when every request runs to its end (MaxFaults = 0).  *)

\* There is an entry of reason r for order o, unless its amount is 0.
Recorded(o, r) == <<o, r>> \in ZeroAmount \/ ledger[o][r] > 0

\* An order that says paid or refunded, or was refunded in the ledger, has been
\* charged in the ledger: the three records that mark_payment_paid and
\* on_status_log keep of one collection agree in the end.
CollectedIsCharged ==
    \A o \in Orders :
        /\ Quiet(o)
        /\ order[o].payment_status \in {"paid", "refunded"} \/ ledger[o]["order_refund"] > 0
        => Recorded(o, "order_charge")

\* A delivered order pays its seller and its partner, although on_status_log
\* runs after the delivery has been committed and others may save the row since.
DeliveryIsPaid ==
    \A o \in Orders : DELIVERED \in reached[o] ~>
        Recorded(o, "seller_payout") /\ Recorded(o, "delivery_earning")

\* A captured payment is charged to the buyer, whatever happens to the order
\* while mark_payment_paid runs.
CaptureIsCharged ==
    \A o \in Orders :
        (\E p \in Payments : payment[p] = [order |-> o, status |-> "paid"]) ~>
            Recorded(o, "order_charge")

\* The items of a cancelled order go back on the shelf, even when another
\* request has overwritten the cancellation.
CancelReturnsStock == \A o \in Orders : CANCELLED \in reached[o] ~> restocked[o] > 0

-----------------------------------------------------------------------------
(* When requests are served one by one (a single worker) to their end.     *)

\* An order's status changes along the transition table only; so delivered and
\* cancelled are final.
StatusFollowsTable ==
    [][\A o \in Orders : order'[o].status # order[o].status =>
            <<order[o].status, order'[o].status>> \in TRANSITIONS]_vars

\* A cancelled order was restocked exactly once and no other order ever was, and
\* nothing is booked twice, however often its payments are confirmed.
OnceEach ==
    \A o \in Orders :
        /\ Quiet(o) => restocked[o] = (IF order[o].status = CANCELLED THEN 1 ELSE 0)
        /\ \A r \in LedgerReason : ledger[o][r] <= 1

\* A delivered order was picked up and handed over by its partner, both are
\* paid, and a cash order is charged.  (A prepaid order may not even be paid.)
DeliveredIsSettled ==
    \A o \in Orders :
        Quiet(o) /\ order[o].status = DELIVERED =>
            /\ Assigned(o) /\ assignment[o].picked /\ assignment[o].delivered
            /\ \A r \in DueOnDelivery(order[o]) : Recorded(o, r)

\* When a bid has been accepted, every other bid on the order has been rejected
\* (BidAcceptView).
BidsSettled ==
    \A o \in Orders :
        Quiet(o) /\ (\E d \in Partners : bid[o][d] = "accepted") =>
            \A d \in Partners : bid[o][d] # "open"

\* An order one of whose payments stands as paid says so itself: nothing that a
\* seller, buyer or partner does afterwards makes the order forget a payment.
CaptureSticks ==
    \A o \in Orders :
        /\ Quiet(o)
        /\ \E p \in Payments : payment[p] = [order |-> o, status |-> "paid"]
        => order[o].payment_status = "paid"

-----------------------------------------------------------------------------
(* What comments and docs say of the program, and it does not do.          *)

\* signals.py: money already collected is refunded into the buyer's ledger.
RefundIsCredited ==
    \A o \in Orders :
        Quiet(o) /\ order[o].status = CANCELLED /\ order[o].payment_status = "refunded" =>
            ledger[o]["order_refund"] > 0

\* The notification of a cancellation, "any payment has been refunded": when an
\* order that was paid before it was cancelled or rejected has been, it does not
\* say paid any more.
CancelledIsRefunded ==
    [][\A w \in Workers :
          /\ req[w].kind \in {"cancel", "reject"} /\ req[w].row.payment_status = "paid"
          /\ req'[w].pc = "idle"
          => order'[req[w].o].payment_status # "paid"]_vars

\* The lifecycle of backend_progress.md has no way out of cancelled.
CancelledIsFinal ==
    \A o \in Orders : Quiet(o) /\ CANCELLED \in reached[o] => order[o].status = CANCELLED
=============================================================================
