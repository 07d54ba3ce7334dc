--------------------------- MODULE OrderHandlers ----------------------------
(***************************************************************************)
(* orders/services/status.py, orders/signals.py, orders/services/restock.py*)
(* and the two views that move an order on behalf of its seller or its     *)
(* buyer.  transition_order decides on the row the request READ and then   *)
(* writes that whole row back, so it can undo what happened in between.    *)
(***************************************************************************)
EXTENDS Ledger

\* The bound MaxRestocks: cancellations served or being served for order o.
MayCancel(o) ==
    restocked[o] + Cardinality({w \in Workers : /\ req[w].o = o
                                                /\ req[w].kind \in {"cancel", "reject"}})
       < MaxRestocks

\* Faulty variant: any move of an order that is not yet closed.
AllowedWhileOpen(row, kind) == row.status \notin {DELIVERED, CANCELLED}

\* The guard of transition_order on the row in memory.  No role that reaches
\* a view that moves an order is a superuser's.
Allowed(row, kind) == <<row.status, Target[kind]>> \in TRANSITIONS

\* A seller's accept, prepare, ready or reject: the row is read, the guard
\* passes.  (When it does not, the answer is 400 and nothing has changed.)
VendorOrderAction(w, o) ==
    /\ \E k \in {"accept", "prepare", "ready", "reject"} :
          /\ Allowed(order[o], k)
          /\ k = "reject" => MayCancel(o)
          /\ Begin(w, [Idle EXCEPT !.pc = "save", !.kind = k, !.o = o, !.row = order[o]])
    /\ UNCHANGED <<order, log, assignment, payment, ledger, restocked, reached, faults, bid>>

\* A buyer's cancellation, refused once the seller is preparing.
OrderCancel(w, o) ==
    /\ order[o].status \in {PENDING, CONFIRMED}
    /\ MayCancel(o)
    /\ Begin(w, [Idle EXCEPT !.pc = "save", !.kind = "cancel", !.o = o, !.row = order[o]])
    /\ UNCHANGED <<order, log, assignment, payment, ledger, restocked, reached, faults, bid>>

\* Faulty variant: the name of the action is saved for the status.
SaveAction(w) ==
    LET q == req[w] IN
    /\ q.pc = "save"
    /\ order' = [order EXCEPT ![q.o] = [q.row EXCEPT !.status = q.kind]]
    /\ reached' = [reached EXCEPT ![q.o] = @ \cup {Target[q.kind]}]
    /\ Goto(w, "log", {})
    /\ UNCHANGED <<log, assignment, payment, ledger, restocked, faults, bid>>

\* order.save() of transition_order: every column of the row in memory.
SaveOrder(w) ==
    LET q == req[w] IN
    /\ q.pc = "save"
    /\ order' = [order EXCEPT ![q.o] = [q.row EXCEPT !.status = Target[q.kind]]]
    /\ reached' = [reached EXCEPT ![q.o] = @ \cup {Target[q.kind]}]
    /\ Goto(w, "log", {})
    /\ UNCHANGED <<log, assignment, payment, ledger, restocked, faults, bid>>

\* Faulty variant: a cash order is charged instead of paying seller and partner.
DueEither(row) == IF row.method = "cod" THEN {"order_charge"}
                  ELSE {"seller_payout", "delivery_earning"}

\* What on_status_log owes on delivery; cash is charged to the buyer only now.
DueOnDelivery(row) == {"seller_payout", "delivery_earning"}
                        \cup (IF row.method = "cod" THEN {"order_charge"} ELSE {})

\* OrderStatusLog.objects.create(...) and, in the same call, on_status_log: the
\* parties are notified and, by the row in memory, what is owed is decided.
LogStatus(w) ==
    LET q == req[w] IN
    /\ q.pc = "log"
    /\ log' = [log EXCEPT ![q.o] = @ \cup {Target[q.kind]}]
    /\ \/ /\ q.kind \in {"accept", "prepare", "pickup"}
          /\ Goto(w, "idle", {})
       \/ /\ q.kind = "ready"
          /\ Goto(w, "assign", {})
       \/ /\ q.kind = "deliver"
          /\ Goto(w, IF q.row.method = "cod" THEN "codPaid" ELSE "ledgerCheck",
                  DueOnDelivery(q.row))
       \/ /\ q.kind \in {"cancel", "reject"}
          /\ Record(w, IF q.row.payment_status = "refunded" THEN {"order_refund"} ELSE {})
    /\ UNCHANGED <<order, assignment, payment, ledger, restocked, reached, faults, bid>>

\* A delivered cash order has been paid: only payment_status is written.
CodPaid(w) ==
    LET q == req[w] IN
    /\ q.pc = "codPaid"
    /\ order' = [order EXCEPT ![q.o].payment_status = "paid"]
    /\ Goto(w, "ledgerCheck", q.due)
    /\ UNCHANGED <<log, assignment, payment, ledger, restocked, reached, faults, bid>>

\* An exception under on_status_log's try: swallowed, and the handler goes on.
LedgerFails(w) ==
    /\ faults < MaxFaults
    /\ faults' = faults + 1
    /\ req[w].kind \in Moves
    /\ req[w].pc \in {"codPaid", "ledgerCheck", "ledgerWrite"}
    /\ Goto(w, AfterLedger(req[w].kind), {})
    /\ UNCHANGED <<order, log, assignment, payment, ledger, restocked, reached, bid>>

-----------------------------------------------------------------------------
\* restock_order_items.  (What it does to the products is Inventory's matter.)
Restock(w) ==
    LET q == req[w] IN
    /\ q.pc = "restock"
    /\ restocked' = [restocked EXCEPT ![q.o] = @ + 1]
    /\ Goto(w, IF q.kind = "cancel" THEN "refundPayments" ELSE "idle", {})
    /\ UNCHANGED <<order, log, assignment, payment, ledger, reached, faults, bid>>

\* Faulty variant: only the payments that nobody has paid are marked.
RefundPending(w) ==
    LET q == req[w] IN
    /\ q.pc = "refundPayments"
    /\ payment' = [p \in Payments |->
                      IF payment[p] = [order |-> q.o, status |-> "pending"]
                      THEN [payment[p] EXCEPT !.status = "refunded"] ELSE payment[p]]
    /\ Goto(w, "refundOrder", {})
    /\ UNCHANGED <<order, log, assignment, ledger, restocked, reached, faults, bid>>

\* Payment.objects.filter(order=order).update(status=REFUNDED)
RefundPayments(w) ==
    LET q == req[w] IN
    /\ q.pc = "refundPayments"
    /\ payment' = [p \in Payments |->
                      IF payment[p].order = q.o THEN [payment[p] EXCEPT !.status = "refunded"]
                      ELSE payment[p]]
    /\ Goto(w, "refundOrder", {})
    /\ UNCHANGED <<order, log, assignment, ledger, restocked, reached, faults, bid>>

\* order.payment_status, as the cancellation READ it, is written back.
RefundOrder(w) ==
    LET q == req[w]
        old == q.row.payment_status
    IN
    /\ q.pc = "refundOrder"
    /\ order' = [order EXCEPT ![q.o].payment_status = IF old = "paid" THEN "refunded" ELSE old]
    /\ Goto(w, "idle", {})
    /\ UNCHANGED <<log, assignment, payment, ledger, restocked, reached, faults, bid>>
=============================================================================
