-------------------------- MODULE PaymentHandlers ---------------------------
(***************************************************************************)
(* payments/views.py and the payment half of payments/services.py.         *)
(* Signatures are checked before these actions start; a request that fails *)
(* the check, or names no payment, changes nothing.                        *)
(***************************************************************************)
EXTENDS Ledger

Exists(p) == payment[p].order # None

\* A payment asked for a cash order: its payment_status goes back to pending.
PaymentCreateCod(w, o) ==
    /\ req[w].pc = "idle"
    /\ order[o].method = "cod"
    /\ order' = [order EXCEPT ![o].payment_status = "pending"]
    /\ UNCHANGED <<log, assignment, payment, ledger, restocked, req, reached, faults, bid>>

\* The bound of the model: as many payments are asked for as there are Payments.
MayInsert == Cardinality({p \in Payments : ~Exists(p)})
               > Cardinality({w \in Workers : req[w].kind = "payCreate"})

\* A payment asked for a prepaid order that is not paid, whatever its status.
PaymentCreate(w, o) ==
    /\ order[o].method = "prepaid"
    /\ order[o].payment_status # "paid"
    /\ MayInsert
    /\ Begin(w, [Idle EXCEPT !.pc = "payInsert", !.kind = "payCreate", !.o = o])
    /\ UNCHANGED <<order, log, assignment, payment, ledger, restocked, reached, faults, bid>>

\* Payment.objects.create(...)
InsertPayment(w) ==
    /\ req[w].pc = "payInsert"
    /\ \E p \in Payments : /\ ~Exists(p)
                           /\ payment' = [payment EXCEPT ![p].order = req[w].o]
    /\ Goto(w, "idle", {})
    /\ UNCHANGED <<order, log, assignment, ledger, restocked, reached, faults, bid>>

\* The buyer's confirmation, the provider's payment.captured or order.paid
\* event and the bare webhook of the mock provider all call mark_payment_paid.
\* None of them looks at the status of the payment or of its order.
PaymentPaid(w, p) ==
    /\ Exists(p)
    /\ Begin(w, [Idle EXCEPT !.pc = "payMark", !.kind = "markPaid", !.p = p,
                             !.o = payment[p].order])
    /\ UNCHANGED <<order, log, assignment, payment, ledger, restocked, reached, faults, bid>>

\* Faulty variant: the payment is marked and nothing else happens.
MarkPaymentOnly(w) ==
    LET q == req[w] IN
    /\ q.pc = "payMark"
    /\ payment' = [payment EXCEPT ![q.p].status = "paid"]
    /\ Goto(w, "idle", {})
    /\ UNCHANGED <<order, log, assignment, ledger, restocked, reached, faults, bid>>

\* mark_payment_paid: the payment, then its order, then the buyer's charge.
MarkPayment(w) ==
    LET q == req[w] IN
    /\ q.pc = "payMark"
    /\ payment' = [payment EXCEPT ![q.p].status = "paid"]
    /\ Goto(w, "payOrder", {})
    /\ UNCHANGED <<order, log, assignment, ledger, restocked, reached, faults, bid>>

\* Faulty variant: the seller is paid when the buyer pays.
MarkOrderPayout(w) ==
    LET q == req[w] IN
    /\ q.pc = "payOrder"
    /\ order' = [order EXCEPT ![q.o].payment_status = "paid"]
    /\ Goto(w, "ledgerCheck", {"order_charge", "seller_payout"})
    /\ UNCHANGED <<log, assignment, payment, ledger, restocked, reached, faults, bid>>

\* Faulty variant: the order is marked and the buyer is not charged.
MarkOrderUncharged(w) ==
    LET q == req[w] IN
    /\ q.pc = "payOrder"
    /\ order' = [order EXCEPT ![q.o].payment_status = "paid"]
    /\ Goto(w, "idle", {})
    /\ UNCHANGED <<log, assignment, payment, ledger, restocked, reached, faults, bid>>

MarkOrder(w) ==
    LET q == req[w] IN
    /\ q.pc = "payOrder"
    /\ order' = [order EXCEPT ![q.o].payment_status = "paid"]
    /\ Goto(w, "ledgerCheck", {"order_charge"})
    /\ UNCHANGED <<log, assignment, payment, ledger, restocked, reached, faults, bid>>

\* The provider's payment.failed event: back to pending, and the order is left.
PaymentFailed(w, p) ==
    /\ req[w].pc = "idle"
    /\ Exists(p)
    /\ payment' = [payment EXCEPT ![p].status = "pending"]
    /\ UNCHANGED <<order, log, assignment, ledger, restocked, req, reached, faults, bid>>
=============================================================================
