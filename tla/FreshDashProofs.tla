--------------------------- MODULE FreshDashProofs ---------------------------
(***************************************************************************)
(* Theorems about FreshDash for every set of orders, payments, partners    *)
(* and workers, every order of their statements and every number of        *)
(* requests that are cut short.                                            *)
(***************************************************************************)
EXTENDS FreshDashInv, FiniteSetTheorems, TLAPS

\* The request of a worker that goes on, or is answered, is again a request.
LEMMA GotoType ==
    ASSUME req \in [Workers -> Request], NEW w \in Workers,
           NEW pc \in PCs, NEW due \in SUBSET LedgerReason, Goto(w, pc, due)
    PROVE  req' \in [Workers -> Request]
  <1>1. Idle \in Request
    BY DEF Idle, Request, PCs, OrderRow, AssignmentRow, OrderStatus, PaymentStatus,
           PaymentMethod, NoAssignment, PENDING
  <1>2. [req[w] EXCEPT !.pc = pc, !.due = due] \in Request
    BY DEF Request
  <1>3. QED
    BY <1>1, <1>2 DEF Goto

LEMMA RecordType ==
    ASSUME req \in [Workers -> Request], NEW w \in Workers,
           NEW S \in SUBSET LedgerReason, Record(w, S)
    PROVE  req' \in [Workers -> Request]
  <1>1. AfterLedger(req[w].kind) \in PCs
    BY DEF AfterLedger, PCs
  <1>2. CASE S = {}
    BY <1>1, <1>2, GotoType DEF Record
  <1>3. CASE S # {}
    <2>1. Goto(w, "ledgerCheck", S)
      BY <1>3 DEF Record
    <2>2. QED
      BY <2>1, GotoType DEF PCs
  <1>4. QED
    BY <1>2, <1>3

\* A worker that takes request r.
LEMMA BeginType ==
    ASSUME req \in [Workers -> Request], NEW w \in Workers, NEW r \in Request, Begin(w, r)
    PROVE  req' \in [Workers -> Request]
  BY DEF Begin

LEMMA TargetType == \A k \in Moves : Target[k] \in OrderStatus
  BY DEF Moves, Target, OrderStatus, PENDING, CONFIRMED, PREPARING, READY_FOR_PICKUP,
         OUT_FOR_DELIVERY, DELIVERED, CANCELLED

LEMMA MovesKinds == Moves \subseteq Kinds /\ Moves = {"accept", "prepare", "ready", "reject",
                                                     "cancel", "pickup", "deliver"}
  BY DEF Moves, Target, Kinds

LEMMA ArriveType ==
    ASSUME TypeOK, NEW w \in Workers, Arrive(w)
    PROVE  TypeOK'
  <1> USE DEF TypeOK
  <1>0. /\ Idle \in Request
        /\ Idle.pc = "idle"
    BY DEF Idle, Request, PCs, OrderRow, AssignmentRow, OrderStatus, PaymentStatus,
           PaymentMethod, NoAssignment, PENDING
  <1>1. ASSUME NEW o \in Orders, VendorOrderAction(w, o) PROVE TypeOK'
    <2>1. PICK k \in {"accept", "prepare", "ready", "reject"} :
              Begin(w, [Idle EXCEPT !.pc = "save", !.kind = k, !.o = o, !.row = order[o]])
      BY <1>1 DEF VendorOrderAction
    <2>2. [Idle EXCEPT !.pc = "save", !.kind = k, !.o = o, !.row = order[o]] \in Request
      BY <1>0, MovesKinds DEF Request, PCs
    <2>3. req' \in [Workers -> Request]
      BY <2>1, <2>2, BeginType
    <2>4. QED
      BY <1>1, <2>3 DEF VendorOrderAction
  <1>2. ASSUME NEW o \in Orders, OrderCancel(w, o) PROVE TypeOK'
    <2>1. [Idle EXCEPT !.pc = "save", !.kind = "cancel", !.o = o, !.row = order[o]] \in Request
      BY <1>0, MovesKinds DEF Request, PCs
    <2>2. req' \in [Workers -> Request]
      BY <1>2, <2>1, BeginType DEF OrderCancel
    <2>3. QED
      BY <1>2, <2>2 DEF OrderCancel
  <1>3. ASSUME NEW o \in Orders, ConfirmPickup(w, o) PROVE TypeOK'
    <2>1. [assignment[o] EXCEPT !.picked = TRUE] \in AssignmentRow
      BY DEF AssignmentRow
    <2>2. [Idle EXCEPT !.pc = "saveAssignment", !.kind = "pickup", !.o = o,
                       !.asg = [assignment[o] EXCEPT !.picked = TRUE]] \in Request
      BY <1>0, <2>1, MovesKinds DEF Request, PCs
    <2>3. req' \in [Workers -> Request]
      BY <1>3, <2>2, BeginType DEF ConfirmPickup
    <2>4. QED
      BY <1>3, <2>3 DEF ConfirmPickup
  <1>4. ASSUME NEW o \in Orders, ConfirmDeliver(w, o) PROVE TypeOK'
    <2>1. [assignment[o] EXCEPT !.delivered = TRUE] \in AssignmentRow
      BY DEF AssignmentRow
    <2>2. [Idle EXCEPT !.pc = "saveAssignment", !.kind = "deliver", !.o = o,
                       !.asg = [assignment[o] EXCEPT !.delivered = TRUE]] \in Request
      BY <1>0, <2>1, MovesKinds DEF Request, PCs
    <2>3. req' \in [Workers -> Request]
      BY <1>4, <2>2, BeginType DEF ConfirmDeliver
    <2>4. QED
      BY <1>4, <2>3 DEF ConfirmDeliver
  <1>5. ASSUME NEW o \in Orders, PaymentCreate(w, o) PROVE TypeOK'
    <2>1. [Idle EXCEPT !.pc = "payInsert", !.kind = "payCreate", !.o = o] \in Request
      BY <1>0 DEF Request, PCs, Kinds
    <2>2. req' \in [Workers -> Request]
      BY <1>5, <2>1, BeginType DEF PaymentCreate
    <2>3. QED
      BY <1>5, <2>2 DEF PaymentCreate
  <1>6. ASSUME NEW o \in Orders, PaymentCreateCod(w, o) PROVE TypeOK'
    BY <1>6 DEF PaymentCreateCod, OrderRow, PaymentStatus
  <1>7. ASSUME NEW p \in Payments, PaymentPaid(w, p) PROVE TypeOK'
    <2>1. [Idle EXCEPT !.pc = "payMark", !.kind = "markPaid", !.p = p,
                       !.o = payment[p].order] \in Request
      BY <1>0 DEF Request, PCs, Kinds, PaymentRow
    <2>2. req' \in [Workers -> Request]
      BY <1>7, <2>1, BeginType DEF PaymentPaid
    <2>3. QED
      BY <1>7, <2>2 DEF PaymentPaid
  <1>8. ASSUME NEW p \in Payments, PaymentFailed(w, p) PROVE TypeOK'
    BY <1>8 DEF PaymentFailed, PaymentRow, PaymentStatus
  <1>9. ASSUME NEW o \in Orders, BidCreate(w, o) PROVE TypeOK'
    <2>1. PICK d \in Bidders : Begin(w, [Idle EXCEPT !.pc = "bidSave", !.kind = "bid",
                                                     !.o = o, !.asg = AssignedTo(d)])
      BY <1>9 DEF BidCreate
    <2>2. AssignedTo(d) \in AssignmentRow
      BY ConstantsAssumption DEF AssignedTo, AssignmentRow, NoAssignment
    <2>3. [Idle EXCEPT !.pc = "bidSave", !.kind = "bid", !.o = o,
                       !.asg = AssignedTo(d)] \in Request
      BY <1>0, <2>2 DEF Request, PCs, Kinds
    <2>4. req' \in [Workers -> Request]
      BY <2>1, <2>3, BeginType
    <2>5. QED
      BY <1>9, <2>4 DEF BidCreate
  <1>10. ASSUME NEW o \in Orders, BidAccept(w, o) PROVE TypeOK'
    <2>1. PICK d \in Partners : Begin(w, [Idle EXCEPT !.pc = "bidAssign", !.kind = "acceptBid",
                                                      !.o = o, !.asg = AssignedTo(d)])
      BY <1>10 DEF BidAccept
    <2>2. AssignedTo(d) \in AssignmentRow
      BY DEF AssignedTo, AssignmentRow, NoAssignment
    <2>3. [Idle EXCEPT !.pc = "bidAssign", !.kind = "acceptBid", !.o = o,
                       !.asg = AssignedTo(d)] \in Request
      BY <1>0, <2>2 DEF Request, PCs, Kinds
    <2>4. req' \in [Workers -> Request]
      BY <2>1, <2>3, BeginType
    <2>5. QED
      BY <1>10, <2>4 DEF BidAccept
  <1>11. QED
    BY <1>1, <1>2, <1>3, <1>4, <1>5, <1>6, <1>7, <1>8, <1>9, <1>10 DEF Arrive

LEMMA StepType ==
    ASSUME TypeOK, Shape, NEW w \in Workers, Step(w)
    PROVE  TypeOK'
  <1> USE DEF TypeOK
  <1>0. /\ req[w] \in Request
        /\ {} \in SUBSET LedgerReason
        /\ req[w].due \in SUBSET LedgerReason
    BY DEF Request
  <1>1. CASE SaveAssignment(w)
    <2>1. req' \in [Workers -> Request]
      BY <1>0, <1>1, GotoType DEF SaveAssignment, PCs
    <2>2. QED
      BY <1>0, <1>1, <2>1 DEF SaveAssignment, Request
  <1>2. CASE ReadOrder(w)
    <2>1. req[w].o \in Orders
      BY <1>2 DEF ReadOrder, Shape
    <2>2. CASE req' = [req EXCEPT ![w].pc = "save", ![w].row = order[req[w].o]]
      <3>1. [req[w] EXCEPT !.pc = "save", !.row = order[req[w].o]] \in Request
        BY <1>0, <2>1 DEF Request, PCs
      <3>2. req' \in [Workers -> Request]
        BY <2>2, <3>1
      <3>3. QED
        BY <1>2, <3>2 DEF ReadOrder
    <2>3. CASE Goto(w, "idle", {})
      <3>1. req' \in [Workers -> Request]
        BY <1>0, <2>3, GotoType DEF PCs
      <3>2. QED
        BY <1>2, <3>1 DEF ReadOrder
    <2>4. QED
      BY <1>2, <2>2, <2>3 DEF ReadOrder
  <1>3. CASE SaveOrder(w)
    <2>1. req' \in [Workers -> Request]
      BY <1>0, <1>3, GotoType DEF SaveOrder, PCs
    <2>2. Target[req[w].kind] \in OrderStatus
      BY <1>3, TargetType DEF SaveOrder, Shape
    <2>3. [req[w].row EXCEPT !.status = Target[req[w].kind]] \in OrderRow
      BY <1>0, <2>2 DEF Request, OrderRow
    <2>4. QED
      BY <1>3, <2>1, <2>2, <2>3 DEF SaveOrder
  <1>4. CASE LogStatus(w)
    <2>1. Target[req[w].kind] \in OrderStatus
      BY <1>4, TargetType DEF LogStatus, Shape
    <2>2. DueOnDelivery(req[w].row) \in SUBSET LedgerReason
      BY DEF DueOnDelivery, LedgerReason
    <2>3. CASE Goto(w, "idle", {})
      BY <1>0, <1>4, <2>1, <2>3, GotoType DEF LogStatus, PCs
    <2>4. CASE Goto(w, "assign", {})
      BY <1>0, <1>4, <2>1, <2>4, GotoType DEF LogStatus, PCs
    <2>5. CASE Goto(w, IF req[w].row.method = "cod" THEN "codPaid" ELSE "ledgerCheck",
                    DueOnDelivery(req[w].row))
      <3>1. (IF req[w].row.method = "cod" THEN "codPaid" ELSE "ledgerCheck") \in PCs
        BY DEF PCs
      <3>2. req' \in [Workers -> Request]
        BY <2>2, <2>5, <3>1, GotoType
      <3>3. QED
        BY <1>4, <2>1, <3>2 DEF LogStatus
    <2>6. CASE Record(w, IF req[w].row.payment_status = "refunded" THEN {"order_refund"} ELSE {})
      <3>1. (IF req[w].row.payment_status = "refunded" THEN {"order_refund"} ELSE {})
               \in SUBSET LedgerReason
        BY DEF LedgerReason
      <3>2. req' \in [Workers -> Request]
        BY <2>6, <3>1, RecordType
      <3>3. QED
        BY <1>4, <2>1, <3>2 DEF LogStatus
    <2>7. QED
      BY <1>4, <2>3, <2>4, <2>5, <2>6 DEF LogStatus
  <1>5. CASE CodPaid(w)
    <2>1. req' \in [Workers -> Request]
      BY <1>0, <1>5, GotoType DEF CodPaid, PCs
    <2>2. QED
      BY <1>5, <2>1 DEF CodPaid, OrderRow, PaymentStatus
  <1>6. CASE LedgerCheck(w)
    <2>1. PICK r \in LedgerReason : \/ Record(w, req[w].due \ {r})
                                    \/ Goto(w, "ledgerWrite", req[w].due)
      BY <1>6 DEF LedgerCheck
    <2>2. req[w].due \ {r} \in SUBSET LedgerReason
      BY <1>0
    <2>3. req' \in [Workers -> Request]
      BY <1>0, <2>1, <2>2, GotoType, RecordType DEF PCs
    <2>4. QED
      BY <1>6, <2>3 DEF LedgerCheck
  <1>7. CASE LedgerWrite(w)
    <2>1. PICK r \in LedgerReason :
              /\ ledger' = IF <<req[w].o, r>> \in ZeroAmount THEN ledger
                           ELSE [ledger EXCEPT ![req[w].o][r] = @ + 1]
              /\ Record(w, req[w].due \ {r})
      BY <1>7 DEF LedgerWrite
    <2>2. req[w].due \ {r} \in SUBSET LedgerReason
      BY <1>0
    <2>3. req' \in [Workers -> Request]
      BY <2>1, <2>2, RecordType
    <2>4. ledger' \in [Orders -> [LedgerReason -> Nat]]
      <3>1. req[w].o \in Orders
        BY <1>7 DEF LedgerWrite, Shape
      <3>2. ledger[req[w].o][r] + 1 \in Nat
        BY <3>1
      <3>3. QED
        BY <2>1, <3>1, <3>2
    <2>5. QED
      BY <1>7, <2>3, <2>4 DEF LedgerWrite
  <1>8. CASE Restock(w)
    <2>1. (IF req[w].kind = "cancel" THEN "refundPayments" ELSE "idle") \in PCs
      BY DEF PCs
    <2>2. req' \in [Workers -> Request]
      BY <1>0, <1>8, <2>1, GotoType DEF Restock
    <2>3. req[w].o \in Orders
      BY <1>8 DEF Restock, Shape
    <2>4. restocked' \in [Orders -> Nat]
      BY <1>8, <2>3 DEF Restock
    <2>5. QED
      BY <1>8, <2>2, <2>4 DEF Restock
  <1>9. CASE RefundPayments(w)
    <2>1. req' \in [Workers -> Request]
      BY <1>0, <1>9, GotoType DEF RefundPayments, PCs
    <2>2. QED
      BY <1>9, <2>1 DEF RefundPayments, PaymentRow, PaymentStatus
  <1>10. CASE RefundOrder(w)
    <2>1. req' \in [Workers -> Request]
      BY <1>0, <1>10, GotoType DEF RefundOrder, PCs
    <2>2. req[w].row.payment_status \in PaymentStatus
      BY <1>0 DEF Request, OrderRow
    <2>3. QED
      BY <1>10, <2>1, <2>2 DEF RefundOrder, OrderRow, PaymentStatus
  <1>11. CASE CreateAssignment(w)
    <2>1. req' \in [Workers -> Request]
      BY <1>0, <1>11, GotoType DEF CreateAssignment, PCs
    <2>2. assignment' \in [Orders -> AssignmentRow]
      <3>1. \A d \in Partners : [NoAssignment EXCEPT !.partner = d] \in AssignmentRow
        BY DEF AssignmentRow, NoAssignment
      <3>2. QED
        BY <1>11, <3>1 DEF CreateAssignment
    <2>3. QED
      BY <1>11, <2>1, <2>2 DEF CreateAssignment
  <1>12. CASE InsertPayment(w)
    <2>1. req' \in [Workers -> Request]
      BY <1>0, <1>12, GotoType DEF InsertPayment, PCs
    <2>2. payment' \in [Payments -> PaymentRow]
      <3>1. PICK p \in Payments : payment' = [payment EXCEPT ![p].order = req[w].o]
        BY <1>12 DEF InsertPayment
      <3>2. req[w].o \in Orders
        BY <1>12 DEF InsertPayment, Shape
      <3>3. QED
        BY <3>1, <3>2 DEF PaymentRow
    <2>3. QED
      BY <1>12, <2>1, <2>2 DEF InsertPayment
  <1>13. CASE MarkPayment(w)
    <2>1. req' \in [Workers -> Request]
      BY <1>0, <1>13, GotoType DEF MarkPayment, PCs
    <2>2. QED
      BY <1>13, <2>1 DEF MarkPayment, PaymentRow, PaymentStatus
  <1>14. CASE MarkOrder(w)
    <2>1. {"order_charge"} \in SUBSET LedgerReason
      BY DEF LedgerReason
    <2>2. req' \in [Workers -> Request]
      BY <1>0, <1>14, <2>1, GotoType DEF MarkOrder, PCs
    <2>3. QED
      BY <1>14, <2>2 DEF MarkOrder, OrderRow, PaymentStatus
  <1>15. CASE SaveBid(w) \/ AcceptBid(w)
    <2>1. req' \in [Workers -> Request]
      BY <1>0, <1>15, GotoType DEF SaveBid, AcceptBid, PCs
    <2>2. bid' \in [Orders -> [Partners -> BidStatus \cup {None}]]
      <3>1. PICK s \in BidStatus : bid' = [bid EXCEPT ![req[w].o][req[w].asg.partner] = s]
        BY <1>15 DEF SaveBid, AcceptBid, BidStatus
      <3>2. QED
        BY <3>1
    <2>3. QED
      BY <1>15, <2>1, <2>2 DEF SaveBid, AcceptBid
  <1>16. CASE AssignBidder(w)
    <2>1. req' \in [Workers -> Request]
      BY <1>0, <1>16, GotoType DEF AssignBidder, PCs
    <2>2. assignment' \in [Orders -> AssignmentRow]
      BY <1>0, <1>16 DEF AssignBidder, Request
    <2>3. QED
      BY <1>16, <2>1, <2>2 DEF AssignBidder
  <1>17. CASE RejectOthers(w)
    <2>1. req' \in [Workers -> Request]
      BY <1>0, <1>17, GotoType DEF RejectOthers, PCs
    <2>2. bid' \in [Orders -> [Partners -> BidStatus \cup {None}]]
      BY <1>17 DEF RejectOthers, BidStatus
    <2>3. QED
      BY <1>17, <2>1, <2>2 DEF RejectOthers
  <1>18. QED
    BY <1>1, <1>2, <1>3, <1>4, <1>5, <1>6, <1>7, <1>8, <1>9, <1>10, <1>11, <1>12, <1>13,
       <1>14, <1>15, <1>16, <1>17 DEF Step

LEMMA CutType ==
    ASSUME TypeOK, NEW w \in Workers, LedgerFails(w) \/ Crash(w)
    PROVE  TypeOK'
  <1>1. AfterLedger(req[w].kind) \in PCs /\ "idle" \in PCs
    BY DEF AfterLedger, PCs
  <1>2. req' \in [Workers -> Request]
    BY <1>1, GotoType DEF TypeOK, LedgerFails, Crash
  <1>3. faults' \in 0..MaxFaults
    BY ConstantsAssumption DEF TypeOK, LedgerFails, Crash
  <1>4. QED
    BY <1>2, <1>3 DEF TypeOK, LedgerFails, Crash

-----------------------------------------------------------------------------
\* Worker w alone has moved, and is now at pc with entries due of the same request.
Moved(w, pc, due) ==
    /\ \A v \in Workers \ {w} : req'[v] = req[v]
    /\ req'[w].pc = pc
    /\ req'[w].due = due
    /\ req'[w].kind = req[w].kind
    /\ req'[w].o = req[w].o
    /\ req'[w].row = req[w].row
    /\ req'[w].asg = req[w].asg

\* Worker w alone has moved, and is free.
Answered(w) == /\ \A v \in Workers \ {w} : req'[v] = req[v]
               /\ req'[w] = Idle

LEMMA GotoEffect ==
    ASSUME req \in [Workers -> Request], NEW w \in Workers, NEW pc, NEW due, Goto(w, pc, due)
    PROVE  IF pc = "idle" THEN Answered(w) ELSE Moved(w, pc, due)
  <1>1. CASE pc = "idle"
    BY <1>1 DEF Goto, Answered
  <1>2. CASE pc # "idle"
    <2>1. req' = [req EXCEPT ![w] = [req[w] EXCEPT !.pc = pc, !.due = due]]
      BY <1>2 DEF Goto
    <2>2. QED
      BY <1>2, <2>1 DEF Moved, Request
  <1>3. QED
    BY <1>1, <1>2

\* A request that has recorded its entries is answered, or goes on to restock.
LEMMA RecordEffect ==
    ASSUME req \in [Workers -> Request], NEW w \in Workers, NEW S, Record(w, S)
    PROVE  \/ Answered(w)
           \/ req[w].kind \in {"cancel", "reject"} /\ Moved(w, "restock", {})
           \/ Moved(w, "ledgerCheck", S)
  <1>1. CASE S # {}
    <2>1. Goto(w, "ledgerCheck", S)
      BY <1>1 DEF Record
    <2>2. QED
      BY <2>1, GotoEffect
  <1>2. CASE S = {} /\ req[w].kind \in {"cancel", "reject"}
    <2>1. Goto(w, "restock", {})
      BY <1>2 DEF Record, AfterLedger
    <2>2. QED
      BY <1>2, <2>1, GotoEffect
  <1>3. CASE S = {} /\ req[w].kind \notin {"cancel", "reject"}
    <2>1. Goto(w, "idle", {})
      BY <1>3 DEF Record, AfterLedger
    <2>2. QED
      BY <2>1, GotoEffect
  <1>4. QED
    BY <1>1, <1>2, <1>3

LEMMA AnsweredShape == ASSUME Shape, NEW w \in Workers, Answered(w) PROVE Shape'
  BY DEF Shape, Answered, Idle, Ledgering, Undoing, Accepting

LEMMA RecordShape ==
    ASSUME TypeOK, Shape, NEW w \in Workers, NEW S, Record(w, S),
           req[w].pc # "idle", req[w].kind \in {"deliver", "cancel", "reject", "markPaid"}
    PROVE  Shape'
  <1>1. CASE req[w].kind \in {"cancel", "reject"} /\ Moved(w, "restock", {})
    BY <1>1 DEF Moved, Shape, Ledgering, Undoing, Accepting
  <1>2. CASE Moved(w, "ledgerCheck", S)
    BY <1>2 DEF Moved, Shape, Ledgering, Undoing, Accepting
  <1>3. QED
    BY <1>1, <1>2, RecordEffect, AnsweredShape DEF TypeOK

LEMMA ShapeStep ==
    ASSUME TypeOK, Shape, NEW w \in Workers,
           Arrive(w) \/ Step(w) \/ LedgerFails(w) \/ Crash(w)
    PROVE  Shape'
  <1> USE DEF TypeOK, Shape, Goto, Record, AfterLedger, Begin, Idle, Ledgering, Undoing, Accepting
  <1>1. ASSUME NEW o \in Orders, VendorOrderAction(w, o) PROVE Shape'
    BY <1>1, MovesKinds DEF VendorOrderAction
  <1>2. ASSUME NEW o \in Orders, OrderCancel(w, o) PROVE Shape'
    BY <1>2, MovesKinds DEF OrderCancel
  <1>3. ASSUME NEW o \in Orders, ConfirmPickup(w, o) PROVE Shape'
    BY <1>3 DEF ConfirmPickup
  <1>4. ASSUME NEW o \in Orders, ConfirmDeliver(w, o) PROVE Shape'
    BY <1>4 DEF ConfirmDeliver
  <1>5. ASSUME NEW o \in Orders, PaymentCreate(w, o) PROVE Shape'
    BY <1>5 DEF PaymentCreate
  <1>6. ASSUME NEW o \in Orders, PaymentCreateCod(w, o) PROVE Shape'
    BY <1>6 DEF PaymentCreateCod
  <1>7. ASSUME NEW p \in Payments, PaymentPaid(w, p) PROVE Shape'
    BY <1>7 DEF PaymentPaid, PaymentRow, Exists
  <1>8. ASSUME NEW p \in Payments, PaymentFailed(w, p) PROVE Shape'
    BY <1>8 DEF PaymentFailed
  <1>9. CASE SaveAssignment(w)
    BY <1>9 DEF SaveAssignment
  <1>10. CASE ReadOrder(w)
    <2>1. CASE req' = [req EXCEPT ![w].pc = "save", ![w].row = order[req[w].o]]
      <3>1. req[w].kind \in Moves
        BY <1>10, MovesKinds DEF ReadOrder
      <3>2. QED
        BY <1>10, <2>1, <3>1 DEF ReadOrder, Request
    <2>2. CASE Goto(w, "idle", {})
      BY <2>2
    <2>3. QED
      BY <1>10, <2>1, <2>2 DEF ReadOrder
  <1>11. CASE SaveOrder(w)
    BY <1>11 DEF SaveOrder
  <1>12. CASE LogStatus(w)
    <2>1. CASE req[w].kind \in {"accept", "prepare", "pickup", "ready"}
      <3>1. Goto(w, "idle", {}) \/ (req[w].kind = "ready" /\ Goto(w, "assign", {}))
        BY <1>12, <2>1 DEF LogStatus
      <3>2. Answered(w) \/ (req[w].kind = "ready" /\ Moved(w, "assign", {}))
        BY <3>1, GotoEffect
      <3>3. QED
        BY <1>12, <3>2, AnsweredShape DEF LogStatus, Moved
    <2>2. CASE req[w].kind = "deliver"
      <3>1. \E due : Goto(w, "codPaid", due) \/ Goto(w, "ledgerCheck", due)
        BY <1>12, <2>2 DEF LogStatus
      <3>2. \E due : Moved(w, "codPaid", due) \/ Moved(w, "ledgerCheck", due)
        BY <3>1, GotoEffect
      <3>3. /\ \A v \in Workers \ {w} : req'[v] = req[v]
            /\ req'[w].pc \in {"codPaid", "ledgerCheck"}
            /\ req'[w].kind = "deliver"
            /\ req'[w].o \in Orders
        BY <1>12, <2>2, <3>2 DEF LogStatus, Moved
      <3>4. QED
        BY <3>3
    <2>3. CASE req[w].kind \in {"cancel", "reject"}
      <3>1. \E S : Record(w, S)
        BY <1>12, <2>3 DEF LogStatus
      <3>2. QED
        BY <1>12, <2>3, <3>1, RecordShape DEF LogStatus
    <2>4. QED
      BY <1>12, <2>1, <2>2, <2>3, MovesKinds DEF LogStatus
  <1>13. CASE CodPaid(w)
    BY <1>13 DEF CodPaid
  <1>14. CASE LedgerCheck(w)
    <2>1. CASE Goto(w, "ledgerWrite", req[w].due)
      BY <1>14, <2>1 DEF LedgerCheck
    <2>2. CASE \E S : Record(w, S)
      BY <1>14, <2>2, RecordShape DEF LedgerCheck
    <2>3. QED
      BY <1>14, <2>1, <2>2 DEF LedgerCheck
  <1>15. CASE LedgerWrite(w)
    <2>1. \E S : Record(w, S)
      BY <1>15 DEF LedgerWrite
    <2>2. QED
      BY <1>15, <2>1, RecordShape DEF LedgerWrite
  <1>16. CASE Restock(w)
    BY <1>16 DEF Restock
  <1>17. CASE RefundPayments(w)
    BY <1>17 DEF RefundPayments
  <1>18. CASE RefundOrder(w)
    BY <1>18 DEF RefundOrder
  <1>19. CASE CreateAssignment(w)
    BY <1>19 DEF CreateAssignment
  <1>20. CASE InsertPayment(w)
    BY <1>20 DEF InsertPayment
  <1>21. CASE MarkPayment(w)
    BY <1>21 DEF MarkPayment
  <1>22. CASE MarkOrder(w)
    BY <1>22 DEF MarkOrder
  <1>23. CASE LedgerFails(w)
    BY <1>23 DEF LedgerFails
  <1>24. CASE Crash(w)
    BY <1>24 DEF Crash
  <1>25. ASSUME NEW o \in Orders, BidCreate(w, o) PROVE Shape'
    BY <1>25, ConstantsAssumption DEF BidCreate, AssignedTo, NoAssignment
  <1>26. ASSUME NEW o \in Orders, BidAccept(w, o) PROVE Shape'
    BY <1>26 DEF BidAccept, AssignedTo, NoAssignment
  <1>27. CASE SaveBid(w)
    BY <1>27 DEF SaveBid
  <1>28. CASE AssignBidder(w)
    <2>1. CASE Goto(w, "idle", {})
      BY <2>1
    <2>2. CASE Goto(w, "bidAccept", {})
      BY <1>28, <2>2 DEF AssignBidder, Request
    <2>3. QED
      BY <1>28, <2>1, <2>2 DEF AssignBidder
  <1>29. CASE AcceptBid(w)
    BY <1>29 DEF AcceptBid, Request
  <1>30. CASE RejectOthers(w)
    BY <1>30 DEF RejectOthers
  <1>31. QED
    BY <1>1, <1>2, <1>3, <1>4, <1>5, <1>6, <1>7, <1>8, <1>9, <1>10, <1>11, <1>12, <1>13,
       <1>14, <1>15, <1>16, <1>17, <1>18, <1>19, <1>20, <1>21, <1>22, <1>23, <1>24,
       <1>25, <1>26, <1>27, <1>28, <1>29, <1>30
    DEF Arrive, Step

-----------------------------------------------------------------------------
\* A held row is at a stage its order has had, and the status each request is
\* about to write is next to one its order has had.
LEMMA AnsweredStages ==
    ASSUME Stages, NEW w \in Workers, Answered(w), UNCHANGED reached,
           \A o \in Orders : order'[o].status = order[o].status
    PROVE  Stages'
  BY DEF Stages, Answered, Idle, Ledgering, Undoing

\* A request that goes on past its log keeps Stages.
LEMMA MovedStages ==
    ASSUME Stages, NEW w \in Workers, NEW pc, NEW due, Moved(w, pc, due), UNCHANGED reached,
           \A o \in Orders : order'[o].status = order[o].status,
           pc \notin {"save", "log"},
           pc \in {"assign"} \cup Ledgering \cup Undoing /\ req[w].kind \in Moves =>
               Target[req[w].kind] \in reached[req[w].o]
    PROVE  Stages'
  BY DEF Stages, Moved

LEMMA StagesStep ==
    ASSUME TypeOK, Shape, Stages, NEW w \in Workers,
           Arrive(w) \/ Step(w) \/ LedgerFails(w) \/ Crash(w)
    PROVE  Stages'
  <1> USE DEF TypeOK
  <1>0. /\ {"cancel", "reject"} \subseteq Moves
        /\ "markPaid" \notin Moves
    BY MovesKinds
  <1>1. ASSUME NEW o \in Orders, VendorOrderAction(w, o) PROVE Stages'
    BY <1>1 DEF VendorOrderAction, Stages, Begin, Idle, Allowed, Ledgering, Undoing
  <1>2. ASSUME NEW o \in Orders, OrderCancel(w, o) PROVE Stages'
    BY <1>2 DEF OrderCancel, Stages, Begin, Idle, Ledgering, Undoing, TRANSITIONS, Target,
                PENDING, CONFIRMED, CANCELLED
  <1>3. ASSUME NEW o \in Orders, ConfirmPickup(w, o) PROVE Stages'
    BY <1>3 DEF ConfirmPickup, Stages, Begin, Idle, Ledgering, Undoing
  <1>4. ASSUME NEW o \in Orders, ConfirmDeliver(w, o) PROVE Stages'
    BY <1>4 DEF ConfirmDeliver, Stages, Begin, Idle, Ledgering, Undoing
  <1>5. ASSUME NEW o \in Orders, PaymentCreate(w, o) PROVE Stages'
    BY <1>5 DEF PaymentCreate, Stages, Begin, Idle, Ledgering, Undoing
  <1>6. ASSUME NEW o \in Orders, PaymentCreateCod(w, o) PROVE Stages'
    <2>1. \A x \in Orders : order'[x].status = order[x].status
      BY <1>6 DEF PaymentCreateCod, OrderRow
    <2>2. QED
      BY <1>6, <2>1 DEF PaymentCreateCod, Stages
  <1>7. ASSUME NEW p \in Payments, PaymentPaid(w, p) PROVE Stages'
    BY <1>7 DEF PaymentPaid, Stages, Begin, Idle, Ledgering, Undoing
  <1>8. ASSUME NEW p \in Payments, PaymentFailed(w, p) PROVE Stages'
    BY <1>8 DEF PaymentFailed, Stages
  <1>9. CASE SaveAssignment(w)
    BY <1>9, MovedStages, GotoEffect DEF SaveAssignment, Ledgering, Undoing
  <1>10. CASE ReadOrder(w)
    <2>1. CASE req' = [req EXCEPT ![w].pc = "save", ![w].row = order[req[w].o]]
      <3>1. Allowed(order[req[w].o], req[w].kind) \/ Goto(w, "idle", {})
        BY <1>10 DEF ReadOrder
      <3>2. CASE Allowed(order[req[w].o], req[w].kind)
        <4>1. /\ \A v \in Workers \ {w} : req'[v] = req[v]
              /\ req'[w].pc = "save"
              /\ req'[w].row = order[req[w].o]
              /\ req'[w].o = req[w].o
              /\ req'[w].kind = req[w].kind
          BY <2>1 DEF Request
        <4>2. QED
          BY <1>10, <3>2, <4>1 DEF ReadOrder, Stages, Shape, Allowed, Ledgering, Undoing
      <3>3. CASE Goto(w, "idle", {})
        BY <1>10, <3>3, AnsweredStages, GotoEffect DEF ReadOrder
      <3>4. QED
        BY <3>1, <3>2, <3>3
    <2>2. CASE Goto(w, "idle", {})
      BY <1>10, <2>2, AnsweredStages, GotoEffect DEF ReadOrder
    <2>3. QED
      BY <1>10, <2>1, <2>2 DEF ReadOrder
  <1>11. CASE SaveOrder(w)
    <2>1. Moved(w, "log", {})
      BY <1>11, GotoEffect DEF SaveOrder
    <2>2. req[w].o \in Orders
      BY <1>11 DEF SaveOrder, Shape
    <2>3. /\ \A o \in Orders : reached[o] \subseteq reached'[o]
          /\ Target[req[w].kind] \in reached'[req[w].o]
      BY <1>11, <2>2 DEF SaveOrder
    <2>4. \A o \in Orders : order'[o].status \in reached'[o]
      BY <1>11, <2>2, <2>3 DEF SaveOrder, Stages, OrderRow, Request
    <2>5. \A v \in Workers : req[v].pc # "idle" => req[v].o \in Orders
      BY DEF Shape
    <2>6. ASSUME NEW v \in Workers
          PROVE  /\ req'[v].pc \in {"save", "log"} =>
                       /\ req'[v].row.status \in reached'[req'[v].o]
                       /\ <<req'[v].row.status, Target[req'[v].kind]>> \in TRANSITIONS
                 /\ req'[v].pc \in {"log", "assign"} \cup Ledgering \cup Undoing
                       /\ req'[v].kind \in Moves => Target[req'[v].kind] \in reached'[req'[v].o]
      <3>1. CASE v = w
        BY <1>11, <2>1, <2>2, <2>3, <3>1 DEF SaveOrder, Moved, Stages
      <3>2. CASE v # w
        <4>1. req'[v] = req[v]
          BY <2>1, <3>2 DEF Moved
        <4>2. req[v].pc # "idle" => reached[req[v].o] \subseteq reached'[req[v].o]
          BY <2>3, <2>5
        <4>3. QED
          BY <4>1, <4>2 DEF Stages, Ledgering, Undoing
      <3>3. QED
        BY <3>1, <3>2
    <2>7. QED
      BY <2>4, <2>6 DEF Stages
  <1>12. CASE LogStatus(w)
    <2>1. Target[req[w].kind] \in reached[req[w].o]
      BY <1>12 DEF LogStatus, Stages, Shape
    <2>2. CASE Goto(w, "idle", {})
      BY <1>12, <2>2, AnsweredStages, GotoEffect DEF LogStatus
    <2>3. ASSUME NEW pc \in {"assign", "codPaid", "ledgerCheck"}, NEW due, Goto(w, pc, due)
          PROVE  Stages'
      BY <1>12, <2>1, <2>3, MovedStages, GotoEffect DEF LogStatus
    <2>4. ASSUME NEW S, Record(w, S) PROVE Stages'
      BY <1>12, <2>1, <2>4, MovedStages, AnsweredStages, RecordEffect DEF LogStatus
    <2>5. QED
      BY <1>12, <2>2, <2>3, <2>4 DEF LogStatus
  <1>13. CASE CodPaid(w)
    <2>1. \A o \in Orders : order'[o].status = order[o].status
      BY <1>13 DEF CodPaid, OrderRow
    <2>2. req[w].kind \in Moves => Target[req[w].kind] \in reached[req[w].o]
      BY <1>13 DEF CodPaid, Stages, Ledgering
    <2>3. Moved(w, "ledgerCheck", req[w].due)
      BY <1>13, GotoEffect DEF CodPaid
    <2>4. UNCHANGED reached
      BY <1>13 DEF CodPaid
    <2>5. QED
      BY <2>1, <2>2, <2>3, <2>4, MovedStages
  <1>14. CASE LedgerCheck(w)
    <2>1. req[w].kind \in Moves => Target[req[w].kind] \in reached[req[w].o]
      BY <1>14 DEF LedgerCheck, Stages, Ledgering
    <2>2. CASE Goto(w, "ledgerWrite", req[w].due)
      <3>1. Moved(w, "ledgerWrite", req[w].due)
        BY <2>2, GotoEffect
      <3>2. QED
        BY <1>14, <2>1, <3>1, MovedStages DEF LedgerCheck
    <2>3. ASSUME NEW S, Record(w, S) PROVE Stages'
      BY <1>14, <2>1, <2>3, MovedStages, AnsweredStages, RecordEffect DEF LedgerCheck
    <2>4. QED
      BY <1>14, <2>2, <2>3 DEF LedgerCheck
  <1>15. CASE LedgerWrite(w)
    <2>1. req[w].kind \in Moves => Target[req[w].kind] \in reached[req[w].o]
      BY <1>15 DEF LedgerWrite, Stages, Ledgering
    <2>2. ASSUME NEW S, Record(w, S) PROVE Stages'
      BY <1>15, <2>1, <2>2, MovedStages, AnsweredStages, RecordEffect DEF LedgerWrite
    <2>3. QED
      BY <1>15, <2>2 DEF LedgerWrite
  <1>16. CASE Restock(w)
    <2>1. req[w].kind \in Moves => Target[req[w].kind] \in reached[req[w].o]
      BY <1>16 DEF Restock, Stages, Undoing
    <2>2. Goto(w, "refundPayments", {}) \/ Goto(w, "idle", {})
      BY <1>16 DEF Restock
    <2>3. QED
      BY <1>16, <2>1, <2>2, MovedStages, AnsweredStages, GotoEffect DEF Restock
  <1>17. CASE RefundPayments(w)
    <2>1. req[w].kind \in Moves => Target[req[w].kind] \in reached[req[w].o]
      BY <1>17 DEF RefundPayments, Stages, Undoing
    <2>2. QED
      BY <1>17, <2>1, MovedStages, GotoEffect DEF RefundPayments
  <1>18. CASE RefundOrder(w)
    <2>1. \A o \in Orders : order'[o].status = order[o].status
      BY <1>18 DEF RefundOrder, OrderRow
    <2>2. QED
      BY <1>18, <2>1, AnsweredStages, GotoEffect DEF RefundOrder
  <1>19. CASE CreateAssignment(w)
    BY <1>19, AnsweredStages, GotoEffect DEF CreateAssignment
  <1>20. CASE InsertPayment(w)
    BY <1>20, AnsweredStages, GotoEffect DEF InsertPayment
  <1>21. CASE MarkPayment(w)
    BY <1>21, MovedStages, GotoEffect DEF MarkPayment, Ledgering, Undoing
  <1>22. CASE MarkOrder(w)
    <2>1. \A o \in Orders : order'[o].status = order[o].status
      BY <1>22 DEF MarkOrder, OrderRow
    <2>2. req[w].kind \notin Moves
      BY <1>0, <1>22 DEF MarkOrder, Shape
    <2>3. Moved(w, "ledgerCheck", {"order_charge"})
      BY <1>22, GotoEffect DEF MarkOrder
    <2>4. QED
      BY <1>22, <2>1, <2>2, <2>3, MovedStages DEF MarkOrder
  <1>23. CASE LedgerFails(w)
    <2>1. req[w].kind \in Moves => Target[req[w].kind] \in reached[req[w].o]
      BY <1>23 DEF LedgerFails, Stages, Ledgering
    <2>2. Goto(w, "restock", {}) \/ Goto(w, "idle", {})
      BY <1>23 DEF LedgerFails, AfterLedger
    <2>3. QED
      BY <1>23, <2>1, <2>2, MovedStages, AnsweredStages, GotoEffect DEF LedgerFails
  <1>24. CASE Crash(w)
    BY <1>24, AnsweredStages, GotoEffect DEF Crash
  <1>25. ASSUME NEW o \in Orders, BidCreate(w, o) PROVE Stages'
    BY <1>25 DEF BidCreate, Stages, Begin, Idle, Ledgering, Undoing
  <1>26. ASSUME NEW o \in Orders, BidAccept(w, o) PROVE Stages'
    BY <1>26 DEF BidAccept, Stages, Begin, Idle, Ledgering, Undoing
  <1>27. CASE SaveBid(w) \/ RejectOthers(w)
    BY <1>27, AnsweredStages, GotoEffect DEF SaveBid, RejectOthers
  <1>28. CASE AssignBidder(w)
    <2>1. Goto(w, "idle", {}) \/ Goto(w, "bidAccept", {})
      BY <1>28 DEF AssignBidder
    <2>2. QED
      BY <1>28, <2>1, MovedStages, AnsweredStages, GotoEffect
      DEF AssignBidder, Ledgering, Undoing
  <1>29. CASE AcceptBid(w)
    BY <1>29, MovedStages, GotoEffect DEF AcceptBid, Ledgering, Undoing
  <1>30. QED
    BY <1>1, <1>2, <1>3, <1>4, <1>5, <1>6, <1>7, <1>8, <1>9, <1>10, <1>11, <1>12, <1>13,
       <1>14, <1>15, <1>16, <1>17, <1>18, <1>19, <1>20, <1>21, <1>22, <1>23, <1>24,
       <1>25, <1>26, <1>27, <1>28, <1>29
    DEF Arrive, Step

-----------------------------------------------------------------------------
\* What worker w does in one step of the specification.
Acts(w) == Arrive(w) \/ Step(w) \/ LedgerFails(w) \/ Crash(w)

\* Only transition_order's save gives an order a new stage.
LEMMA WhoWritesStages ==
    ASSUME NEW w \in Workers, Acts(w)
    PROVE  UNCHANGED reached \/ SaveOrder(w)
  BY DEF Acts, Arrive, Step, VendorOrderAction, OrderCancel, ConfirmPickup, ConfirmDeliver, BidCreate,
         BidAccept, SaveBid, AssignBidder, AcceptBid, RejectOthers,
         PaymentCreate, PaymentCreateCod, PaymentPaid, PaymentFailed, SaveAssignment, ReadOrder,
         LogStatus, CodPaid, LedgerCheck, LedgerWrite, Restock, RefundPayments, RefundOrder,
         CreateAssignment, InsertPayment, MarkPayment, MarkOrder, LedgerFails, Crash

\* Only a partner's confirmation, create_assignment_for_order and an accepted bid
\* write assignments.
LEMMA WhoWritesAssignments ==
    ASSUME NEW w \in Workers, Acts(w)
    PROVE  UNCHANGED assignment \/ SaveAssignment(w) \/ CreateAssignment(w) \/ AssignBidder(w)
  BY DEF Acts, Arrive, Step, VendorOrderAction, OrderCancel, ConfirmPickup, ConfirmDeliver, BidCreate,
         BidAccept, SaveBid, AcceptBid, RejectOthers,
         PaymentCreate, PaymentCreateCod, PaymentPaid, PaymentFailed, SaveOrder, ReadOrder,
         LogStatus, CodPaid, LedgerCheck, LedgerWrite, Restock, RefundPayments, RefundOrder,
         InsertPayment, MarkPayment, MarkOrder, LedgerFails, Crash

\* Only the bidding board writes bids.
LEMMA WhoWritesBids ==
    ASSUME NEW w \in Workers, Acts(w)
    PROVE  UNCHANGED bid \/ SaveBid(w) \/ AcceptBid(w) \/ RejectOthers(w)
  BY DEF Acts, Arrive, Step, VendorOrderAction, OrderCancel, ConfirmPickup, ConfirmDeliver,
         BidCreate, BidAccept, AssignBidder, PaymentCreate, PaymentCreateCod, PaymentPaid,
         PaymentFailed, SaveAssignment, SaveOrder, ReadOrder, LogStatus, CodPaid, LedgerCheck,
         LedgerWrite, Restock, RefundPayments, RefundOrder, CreateAssignment, InsertPayment,
         MarkPayment, MarkOrder, LedgerFails, Crash

\* A step of one worker leaves the requests of the others alone.
LEMMA OthersWait ==
    ASSUME TypeOK, NEW w \in Workers, Acts(w), NEW v \in Workers \ {w}
    PROVE  req'[v] = req[v]
  BY DEF Acts, Arrive, Step, VendorOrderAction, OrderCancel, ConfirmPickup, ConfirmDeliver,
         BidCreate, BidAccept, SaveBid, AssignBidder, AcceptBid, RejectOthers, PaymentCreate,
         PaymentCreateCod, PaymentPaid, PaymentFailed, SaveAssignment, ReadOrder, SaveOrder,
         LogStatus, CodPaid, LedgerCheck, LedgerWrite, Restock, RefundPayments, RefundOrder,
         CreateAssignment, InsertPayment, MarkPayment, MarkOrder, LedgerFails, Crash, Goto,
         Record, Begin, TypeOK

\* Who stands at a statement of the bidding board stood there before, or has
\* just taken a request of the board.
LEMMA WhoBids ==
    ASSUME TypeOK, Shape, NEW w \in Workers, Acts(w), NEW v \in Workers,
           req'[v].pc \in {"bidSave"} \cup Accepting
    PROVE  \/ /\ req'[v].o = req[v].o
              /\ req[v].pc \in {"bidSave"} \cup Accepting
           \/ v = w /\ \E o \in Orders : BidCreate(w, o) \/ BidAccept(w, o)
  <1>1. CASE v # w
    BY <1>1, OthersWait
  <1>2. CASE v = w
    <2>1. ASSUME NEW pc, NEW due, Goto(w, pc, due), pc \notin {"bidSave"} \cup Accepting
          PROVE  FALSE
      BY <1>2, <2>1, GotoEffect DEF Answered, Moved, Idle, Accepting, TypeOK
    <2>2. ASSUME NEW S, Record(w, S) PROVE FALSE
      BY <1>2, <2>2, RecordEffect DEF Answered, Moved, Idle, Accepting, TypeOK
    <2>3. CASE AssignBidder(w) \/ AcceptBid(w)
      <3>1. \E pc \in {"idle", "bidAccept", "bidReject"} : Goto(w, pc, {})
        BY <2>3 DEF AssignBidder, AcceptBid
      <3>2. Answered(w) \/ \E pc \in {"bidAccept", "bidReject"} : Moved(w, pc, {})
        BY <3>1, GotoEffect DEF TypeOK
      <3>3. req'[w].o = req[w].o
        BY <1>2, <3>2 DEF Answered, Moved, Idle, Accepting
      <3>4. QED
        BY <1>2, <2>3, <3>3 DEF AssignBidder, AcceptBid, Accepting
    <2>4. CASE \/ SaveAssignment(w) \/ SaveOrder(w) \/ CodPaid(w) \/ RefundPayments(w)
               \/ RefundOrder(w) \/ CreateAssignment(w) \/ InsertPayment(w) \/ MarkPayment(w)
               \/ MarkOrder(w) \/ SaveBid(w) \/ RejectOthers(w) \/ Restock(w)
               \/ LedgerFails(w) \/ Crash(w)
      BY <2>1, <2>4 DEF SaveAssignment, SaveOrder, CodPaid, RefundPayments, RefundOrder,
         CreateAssignment, InsertPayment, MarkPayment, MarkOrder, SaveBid, RejectOthers,
         Restock, LedgerFails, AfterLedger, Crash, Accepting
    <2>5. CASE LogStatus(w)
      BY <2>1, <2>2, <2>5 DEF LogStatus, Accepting
    <2>6. CASE LedgerCheck(w) \/ LedgerWrite(w)
      <3>1. Goto(w, "ledgerWrite", req[w].due) \/ \E S : Record(w, S)
        BY <2>6 DEF LedgerCheck, LedgerWrite
      <3>2. QED
        BY <2>1, <2>2, <3>1 DEF Accepting
    <2>7. CASE ReadOrder(w)
      <3>1. CASE req' = [req EXCEPT ![w].pc = "save", ![w].row = order[req[w].o]]
        BY <1>2, <3>1 DEF TypeOK, Request, Accepting
      <3>2. CASE Goto(w, "idle", {})
        BY <2>1, <3>2 DEF Accepting
      <3>3. QED
        BY <2>7, <3>1, <3>2 DEF ReadOrder
    <2>8. CASE Arrive(w)
      <3>1. ASSUME NEW r, Begin(w, r), r.pc \notin {"bidSave"} \cup Accepting PROVE FALSE
        BY <1>2, <3>1 DEF Begin, TypeOK
      <3>2. ASSUME NEW o \in Orders, VendorOrderAction(w, o) PROVE FALSE
        <4>1. PICK k : Begin(w, [Idle EXCEPT !.pc = "save", !.kind = k, !.o = o,
                                            !.row = order[o]])
          BY <3>2 DEF VendorOrderAction
        <4>2. [Idle EXCEPT !.pc = "save", !.kind = k, !.o = o, !.row = order[o]].pc = "save"
          BY DEF Idle
        <4>3. QED
          BY <3>1, <4>1, <4>2 DEF Accepting
      <3>3. ASSUME NEW o \in Orders, OrderCancel(w, o) \/ ConfirmPickup(w, o)
                                        \/ ConfirmDeliver(w, o) \/ PaymentCreate(w, o)
            PROVE  FALSE
        BY <3>1, <3>3 DEF OrderCancel, ConfirmPickup, ConfirmDeliver, PaymentCreate, Idle,
           Accepting
      <3>4. ASSUME NEW p \in Payments, PaymentPaid(w, p) PROVE FALSE
        BY <3>1, <3>4 DEF PaymentPaid, Idle, Accepting
      <3>5. CASE UNCHANGED req
        BY <3>5
      <3>6. QED
        BY <1>2, <2>8, <3>2, <3>3, <3>4, <3>5 DEF Arrive, PaymentCreateCod, PaymentFailed
    <2>9. QED
      BY <2>3, <2>4, <2>5, <2>6, <2>7, <2>8 DEF Acts, Step
  <1>3. QED
    BY <1>1, <1>2

LEMMA StagesInOrderStep ==
    ASSUME TypeOK, Shape, Stages, StagesInOrder, NEW w \in Workers, Acts(w)
    PROVE  StagesInOrder'
  <1>1. CASE UNCHANGED reached
    BY <1>1 DEF StagesInOrder
  <1>2. CASE SaveOrder(w)
    <2>1. /\ req[w].o \in Orders
          /\ req[w].row.status \in reached[req[w].o]
          /\ <<req[w].row.status, Target[req[w].kind]>> \in TRANSITIONS
      BY <1>2 DEF SaveOrder, Shape, Stages
    <2>2. reached' = [reached EXCEPT ![req[w].o] = @ \cup {Target[req[w].kind]}]
      BY <1>2 DEF SaveOrder
    <2>3. QED
      BY <2>1, <2>2 DEF TypeOK, StagesInOrder
  <1>3. QED
    BY <1>1, <1>2, WhoWritesStages

\* A stage once reached stays reached.
LEMMA StagesStay ==
    ASSUME TypeOK, NEW w \in Workers, Acts(w), NEW o \in Orders
    PROVE  reached[o] \subseteq reached'[o]
  <1>1. CASE SaveOrder(w)
    BY <1>1 DEF SaveOrder, TypeOK
  <1>2. QED
    BY <1>1, WhoWritesStages

\* An order keeps its partner: confirmations write back the one they have read.
LEMMA AssignmentsStay ==
    ASSUME TypeOK, Shape, Carrying, NEW w \in Workers, Acts(w),
           NEW o \in Orders, assignment[o].partner # None
    PROVE  assignment'[o].partner = assignment[o].partner
  <1>1. CASE UNCHANGED assignment
    BY <1>1
  <1>2. CASE SaveAssignment(w)
    <2>1. assignment[req[w].o].partner = req[w].asg.partner
      BY <1>2 DEF SaveAssignment, Carrying
    <2>2. QED
      BY <1>2, <2>1 DEF SaveAssignment, TypeOK
  <1>3. CASE CreateAssignment(w)
    BY <1>3 DEF CreateAssignment, TypeOK, Assigned
  <1>4. CASE AssignBidder(w)
    BY <1>4 DEF AssignBidder, TypeOK, Assigned
  <1>5. QED
    BY <1>1, <1>2, <1>3, <1>4, WhoWritesAssignments

\* What Carrying says of worker v, in the next state.
Carries(v) ==
    /\ req'[v].pc # "idle" /\ req'[v].kind \in {"pickup", "deliver"} =>
          assignment'[req'[v].o].partner # None
    /\ req'[v].pc \in {"saveAssignment", "bidAccept"} =>
          assignment'[req'[v].o].partner = req'[v].asg.partner

LEMMA CarryingStep ==
    ASSUME TypeOK, Shape, Carrying, NEW w \in Workers, Acts(w)
    PROVE  Carrying'
  <1>1. \A o \in Orders : assignment[o].partner # None =>
                              assignment'[o].partner = assignment[o].partner
    BY AssignmentsStay
  <1>2. \A v \in Workers :
            /\ req[v].pc # "idle" => req[v].o \in Orders
            /\ req[v].pc # "idle" /\ req[v].kind \in {"pickup", "deliver"} =>
                  assignment[req[v].o].partner # None
            /\ req[v].pc \in {"saveAssignment", "bidAccept"} =>
                  /\ assignment[req[v].o].partner = req[v].asg.partner
                  /\ req[v].asg.partner # None
    BY ConstantsAssumption DEF Shape, Carrying, Assigned, Accepting
  <1>3. ASSUME NEW v \in Workers, req'[v] = req[v] PROVE Carries(v)
    BY <1>1, <1>2, <1>3 DEF Carries
  <1>4. ASSUME Answered(w) PROVE Carries(w)
    <2>1. req'[w].pc = "idle"
      BY <1>4 DEF Answered, Idle
    <2>2. QED
      BY <2>1 DEF Carries
  <1>5. ASSUME NEW pc, NEW due, Moved(w, pc, due), pc \notin {"saveAssignment", "bidAccept"},
               req[w].pc # "idle"
        PROVE  Carries(w)
    BY <1>1, <1>2, <1>5 DEF Carries, Moved
  <1>6. ASSUME NEW S, Record(w, S), req[w].pc # "idle" PROVE Carries(w)
    BY <1>4, <1>5, <1>6, RecordEffect DEF TypeOK
  <1>7. ASSUME NEW pc, NEW due, Goto(w, pc, due), pc \notin {"saveAssignment", "bidAccept"},
               req[w].pc # "idle"
        PROVE  Carries(w)
    BY <1>4, <1>5, <1>7, GotoEffect DEF TypeOK
  <1>8. ASSUME Arrive(w) PROVE Carries(w)
    <2>1. ASSUME NEW o \in Orders, ConfirmPickup(w, o) \/ ConfirmDeliver(w, o)
          PROVE  Carries(w)
      <3>1. /\ assignment[o].partner # None
            /\ assignment'[o].partner = assignment[o].partner
        BY <1>1, <2>1 DEF ConfirmPickup, ConfirmDeliver, Assigned
      <3>2. req'[w].o = o /\ req'[w].asg.partner = assignment[o].partner
                          /\ req'[w].pc = "saveAssignment"
        <4>1. CASE ConfirmPickup(w, o)
          BY <4>1 DEF ConfirmPickup, Begin, Idle, AssignmentRow, TypeOK
        <4>2. CASE ConfirmDeliver(w, o)
          BY <4>2 DEF ConfirmDeliver, Begin, Idle, AssignmentRow, TypeOK
        <4>3. QED
          BY <2>1, <4>1, <4>2
      <3>3. QED
        BY <3>1, <3>2 DEF Carries
    <2>2. ASSUME NEW r, Begin(w, r), r.kind \notin {"pickup", "deliver"},
                 r.pc \notin {"saveAssignment", "bidAccept"}
          PROVE  Carries(w)
      BY <2>2 DEF Begin, Carries, TypeOK
    <2>3. ASSUME NEW o \in Orders, VendorOrderAction(w, o) PROVE Carries(w)
      <3>1. PICK k \in {"accept", "prepare", "ready", "reject"} :
                Begin(w, [Idle EXCEPT !.pc = "save", !.kind = k, !.o = o, !.row = order[o]])
        BY <2>3 DEF VendorOrderAction
      <3>2. /\ [Idle EXCEPT !.pc = "save", !.kind = k, !.o = o, !.row = order[o]].kind = k
            /\ [Idle EXCEPT !.pc = "save", !.kind = k, !.o = o, !.row = order[o]].pc = "save"
        BY DEF Idle
      <3>3. QED
        BY <2>2, <3>1, <3>2
    <2>4. ASSUME NEW o \in Orders, OrderCancel(w, o) PROVE Carries(w)
      BY <2>2, <2>4 DEF OrderCancel, Idle
    <2>5. ASSUME NEW o \in Orders, PaymentCreate(w, o) PROVE Carries(w)
      BY <2>2, <2>5 DEF PaymentCreate, Idle
    <2>6. ASSUME NEW p \in Payments, PaymentPaid(w, p) PROVE Carries(w)
      BY <2>2, <2>6 DEF PaymentPaid, Idle
    <2>7. ASSUME NEW o \in Orders, BidCreate(w, o) PROVE Carries(w)
      BY <2>2, <2>7 DEF BidCreate, Idle
    <2>8. ASSUME NEW o \in Orders, BidAccept(w, o) PROVE Carries(w)
      BY <2>2, <2>8 DEF BidAccept, Idle
    <2>9. CASE UNCHANGED req
      BY <1>3, <2>9
    <2>10. QED
      BY <1>8, <2>1, <2>3, <2>4, <2>5, <2>6, <2>7, <2>8, <2>9
      DEF Arrive, PaymentCreateCod, PaymentFailed
  <1>9. ASSUME ReadOrder(w) PROVE Carries(w)
    <2>1. CASE req' = [req EXCEPT ![w].pc = "save", ![w].row = order[req[w].o]]
      <3>1. /\ req'[w].pc = "save"
            /\ req'[w].o = req[w].o
            /\ req'[w].kind = req[w].kind
        BY <2>1 DEF Request, TypeOK
      <3>2. QED
        BY <1>1, <1>2, <1>9, <3>1 DEF Carries, ReadOrder
    <2>2. CASE Goto(w, "idle", {})
      BY <1>7, <1>9, <2>2 DEF ReadOrder
    <2>3. QED
      BY <1>9, <2>1, <2>2 DEF ReadOrder
  <1>10. ASSUME AssignBidder(w) PROVE Carries(w)
    <2>1. CASE Goto(w, "idle", {})
      BY <1>7, <1>10, <2>1 DEF AssignBidder
    <2>2. CASE Goto(w, "bidAccept", {}) /\ assignment' = [assignment EXCEPT ![req[w].o] = req[w].asg]
      <3>1. Moved(w, "bidAccept", {})
        BY <2>2, GotoEffect DEF TypeOK
      <3>2. assignment'[req[w].o].partner = req[w].asg.partner
        BY <1>2, <1>10, <2>2 DEF AssignBidder, TypeOK
      <3>3. req[w].kind = "acceptBid"
        BY <1>10 DEF AssignBidder, Shape, Accepting
      <3>4. QED
        BY <3>1, <3>2, <3>3 DEF Moved, Carries
    <2>3. QED
      BY <1>10, <2>1, <2>2 DEF AssignBidder
  <1>11. ASSUME LogStatus(w) \/ LedgerCheck(w) \/ LedgerWrite(w) \/ Restock(w) PROVE Carries(w)
    <2>1. req[w].pc # "idle"
      BY <1>11 DEF LogStatus, LedgerCheck, LedgerWrite, Restock
    <2>2. \/ \E S : Record(w, S)
          \/ \E pc, due : Goto(w, pc, due) /\ pc \notin {"saveAssignment", "bidAccept"}
      <3>1. CASE LogStatus(w)
        BY <3>1 DEF LogStatus
      <3>2. CASE LedgerCheck(w) \/ LedgerWrite(w)
        <4>1. CASE Goto(w, "ledgerWrite", req[w].due)
          BY <4>1
        <4>2. CASE \E r \in LedgerReason : Record(w, req[w].due \ {r})
          BY <4>2
        <4>3. QED
          BY <3>2, <4>1, <4>2 DEF LedgerCheck, LedgerWrite
      <3>3. CASE Restock(w)
        BY <3>3 DEF Restock
      <3>4. QED
        BY <1>11, <3>1, <3>2, <3>3
    <2>3. QED
      BY <1>6, <1>7, <2>1, <2>2
  <1>12. ASSUME \/ SaveAssignment(w) \/ SaveOrder(w) \/ CodPaid(w) \/ RefundPayments(w)
                \/ RefundOrder(w) \/ CreateAssignment(w) \/ InsertPayment(w) \/ MarkPayment(w)
                \/ MarkOrder(w) \/ SaveBid(w) \/ AcceptBid(w) \/ RejectOthers(w)
         PROVE  Carries(w)
    BY <1>7, <1>12 DEF SaveAssignment, SaveOrder, CodPaid, RefundPayments, RefundOrder,
       CreateAssignment, InsertPayment, MarkPayment, MarkOrder, SaveBid, AcceptBid, RejectOthers
  <1>13. ASSUME LedgerFails(w) \/ Crash(w) PROVE Carries(w)
    BY <1>7, <1>13 DEF LedgerFails, Crash, AfterLedger
  <1>14. Carries(w)
    BY <1>8, <1>9, <1>10, <1>11, <1>12, <1>13 DEF Acts, Step
  <1>15. \A v \in Workers : Carries(v)
    BY <1>3, <1>14, OthersWait
  <1>16. QED
    BY <1>15 DEF Carrying, Carries, Assigned

\* A request asks for a stage beyond the store only on behalf of a partner.
LEMMA PartnerTargets ==
    \A k \in Moves : Target[k] \in {OUT_FOR_DELIVERY, DELIVERED} => k \in {"pickup", "deliver"}
  BY MovesKinds DEF Target, PENDING, CONFIRMED, PREPARING, READY_FOR_PICKUP, OUT_FOR_DELIVERY,
                    DELIVERED, CANCELLED

LEMMA HandedToPartnerStep ==
    ASSUME TypeOK, Shape, Stages, BidsOnReady, Carrying, HandedToPartner, NEW w \in Workers,
           Acts(w)
    PROVE  HandedToPartner'
  <1> SUFFICES ASSUME NEW o \in Orders
               PROVE  /\ reached'[o] \cap {OUT_FOR_DELIVERY, DELIVERED} # {} =>
                            assignment'[o].partner # None
                      /\ assignment'[o].partner # None => READY_FOR_PICKUP \in reached'[o]
    BY DEF HandedToPartner, Assigned
  <1>1. /\ reached[o] \cap {OUT_FOR_DELIVERY, DELIVERED} # {} => assignment[o].partner # None
        /\ assignment[o].partner # None => READY_FOR_PICKUP \in reached[o]
    BY DEF HandedToPartner, Assigned
  <1>2. assignment[o].partner # None => assignment'[o].partner # None
    BY AssignmentsStay DEF Assigned
  <1>3. reached[o] \subseteq reached'[o]
    <2>1. CASE SaveOrder(w)
      BY <2>1 DEF SaveOrder, TypeOK
    <2>2. QED
      BY <2>1, WhoWritesStages
  <1>4. reached'[o] \cap {OUT_FOR_DELIVERY, DELIVERED} # {} => assignment'[o].partner # None
    <2>1. CASE UNCHANGED reached
      BY <1>1, <1>2, <2>1
    <2>2. CASE SaveOrder(w) /\ req[w].o = o
      <3>1. /\ req[w].kind \in Moves
            /\ reached'[o] = reached[o] \cup {Target[req[w].kind]}
        BY <2>2 DEF SaveOrder, Shape, TypeOK
      <3>2. Target[req[w].kind] \in {OUT_FOR_DELIVERY, DELIVERED} => assignment[o].partner # None
        BY <2>2, <3>1, PartnerTargets DEF SaveOrder, Carrying, Assigned
      <3>3. QED
        BY <1>1, <1>2, <3>1, <3>2
    <2>3. CASE SaveOrder(w) /\ req[w].o # o
      <3>1. reached'[o] = reached[o]
        BY <2>3 DEF SaveOrder, TypeOK
      <3>2. QED
        BY <1>1, <1>2, <3>1
    <2>4. QED
      BY <2>1, <2>2, <2>3, WhoWritesStages
  <1>5. assignment'[o].partner # None => READY_FOR_PICKUP \in reached'[o]
    <2>1. CASE assignment'[o] = assignment[o]
      BY <1>1, <1>3, <2>1
    <2>2. CASE SaveAssignment(w) /\ req[w].o = o
      BY <1>1, <1>3, <2>2 DEF SaveAssignment, Shape, Carrying, Assigned
    <2>3. CASE CreateAssignment(w) /\ req[w].o = o
      <3>1. Target[req[w].kind] = READY_FOR_PICKUP /\ req[w].kind \in Moves
        BY <2>3, MovesKinds DEF CreateAssignment, Shape, Target
      <3>2. READY_FOR_PICKUP \in reached[o]
        BY <2>3, <3>1 DEF CreateAssignment, Stages
      <3>3. QED
        BY <1>3, <3>2
    <2>4. CASE AssignBidder(w) /\ req[w].o = o
      BY <1>3, <2>4 DEF AssignBidder, BidsOnReady, Accepting
    <2>5. CASE (SaveAssignment(w) \/ CreateAssignment(w) \/ AssignBidder(w)) /\ req[w].o # o
      BY <2>1, <2>5 DEF SaveAssignment, CreateAssignment, AssignBidder, TypeOK
    <2>6. QED
      BY <2>1, <2>2, <2>3, <2>4, <2>5, WhoWritesAssignments
  <1>6. QED
    BY <1>4, <1>5

-----------------------------------------------------------------------------
LEMMA BidsOnReadyStep ==
    ASSUME TypeOK, Shape, BidsOnReady, HandedToPartner, Stages, NEW w \in Workers, Acts(w)
    PROVE  BidsOnReady'
  <1>1. \A o \in Orders : reached[o] \subseteq reached'[o]
    BY StagesStay
  <1>2. \A v \in Workers : req[v].pc # "idle" => req[v].o \in Orders
    BY DEF Shape
  <1>3. ASSUME NEW o \in Orders, NEW d \in Partners, bid'[o][d] # None
        PROVE  READY_FOR_PICKUP \in reached'[o]
    <2>1. CASE bid'[o][d] = bid[o][d]
      BY <1>1, <1>3, <2>1 DEF BidsOnReady
    <2>2. CASE (SaveBid(w) \/ AcceptBid(w)) /\ req[w].o = o
      BY <1>1, <2>2 DEF SaveBid, AcceptBid, BidsOnReady, Accepting
    <2>3. CASE (SaveBid(w) \/ AcceptBid(w)) /\ req[w].o # o
      BY <2>1, <2>3 DEF SaveBid, AcceptBid, TypeOK
    <2>4. CASE RejectOthers(w) /\ req[w].o = o
      BY <1>1, <2>4 DEF RejectOthers, BidsOnReady, Accepting
    <2>5. CASE RejectOthers(w) /\ req[w].o # o
      BY <2>1, <2>5 DEF RejectOthers, TypeOK
    <2>6. QED
      BY <2>1, <2>2, <2>3, <2>4, <2>5, WhoWritesBids
  <1>4. ASSUME NEW v \in Workers, req'[v].pc \in {"bidSave"} \cup Accepting
        PROVE  READY_FOR_PICKUP \in reached'[req'[v].o]
    <2>1. CASE /\ req'[v].o = req[v].o
               /\ req[v].pc \in {"bidSave"} \cup Accepting
      BY <1>1, <1>2, <2>1 DEF BidsOnReady, Accepting
    <2>2. ASSUME NEW o \in Orders, BidCreate(w, o), v = w
          PROVE  READY_FOR_PICKUP \in reached'[req'[v].o]
      BY <1>1, <2>2 DEF BidCreate, Begin, Idle, Stages, TypeOK
    <2>3. ASSUME NEW o \in Orders, BidAccept(w, o), v = w
          PROVE  READY_FOR_PICKUP \in reached'[req'[v].o]
      <3>1. \E d \in Partners : bid[o][d] # None
        BY <2>3, ConstantsAssumption DEF BidAccept, BidStatus
      <3>2. READY_FOR_PICKUP \in reached[o]
        BY <3>1 DEF BidsOnReady
      <3>3. QED
        BY <1>1, <2>3, <3>2 DEF BidAccept, Begin, Idle, TypeOK
    <2>4. QED
      BY <1>4, <2>1, <2>2, <2>3, WhoBids
  <1>5. QED
    BY <1>3, <1>4 DEF BidsOnReady

LEMMA BidderCarriesStep ==
    ASSUME TypeOK, Shape, Carrying, BidderCarries, NEW w \in Workers, Acts(w)
    PROVE  BidderCarries'
  <1> SUFFICES ASSUME NEW o \in Orders, NEW d \in Partners, bid'[o][d] = "accepted"
               PROVE  assignment'[o].partner = d
    BY DEF BidderCarries
  <1>1. assignment[o].partner # None => assignment'[o].partner = assignment[o].partner
    BY AssignmentsStay
  <1>2. CASE bid[o][d] = "accepted"
    BY <1>1, <1>2, ConstantsAssumption DEF BidderCarries
  <1>3. CASE AcceptBid(w) /\ req[w].o = o /\ req[w].asg.partner = d
    BY <1>3 DEF AcceptBid, Carrying
  <1>4. bid[o][d] = "accepted" \/ (AcceptBid(w) /\ req[w].o = o /\ req[w].asg.partner = d)
    <2>1. CASE SaveBid(w)
      BY <2>1 DEF SaveBid, TypeOK
    <2>2. CASE AcceptBid(w)
      BY <2>2 DEF AcceptBid, TypeOK
    <2>3. CASE RejectOthers(w)
      BY <2>3 DEF RejectOthers, TypeOK
    <2>4. QED
      BY <2>1, <2>2, <2>3, WhoWritesBids
  <1>5. QED
    BY <1>2, <1>3, <1>4

-----------------------------------------------------------------------------
\* Who writes the orders table.
LEMMA WhoWritesOrders ==
    ASSUME NEW w \in Workers, Acts(w)
    PROVE  \/ SaveOrder(w) \/ CodPaid(w) \/ RefundOrder(w) \/ MarkOrder(w)
           \/ \E x \in Orders : PaymentCreateCod(w, x)
           \/ UNCHANGED order
  BY DEF Acts, Arrive, Step, VendorOrderAction, OrderCancel, ConfirmPickup, ConfirmDeliver, BidCreate,
       BidAccept, SaveBid, AssignBidder, AcceptBid, RejectOthers,
         PaymentCreate, PaymentPaid, PaymentFailed, SaveAssignment, ReadOrder, LogStatus,
         LedgerCheck, LedgerWrite, Restock, RefundPayments, CreateAssignment, InsertPayment,
         MarkPayment, LedgerFails, Crash

\* An order is paid for as it was placed: transition_order writes back the
\* method it has read, everything else leaves it alone.
LEMMA MethodsStay ==
    ASSUME TypeOK, Shape, Owing, NEW w \in Workers, Acts(w), NEW o \in Orders
    PROVE  order'[o].method = order[o].method
  <1> USE DEF TypeOK, OrderRow
  <1>1. CASE SaveOrder(w)
    BY <1>1 DEF SaveOrder, Owing, Shape, Request
  <1>2. CASE CodPaid(w) \/ RefundOrder(w) \/ MarkOrder(w)
    <2>1. CASE CodPaid(w)
      BY <2>1 DEF CodPaid
    <2>2. CASE RefundOrder(w)
      <3>1. PICK s : order' = [order EXCEPT ![req[w].o].payment_status = s]
        BY <2>2 DEF RefundOrder
      <3>2. QED
        BY <3>1
    <2>3. CASE MarkOrder(w)
      BY <2>3 DEF MarkOrder
    <2>4. QED
      BY <1>2, <2>1, <2>2, <2>3
  <1>3. ASSUME NEW x \in Orders, PaymentCreateCod(w, x) PROVE order'[o].method = order[o].method
    BY <1>3 DEF PaymentCreateCod
  <1>4. \/ SaveOrder(w) \/ CodPaid(w) \/ RefundOrder(w) \/ MarkOrder(w)
        \/ \E x \in Orders : PaymentCreateCod(w, x)
        \/ UNCHANGED order
    BY WhoWritesOrders
  <1>5. QED
    BY <1>1, <1>2, <1>3, <1>4

\* A payment stays with its order; a new one is for the order that asked for it.
LEMMA PaymentsStay ==
    ASSUME TypeOK, NEW w \in Workers, Acts(w), NEW p \in Payments
    PROVE  /\ payment[p].order # None => payment'[p].order = payment[p].order
           /\ payment'[p].order # payment[p].order =>
                 InsertPayment(w) /\ payment'[p].order = req[w].o
  <1> USE DEF TypeOK, PaymentRow
  <1>1. CASE InsertPayment(w)
    <2>1. PICK x \in Payments : /\ ~Exists(x)
                                /\ payment' = [payment EXCEPT ![x].order = req[w].o]
      BY <1>1 DEF InsertPayment
    <2>2. QED
      BY <1>1, <2>1 DEF Exists
  <1>2. CASE RefundPayments(w)
    <2>1. payment'[p] = payment[p] \/ payment'[p] = [payment[p] EXCEPT !.status = "refunded"]
      BY <1>2 DEF RefundPayments
    <2>2. payment'[p].order = payment[p].order
      BY <2>1
    <2>3. QED
      BY <2>2
  <1>3. CASE MarkPayment(w)
    BY <1>3 DEF MarkPayment
  <1>4. ASSUME NEW x \in Payments, PaymentFailed(w, x)
        PROVE  payment'[p].order = payment[p].order
    BY <1>4 DEF PaymentFailed
  <1>5. \/ InsertPayment(w) \/ RefundPayments(w) \/ MarkPayment(w)
        \/ \E x \in Payments : PaymentFailed(w, x)
        \/ UNCHANGED payment
    BY DEF Acts, Arrive, Step, VendorOrderAction, OrderCancel, ConfirmPickup, ConfirmDeliver, BidCreate,
         BidAccept, SaveBid, AssignBidder, AcceptBid, RejectOthers,
           PaymentCreate, PaymentCreateCod, PaymentPaid, SaveAssignment, ReadOrder, SaveOrder,
           LogStatus, CodPaid, LedgerCheck, LedgerWrite, Restock, RefundOrder,
           CreateAssignment, MarkOrder, LedgerFails, Crash
  <1>6. QED
    BY <1>1, <1>2, <1>3, <1>4, <1>5

\* What Owing says of worker v, in the next state.
Owes(v) ==
    /\ req'[v].pc \in {"save", "log"} => req'[v].row.method = order'[req'[v].o].method
    /\ req'[v].pc = "payInsert" => order'[req'[v].o].method = "prepaid"
    /\ req'[v].pc # "idle" /\ req'[v].kind = "markPaid" =>
          \E p \in Payments : payment'[p].order = req'[v].o
    /\ req'[v].pc \in Ledgering => \A r \in req'[v].due :
          \/ req'[v].kind = "markPaid" /\ r = "order_charge"
          \/ req'[v].kind = "deliver" /\ r \in DueOnDelivery(order'[req'[v].o])
          \/ req'[v].kind \in {"cancel", "reject"} /\ r = "order_refund"

LEMMA OwingStep ==
    ASSUME TypeOK, Shape, Owing, NEW w \in Workers, Acts(w)
    PROVE  Owing'
  <1>1. \A o \in Orders : /\ order'[o].method = order[o].method
                          /\ DueOnDelivery(order'[o]) = DueOnDelivery(order[o])
    BY MethodsStay DEF DueOnDelivery
  <1>2. \A o \in Orders : (\E p \in Payments : payment[p].order = o) =>
                          (\E p \in Payments : payment'[p].order = o)
    BY PaymentsStay, ConstantsAssumption
  <1>3. \A p \in Payments : payment'[p].order # None =>
            order'[payment'[p].order].method = "prepaid"
    <2> SUFFICES ASSUME NEW p \in Payments, payment'[p].order # None
                 PROVE  order'[payment'[p].order].method = "prepaid"
      OBVIOUS
    <2>1. CASE payment'[p].order = payment[p].order
      <3>1. payment[p].order \in Orders
        BY <2>1 DEF TypeOK, PaymentRow
      <3>2. QED
        BY <1>1, <2>1, <3>1 DEF Owing, Exists
    <2>2. CASE InsertPayment(w) /\ payment'[p].order = req[w].o
      <3>1. req[w].o \in Orders /\ order[req[w].o].method = "prepaid"
        BY <2>2 DEF InsertPayment, Shape, Owing
      <3>2. QED
        BY <1>1, <2>2, <3>1
    <2>3. QED
      BY <2>1, <2>2, PaymentsStay
  <1>4. ASSUME NEW v \in Workers, req'[v] = req[v] PROVE Owes(v)
    <2>1. req[v].pc # "idle" => req[v].o \in Orders
      BY DEF Shape
    <2>2. QED
      BY <1>1, <1>2, <1>4, <2>1 DEF Owing, Owes, Ledgering
  <1>5. ASSUME req'[w] = Idle PROVE Owes(w)
    <2>1. req'[w].pc = "idle"
      BY <1>5 DEF Idle
    <2>2. QED
      BY <2>1 DEF Owes, Ledgering
  <1>6. ASSUME NEW pc, NEW due, Moved(w, pc, due), req[w].pc # "idle",
               pc \notin {"save", "payInsert"}, pc = "log" => req[w].pc = "save",
               pc \in Ledgering => \A r \in due :
                  \/ req[w].kind = "markPaid" /\ r = "order_charge"
                  \/ req[w].kind = "deliver" /\ r \in DueOnDelivery(order[req[w].o])
                  \/ req[w].kind \in {"cancel", "reject"} /\ r = "order_refund"
        PROVE  Owes(w)
    <2>1. req[w].o \in Orders
      BY <1>6 DEF Shape
    <2>2. QED
      BY <1>1, <1>2, <1>6, <2>1 DEF Owing, Owes, Moved
  <1>7. ASSUME NEW pc, NEW due, Goto(w, pc, due), req[w].pc # "idle",
               pc \notin {"save", "payInsert"}, pc = "log" => req[w].pc = "save",
               pc \in Ledgering => \A r \in due :
                  \/ req[w].kind = "markPaid" /\ r = "order_charge"
                  \/ req[w].kind = "deliver" /\ r \in DueOnDelivery(order[req[w].o])
                  \/ req[w].kind \in {"cancel", "reject"} /\ r = "order_refund"
        PROVE  Owes(w)
    <2>1. CASE pc = "idle"
      BY <1>5, <1>7, <2>1, GotoEffect DEF TypeOK, Answered
    <2>2. CASE pc # "idle"
      <3>1. Moved(w, pc, due)
        BY <1>7, <2>2, GotoEffect DEF TypeOK
      <3>2. QED
        BY <1>6, <1>7, <3>1
    <2>3. QED
      BY <2>1, <2>2
  <1>8. ASSUME NEW S, Record(w, S), req[w].pc # "idle", \A r \in S :
                  \/ req[w].kind = "markPaid" /\ r = "order_charge"
                  \/ req[w].kind = "deliver" /\ r \in DueOnDelivery(order[req[w].o])
                  \/ req[w].kind \in {"cancel", "reject"} /\ r = "order_refund"
        PROVE  Owes(w)
    <2>1. CASE Answered(w)
      BY <1>5, <2>1 DEF Answered
    <2>2. CASE Moved(w, "restock", {})
      BY <1>6, <1>8, <2>2
    <2>3. CASE Moved(w, "ledgerCheck", S)
      BY <1>6, <1>8, <2>3
    <2>4. QED
      BY <1>8, <2>1, <2>2, <2>3, RecordEffect DEF TypeOK
  <1>9. Owes(w)
    <2>1. CASE Arrive(w)
      <3>1. ASSUME NEW o \in Orders, VendorOrderAction(w, o) PROVE Owes(w)
        BY <1>1, <3>1 DEF VendorOrderAction, Begin, Idle, Owes, Ledgering, TypeOK
      <3>2. ASSUME NEW o \in Orders, OrderCancel(w, o) PROVE Owes(w)
        BY <1>1, <3>2 DEF OrderCancel, Begin, Idle, Owes, Ledgering, TypeOK
      <3>3. ASSUME NEW o \in Orders, ConfirmPickup(w, o) PROVE Owes(w)
        BY <3>3 DEF ConfirmPickup, Begin, Idle, Owes, Ledgering, TypeOK
      <3>4. ASSUME NEW o \in Orders, ConfirmDeliver(w, o) PROVE Owes(w)
        BY <3>4 DEF ConfirmDeliver, Begin, Idle, Owes, Ledgering, TypeOK
      <3>5. ASSUME NEW o \in Orders, PaymentCreate(w, o) PROVE Owes(w)
        BY <1>1, <3>5 DEF PaymentCreate, Begin, Idle, Owes, Ledgering, TypeOK
      <3>6. ASSUME NEW p \in Payments, PaymentPaid(w, p) PROVE Owes(w)
        BY <3>6 DEF PaymentPaid, Begin, Idle, Owes, Ledgering, TypeOK
      <3>7. ASSUME NEW o \in Orders, BidCreate(w, o) PROVE Owes(w)
        BY <3>7 DEF BidCreate, Begin, Idle, Owes, Ledgering, TypeOK
      <3>8. ASSUME NEW o \in Orders, BidAccept(w, o) PROVE Owes(w)
        BY <3>8 DEF BidAccept, Begin, Idle, Owes, Ledgering, TypeOK
      <3>9. CASE UNCHANGED req
        BY <1>4, <3>9
      <3>10. QED
        BY <2>1, <3>1, <3>2, <3>3, <3>4, <3>5, <3>6, <3>7, <3>8, <3>9
        DEF Arrive, PaymentCreateCod, PaymentFailed
    <2>2. CASE ReadOrder(w)
      <3>1. req[w].o \in Orders /\ req[w].kind \in {"pickup", "deliver"}
        BY <2>2 DEF ReadOrder, Shape
      <3>2. CASE req' = [req EXCEPT ![w].pc = "save", ![w].row = order[req[w].o]]
        <4>1. /\ req'[w].pc = "save"
              /\ req'[w].row = order[req[w].o]
              /\ req'[w].o = req[w].o
              /\ req'[w].kind = req[w].kind
          BY <3>2 DEF TypeOK, Request
        <4>2. QED
          BY <1>1, <3>1, <4>1 DEF Owes, Ledgering
      <3>3. CASE Goto(w, "idle", {})
        BY <1>5, <3>3, GotoEffect DEF Answered, TypeOK
      <3>4. QED
        BY <2>2, <3>2, <3>3 DEF ReadOrder
    <2>3. CASE LogStatus(w)
      <3>1. req[w].row.method = order[req[w].o].method
        BY <2>3 DEF LogStatus, Owing
      <3>2. DueOnDelivery(req[w].row) = DueOnDelivery(order[req[w].o])
        BY <3>1 DEF DueOnDelivery
      <3>3. CASE Goto(w, "idle", {}) \/ Goto(w, "assign", {})
        BY <1>7, <2>3, <3>3 DEF LogStatus, Ledgering
      <3>4. CASE req[w].kind = "deliver"
        <4>1. \E pc \in {"codPaid", "ledgerCheck"} : Goto(w, pc, DueOnDelivery(order[req[w].o]))
          BY <2>3, <3>2, <3>4 DEF LogStatus
        <4>2. QED
          BY <1>7, <2>3, <3>4, <4>1 DEF LogStatus
      <3>5. CASE req[w].kind \in {"cancel", "reject"}
        <4>1. \E S \in SUBSET {"order_refund"} : Record(w, S)
          BY <2>3, <3>5 DEF LogStatus
        <4>2. QED
          BY <1>8, <2>3, <3>5, <4>1 DEF LogStatus
      <3>6. QED
        BY <2>3, <3>3, <3>4, <3>5 DEF LogStatus
    <2>4. CASE req[w].pc \in Ledgering /\ ~Crash(w) /\ ~LedgerFails(w) /\ Step(w)
      <3>1. \A r \in req[w].due :
                  \/ req[w].kind = "markPaid" /\ r = "order_charge"
                  \/ req[w].kind = "deliver" /\ r \in DueOnDelivery(order[req[w].o])
                  \/ req[w].kind \in {"cancel", "reject"} /\ r = "order_refund"
        BY <2>4 DEF Owing
      <3>2. CASE CodPaid(w)
        BY <1>7, <3>1, <3>2 DEF CodPaid
      <3>3. CASE LedgerCheck(w)
        <4>1. CASE Goto(w, "ledgerWrite", req[w].due)
          BY <1>7, <3>1, <3>3, <4>1 DEF LedgerCheck
        <4>2. CASE \E r \in LedgerReason : Record(w, req[w].due \ {r})
          BY <1>8, <3>1, <3>3, <4>2 DEF LedgerCheck
        <4>3. QED
          BY <3>3, <4>1, <4>2 DEF LedgerCheck
      <3>4. CASE LedgerWrite(w)
        <4>1. \E r \in LedgerReason : Record(w, req[w].due \ {r})
          BY <3>4 DEF LedgerWrite
        <4>2. QED
          BY <1>8, <3>1, <3>4, <4>1 DEF LedgerWrite
      <3>5. QED
        BY <2>4, <3>2, <3>3, <3>4 DEF Step, Ledgering, SaveAssignment, ReadOrder, SaveOrder,
           LogStatus, Restock, RefundPayments, RefundOrder, CreateAssignment, InsertPayment,
           MarkPayment, MarkOrder, SaveBid, AssignBidder, AcceptBid, RejectOthers
    <2>5. CASE MarkOrder(w)
      <3>1. req[w].kind = "markPaid"
        BY <2>5 DEF MarkOrder, Shape
      <3>2. QED
        BY <1>7, <2>5, <3>1 DEF MarkOrder
    <2>6. CASE SaveAssignment(w) \/ SaveOrder(w) \/ RefundPayments(w) \/ RefundOrder(w)
                 \/ CreateAssignment(w) \/ InsertPayment(w) \/ MarkPayment(w)
                 \/ SaveBid(w) \/ AssignBidder(w) \/ AcceptBid(w) \/ RejectOthers(w)
      BY <1>7, <2>6 DEF SaveAssignment, SaveOrder, RefundPayments, RefundOrder,
         CreateAssignment, InsertPayment, MarkPayment, SaveBid, AssignBidder, AcceptBid,
         RejectOthers, Ledgering
    <2>7. CASE Restock(w)
      BY <1>7, <2>7 DEF Restock, Ledgering
    <2>8. CASE LedgerFails(w) \/ Crash(w)
      BY <1>7, <2>8 DEF LedgerFails, Crash, AfterLedger, Ledgering
    <2>9. CASE LedgerCheck(w) \/ LedgerWrite(w) \/ CodPaid(w)
      BY <2>4, <2>8, <2>9 DEF LedgerCheck, LedgerWrite, CodPaid, Ledgering, Step
    <2>10. QED
      BY <2>1, <2>2, <2>3, <2>5, <2>6, <2>7, <2>8, <2>9 DEF Acts, Step
  <1>10. \A v \in Workers \ {w} : req'[v] = req[v]
    BY OthersWait
  <1>11. \A v \in Workers : Owes(v)
    BY <1>4, <1>9, <1>10
  <1>12. QED
    BY <1>3, <1>11 DEF Owing, Owes, Exists

-----------------------------------------------------------------------------
LEMMA LedgerStays ==
    ASSUME NEW w \in Workers, Acts(w)
    PROVE  UNCHANGED ledger \/ LedgerWrite(w)
  BY DEF Acts, Arrive, Step, VendorOrderAction, OrderCancel, ConfirmPickup, ConfirmDeliver, BidCreate,
       BidAccept, SaveBid, AssignBidder, AcceptBid, RejectOthers,
         PaymentCreate, PaymentCreateCod, PaymentPaid, PaymentFailed, SaveAssignment,
         SaveOrder, ReadOrder, LogStatus, CodPaid, LedgerCheck, Restock, RefundPayments,
         RefundOrder, CreateAssignment, InsertPayment, MarkPayment, MarkOrder, LedgerFails,
         Crash

\* Only the insert of a record_* helper adds to the ledger, and what it adds is due.
LEMMA WhoWritesLedger ==
    ASSUME TypeOK, NEW w \in Workers, Acts(w), NEW o \in Orders, NEW r \in LedgerReason
    PROVE  \/ ledger'[o][r] = ledger[o][r]
           \/ /\ req[w].pc = "ledgerWrite"
              /\ req[w].o = o
              /\ r \in req[w].due
  <1>1. CASE LedgerWrite(w)
    <2>1. PICK q \in LedgerReason :
              /\ First(q, req[w].due)
              /\ ledger' = IF <<req[w].o, q>> \in ZeroAmount THEN ledger
                           ELSE [ledger EXCEPT ![req[w].o][q] = @ + 1]
      BY <1>1 DEF LedgerWrite
    <2>2. CASE o = req[w].o /\ r = q
      BY <1>1, <2>1, <2>2 DEF LedgerWrite, First
    <2>3. CASE ~(o = req[w].o /\ r = q)
      BY <2>1, <2>3 DEF TypeOK
    <2>4. QED
      BY <2>2, <2>3
  <1>2. UNCHANGED ledger \/ LedgerWrite(w)
    BY LedgerStays
  <1>3. QED
    BY <1>1, <1>2

\* Only a cancelling view returns stock.
LEMMA ReturnsStay ==
    ASSUME NEW w \in Workers, Acts(w)
    PROVE  UNCHANGED restocked \/ Restock(w)
  BY DEF Acts, Arrive, Step, VendorOrderAction, OrderCancel, ConfirmPickup, ConfirmDeliver, BidCreate,
       BidAccept, SaveBid, AssignBidder, AcceptBid, RejectOthers,
         PaymentCreate, PaymentCreateCod, PaymentPaid, PaymentFailed, SaveAssignment,
         SaveOrder, ReadOrder, LogStatus, CodPaid, LedgerCheck, LedgerWrite, RefundPayments,
         RefundOrder, CreateAssignment, InsertPayment, MarkPayment, MarkOrder, LedgerFails,
         Crash

LEMMA WhoRestocks ==
    ASSUME TypeOK, NEW w \in Workers, Acts(w), NEW o \in Orders
    PROVE  \/ restocked'[o] = restocked[o]
           \/ req[w].pc = "restock" /\ req[w].o = o
  <1>1. CASE Restock(w)
    BY <1>1 DEF Restock, TypeOK
  <1>2. UNCHANGED restocked \/ Restock(w)
    BY ReturnsStay
  <1>3. QED
    BY <1>1, <1>2

LEMMA MoneyFollowsGoodsStep ==
    ASSUME TypeOK, Shape, Stages, Owing, MoneyFollowsGoods, NEW w \in Workers, Acts(w)
    PROVE  MoneyFollowsGoods'
  <1> DEFINE Billed(o) == \E p \in Payments : payment[p].order = o
             Due(o, r) == /\ req[w].pc = "ledgerWrite"
                          /\ req[w].o = o
                          /\ r \in req[w].due
  <1>1. SUFFICES ASSUME NEW o \in Orders
        PROVE  /\ \A r \in {"seller_payout", "delivery_earning"} :
                      ledger'[o][r] > 0 => DELIVERED \in reached'[o]
               /\ ledger'[o]["order_charge"] > 0 =>
                      IF order'[o].method = "cod" THEN DELIVERED \in reached'[o]
                      ELSE \E p \in Payments : payment'[p].order = o
               /\ ledger'[o]["order_refund"] > 0 \/ restocked'[o] > 0 =>
                      CANCELLED \in reached'[o]
    BY DEF MoneyFollowsGoods
  <1>2. \A r \in LedgerReason : ledger'[o][r] = ledger[o][r] \/ Due(o, r)
    BY WhoWritesLedger
  <1>3. reached[o] \subseteq reached'[o]
    BY StagesStay
  <1>4. order'[o].method = order[o].method
    BY MethodsStay
  <1>5. Billed(o) => \E p \in Payments : payment'[p].order = o
    BY PaymentsStay, ConstantsAssumption
  <1>6. \A r \in LedgerReason : Due(o, r) =>
            \/ req[w].kind = "markPaid" /\ r = "order_charge" /\ Billed(o)
                  /\ order[o].method = "prepaid"
            \/ req[w].kind = "deliver" /\ r \in DueOnDelivery(order[o])
                  /\ DELIVERED \in reached[o]
            \/ req[w].kind \in {"cancel", "reject"} /\ r = "order_refund"
                  /\ CANCELLED \in reached[o]
    <2> SUFFICES ASSUME NEW r \in LedgerReason, Due(o, r)
                 PROVE  \/ req[w].kind = "markPaid" /\ r = "order_charge" /\ Billed(o)
                              /\ order[o].method = "prepaid"
                        \/ req[w].kind = "deliver" /\ r \in DueOnDelivery(order[o])
                              /\ DELIVERED \in reached[o]
                        \/ req[w].kind \in {"cancel", "reject"} /\ r = "order_refund"
                              /\ CANCELLED \in reached[o]
      OBVIOUS
    <2>1. \/ req[w].kind = "markPaid" /\ r = "order_charge"
          \/ req[w].kind = "deliver" /\ r \in DueOnDelivery(order[o])
          \/ req[w].kind \in {"cancel", "reject"} /\ r = "order_refund"
      BY DEF Owing, Ledgering
    <2>2. req[w].kind \in Moves => Target[req[w].kind] \in reached[o]
      BY DEF Stages, Ledgering
    <2>3. CASE req[w].kind = "markPaid"
      <3>1. PICK p \in Payments : payment[p].order = o
        BY <2>3 DEF Owing
      <3>2. order[o].method = "prepaid"
        BY <3>1, ConstantsAssumption DEF Owing, Exists
      <3>3. QED
        BY <2>1, <2>3, <3>1, <3>2
    <2>4. CASE req[w].kind = "deliver"
      BY <2>1, <2>2, <2>4, MovesKinds DEF Target
    <2>5. CASE req[w].kind \in {"cancel", "reject"}
      BY <2>1, <2>2, <2>5, MovesKinds DEF Target
    <2>6. QED
      BY <2>1, <2>3, <2>4, <2>5
  <1> HIDE DEF Due, Billed
  <1>7. ASSUME NEW r \in {"seller_payout", "delivery_earning"}, ledger'[o][r] > 0
        PROVE  DELIVERED \in reached'[o]
    BY <1>2, <1>3, <1>6, <1>7 DEF MoneyFollowsGoods, LedgerReason
  <1>8. ASSUME ledger'[o]["order_charge"] > 0
        PROVE  IF order'[o].method = "cod" THEN DELIVERED \in reached'[o]
               ELSE \E p \in Payments : payment'[p].order = o
    <2>1. CASE ledger'[o]["order_charge"] = ledger[o]["order_charge"]
      BY <1>3, <1>4, <1>5, <1>8, <2>1 DEF MoneyFollowsGoods, Billed
    <2>2. CASE Due(o, "order_charge")
      BY <1>3, <1>4, <1>5, <1>6, <2>2 DEF LedgerReason, DueOnDelivery
    <2>3. QED
      BY <1>2, <2>1, <2>2 DEF LedgerReason
  <1>9. ASSUME ledger'[o]["order_refund"] > 0 PROVE CANCELLED \in reached'[o]
    BY <1>2, <1>3, <1>6, <1>9 DEF MoneyFollowsGoods, LedgerReason, DueOnDelivery
  <1>10. ASSUME restocked'[o] > 0 PROVE CANCELLED \in reached'[o]
    <2>1. CASE restocked'[o] = restocked[o]
      BY <1>3, <1>10, <2>1 DEF MoneyFollowsGoods
    <2>2. CASE req[w].pc = "restock" /\ req[w].o = o
      <3>1. req[w].kind \in {"cancel", "reject"}
        BY <2>2 DEF Shape, Undoing
      <3>2. Target[req[w].kind] \in reached[o]
        BY <2>2, <3>1, MovesKinds DEF Stages, Undoing
      <3>3. QED
        BY <1>3, <3>1, <3>2 DEF Target
    <2>3. QED
      BY <2>1, <2>2, WhoRestocks
  <1>11. QED
    BY <1>7, <1>8, <1>9, <1>10

\* Who is about to insert a ledger entry was so before, or has just been told that
\* there is none.
LEMMA WhoWillWrite ==
    ASSUME TypeOK, NEW w \in Workers, Acts(w), NEW v \in Workers, req'[v].pc = "ledgerWrite"
    PROVE  \/ req'[v] = req[v]
           \/ v = w /\ LedgerCheck(w) /\ Goto(w, "ledgerWrite", req[w].due)
  <1>1. CASE v # w
    BY <1>1, OthersWait
  <1>2. CASE v = w
    <2>1. ASSUME NEW pc, NEW due, Goto(w, pc, due), pc # "ledgerWrite" PROVE FALSE
      BY <1>2, <2>1, GotoEffect DEF Answered, Moved, Idle, TypeOK
    <2>2. ASSUME NEW S, Record(w, S) PROVE FALSE
      BY <1>2, <2>2, RecordEffect DEF Answered, Moved, Idle, TypeOK
    <2>3. CASE \/ SaveAssignment(w) \/ SaveOrder(w) \/ CodPaid(w) \/ RefundPayments(w)
               \/ RefundOrder(w) \/ CreateAssignment(w) \/ InsertPayment(w) \/ MarkPayment(w)
               \/ MarkOrder(w) \/ SaveBid(w) \/ AssignBidder(w) \/ AcceptBid(w)
               \/ RejectOthers(w) \/ Restock(w) \/ LedgerFails(w) \/ Crash(w)
      BY <2>1, <2>3 DEF SaveAssignment, SaveOrder, CodPaid, RefundPayments, RefundOrder,
         CreateAssignment, InsertPayment, MarkPayment, MarkOrder, SaveBid, AssignBidder,
         AcceptBid, RejectOthers, Restock, LedgerFails, AfterLedger, Crash
    <2>4. CASE LogStatus(w)
      BY <2>1, <2>2, <2>4 DEF LogStatus
    <2>5. CASE LedgerWrite(w)
      BY <2>2, <2>5 DEF LedgerWrite
    <2>6. CASE LedgerCheck(w)
      BY <1>2, <2>2, <2>6 DEF LedgerCheck
    <2>7. CASE ReadOrder(w)
      <3>1. CASE req' = [req EXCEPT ![w].pc = "save", ![w].row = order[req[w].o]]
        BY <1>2, <3>1 DEF TypeOK, Request
      <3>2. CASE Goto(w, "idle", {})
        BY <2>1, <3>2
      <3>3. QED
        BY <2>7, <3>1, <3>2 DEF ReadOrder
    <2>8. CASE Arrive(w)
      <3>1. ASSUME NEW r, Begin(w, r), r.pc # "ledgerWrite" PROVE FALSE
        BY <1>2, <3>1 DEF Begin, TypeOK
      <3>2. ASSUME NEW o \in Orders, VendorOrderAction(w, o) PROVE FALSE
        <4>1. PICK k : Begin(w, [Idle EXCEPT !.pc = "save", !.kind = k, !.o = o,
                                            !.row = order[o]])
          BY <3>2 DEF VendorOrderAction
        <4>2. [Idle EXCEPT !.pc = "save", !.kind = k, !.o = o, !.row = order[o]].pc = "save"
          BY DEF Idle
        <4>3. QED
          BY <3>1, <4>1, <4>2
      <3>3. ASSUME NEW o \in Orders, \/ OrderCancel(w, o) \/ ConfirmPickup(w, o)
                                     \/ ConfirmDeliver(w, o) \/ PaymentCreate(w, o)
                                     \/ BidCreate(w, o) \/ BidAccept(w, o)
            PROVE  FALSE
        BY <3>1, <3>3 DEF OrderCancel, ConfirmPickup, ConfirmDeliver, PaymentCreate, BidCreate,
           BidAccept, Idle
      <3>4. ASSUME NEW p \in Payments, PaymentPaid(w, p) PROVE FALSE
        BY <3>1, <3>4 DEF PaymentPaid, Idle
      <3>5. CASE UNCHANGED req
        BY <3>5
      <3>6. QED
        BY <1>2, <2>8, <3>2, <3>3, <3>4, <3>5 DEF Arrive, PaymentCreateCod, PaymentFailed
    <2>9. QED
      BY <2>3, <2>4, <2>5, <2>6, <2>7, <2>8 DEF Acts, Step
  <1>3. QED
    BY <1>1, <1>2

\* A handler records its entries one at a time.
LEMMA FirstUnique ==
    ASSUME NEW S, NEW q \in LedgerReason, NEW r \in LedgerReason, First(q, S), First(r, S)
    PROVE  q = r
  BY DEF First, Rank, LedgerReason

LEMMA WritersFinite ==
    ASSUME NEW o, NEW r
    PROVE  /\ IsFiniteSet(Writers(o, r)) /\ IsFiniteSet(Writers(o, r)')
           /\ Cardinality(Writers(o, r)) \in Nat
           /\ Cardinality(Writers(o, r)') \in Nat
           /\ Cardinality(Writers(o, r)') <= Cardinality(Workers)
           /\ Cardinality(Workers) \in Nat
  <1>1. Writers(o, r) \subseteq Workers /\ Writers(o, r)' \subseteq Workers
    BY DEF Writers
  <1>2. QED
    BY <1>1, ConstantsAssumption, FS_Subset, FS_CardinalityType

LEMMA EntryRoomStep ==
    ASSUME TypeOK, Shape, EntryRoom, NEW w \in Workers, Acts(w)
    PROVE  EntryRoom'
  <1> SUFFICES ASSUME NEW o \in Orders, NEW r \in LedgerReason
               PROVE  ledger'[o][r] + Cardinality(Writers(o, r)') <= Cardinality(Workers)
    BY DEF EntryRoom
  <1>1. ledger[o][r] \in Nat /\ ledger[o][r] + Cardinality(Writers(o, r)) <= Cardinality(Workers)
    BY DEF EntryRoom, TypeOK
  <1>2. CASE LedgerCheck(w) /\ Goto(w, "ledgerWrite", req[w].due) /\ req[w].o = o
                            /\ First(r, req[w].due) /\ ledger[o][r] = 0
    BY <1>2, WritersFinite DEF LedgerCheck
  <1>3. CASE /\ ledger'[o][r] = ledger[o][r]
             /\ Writers(o, r)' \subseteq Writers(o, r)
    <2>1. Cardinality(Writers(o, r)') <= Cardinality(Writers(o, r))
      BY <1>3, WritersFinite, FS_Subset
    <2>2. QED
      BY <1>1, <1>3, <2>1, WritersFinite
  <1>4. CASE /\ ledger'[o][r] = ledger[o][r] + 1
             /\ w \in Writers(o, r)
             /\ Writers(o, r)' \subseteq Writers(o, r) \ {w}
    <2>1. /\ IsFiniteSet(Writers(o, r) \ {w})
          /\ Cardinality(Writers(o, r) \ {w}) = Cardinality(Writers(o, r)) - 1
      BY <1>4, WritersFinite, FS_RemoveElement
    <2>2. Cardinality(Writers(o, r)') <= Cardinality(Writers(o, r) \ {w})
      BY <1>4, <2>1, FS_Subset
    <2>3. QED
      BY <1>1, <1>4, <2>1, <2>2, WritersFinite
  <1>5. CASE LedgerCheck(w) /\ Goto(w, "ledgerWrite", req[w].due)
    <2>1. PICK q \in LedgerReason :
              /\ First(q, req[w].due)
              /\ \/ Record(w, req[w].due \ {q})
                 \/ ledger[req[w].o][q] = 0
      BY <1>5 DEF LedgerCheck
    <2>2. Moved(w, "ledgerWrite", req[w].due)
      BY <1>5, GotoEffect DEF TypeOK
    <2>3. ~Record(w, req[w].due \ {q})
      BY <2>2, RecordEffect DEF Answered, Moved, Idle, TypeOK
    <2>4. CASE req[w].o = o /\ First(r, req[w].due)
      <3>1. r = q
        BY <2>1, <2>4, FirstUnique
      <3>2. QED
        BY <1>2, <1>5, <2>1, <2>3, <2>4, <3>1
    <2>5. CASE ~(req[w].o = o /\ First(r, req[w].due))
      <3>1. Writers(o, r)' \subseteq Writers(o, r)
        BY <2>2, <2>5 DEF Writers, Moved
      <3>2. ledger'[o][r] = ledger[o][r]
        BY <1>5 DEF LedgerCheck
      <3>3. QED
        BY <1>3, <3>1, <3>2
    <2>6. QED
      BY <2>4, <2>5
  <1>6. CASE LedgerWrite(w)
    <2>1. PICK q \in LedgerReason :
              /\ First(q, req[w].due)
              /\ ledger' = IF <<req[w].o, q>> \in ZeroAmount THEN ledger
                           ELSE [ledger EXCEPT ![req[w].o][q] = @ + 1]
              /\ Record(w, req[w].due \ {q})
      BY <1>6 DEF LedgerWrite
    <2>2. req'[w].pc # "ledgerWrite" /\ req[w].pc = "ledgerWrite"
      <3>1. req[w].pc = "ledgerWrite"
        BY <1>6 DEF LedgerWrite
      <3>2. \/ Answered(w)
            \/ Moved(w, "restock", {})
            \/ Moved(w, "ledgerCheck", req[w].due \ {q})
        BY <2>1, RecordEffect DEF TypeOK
      <3>3. req'[w].pc \in {"idle", "restock", "ledgerCheck"}
        BY <3>2 DEF Answered, Moved, Idle
      <3>4. QED
        BY <3>1, <3>3
    <2>3. Writers(o, r)' \subseteq Writers(o, r) \ {w}
      BY <2>2, OthersWait DEF Writers
    <2>4. CASE ledger'[o][r] = ledger[o][r]
      BY <1>3, <2>3, <2>4
    <2>5. CASE ledger'[o][r] # ledger[o][r]
      <3>1. /\ req[w].o = o /\ r = q
            /\ ledger'[o][r] = ledger[o][r] + 1
        BY <2>1, <2>5 DEF TypeOK
      <3>2. w \in Writers(o, r)
        BY <2>1, <2>2, <3>1 DEF Writers
      <3>3. QED
        BY <1>4, <2>3, <3>1, <3>2
    <2>6. QED
      BY <2>4, <2>5
  <1>7. CASE ~LedgerWrite(w) /\ ~(LedgerCheck(w) /\ Goto(w, "ledgerWrite", req[w].due))
    <2>1. \A v \in Workers : req'[v].pc = "ledgerWrite" => req'[v] = req[v]
      BY <1>7, WhoWillWrite
    <2>2. Writers(o, r)' \subseteq Writers(o, r)
      BY <2>1 DEF Writers
    <2>3. ledger'[o][r] = ledger[o][r]
      BY <1>7, LedgerStays
    <2>4. QED
      BY <1>3, <2>2, <2>3
  <1>8. QED
    BY <1>5, <1>6, <1>7

-----------------------------------------------------------------------------
-----------------------------------------------------------------------------
LEMMA InductiveInit == Init => IInv
  <1> SUFFICES ASSUME Init PROVE IInv
    OBVIOUS
  <1>1. TypeOK
    <2>1. Idle \in Request
      BY DEF Idle, Request, PCs, OrderRow, AssignmentRow, OrderStatus, PaymentStatus,
             PaymentMethod, NoAssignment, PENDING
    <2>2. NoAssignment \in AssignmentRow /\ NoPayment \in PaymentRow
      BY DEF NoAssignment, NoPayment, AssignmentRow, PaymentRow, PaymentStatus
    <2>3. order \in [Orders -> OrderRow]
      BY DEF Init, OrderRow, OrderStatus, PaymentStatus
    <2>4. PENDING \in OrderStatus
      BY DEF OrderStatus
    <2>5. faults \in 0..MaxFaults
      BY ConstantsAssumption DEF Init
    <2>6. QED
      BY <2>1, <2>2, <2>3, <2>4, <2>5 DEF Init, TypeOK
  <1>2. Shape
    BY DEF Init, Shape, Idle, Ledgering, Undoing, Accepting
  <1>3. Stages
    <2>1. \A o \in Orders : order[o].status = PENDING
      BY DEF Init
    <2>2. QED
      BY <2>1 DEF Init, Stages, Idle, Ledgering, Undoing
  <1>4. Carrying
    BY DEF Init, Carrying, Idle
  <1>5. StagesInOrder
    BY DEF Init, StagesInOrder
  <1>6. HandedToPartner
    BY DEF Init, HandedToPartner, Assigned, NoAssignment, PENDING, OUT_FOR_DELIVERY, DELIVERED
  <1>7. Owing
    BY DEF Init, Owing, Idle, Exists, NoPayment, Ledgering
  <1>8. MoneyFollowsGoods
    BY DEF Init, MoneyFollowsGoods, LedgerReason
  <1>9. BidsOnReady /\ BidderCarries
    <2>1. \A o \in Orders, d \in Partners : bid[o][d] = None /\ None # "accepted"
      BY ConstantsAssumption DEF Init, BidStatus
    <2>2. \A w \in Workers : req[w].pc = "idle"
      BY DEF Init, Idle
    <2>3. QED
      BY <2>1, <2>2 DEF BidsOnReady, BidderCarries, Accepting
  <1>10. EntryRoom
    <2>1. \A o \in Orders, r \in LedgerReason : Writers(o, r) = {} /\ ledger[o][r] = 0
      BY DEF Init, Writers, Idle
    <2>2. Cardinality(Workers) \in Nat
      BY ConstantsAssumption, FS_CardinalityType
    <2>3. ASSUME NEW o \in Orders, NEW r \in LedgerReason
          PROVE  ledger[o][r] + Cardinality(Writers(o, r)) <= Cardinality(Workers)
      <3>1. Writers(o, r) = {} /\ ledger[o][r] = 0
        BY <2>1
      <3>2. Cardinality(Writers(o, r)) = 0
        BY <3>1, FS_EmptySet
      <3>3. QED
        BY <3>1, <3>2, <2>2
    <2>4. QED
      BY <2>3 DEF EntryRoom
  <1>11. QED
    BY <1>1, <1>2, <1>3, <1>4, <1>5, <1>6, <1>7, <1>8, <1>9, <1>10 DEF IInv

LEMMA InductiveStep == IInv /\ [Next]_vars => IInv'
  <1> SUFFICES ASSUME IInv, [Next]_vars PROVE IInv'
    OBVIOUS
  <1> USE DEF IInv
  <1>1. ASSUME NEW w \in Workers, Acts(w) PROVE IInv'
    <2>1. TypeOK'
      BY <1>1, ArriveType, StepType, CutType DEF Acts
    <2>2. Shape'
      BY <1>1, ShapeStep DEF Acts
    <2>3. Stages'
      BY <1>1, StagesStep DEF Acts
    <2>4. Carrying' /\ StagesInOrder' /\ HandedToPartner'
      BY <1>1, CarryingStep, StagesInOrderStep, HandedToPartnerStep
    <2>5. Owing' /\ MoneyFollowsGoods'
      BY <1>1, OwingStep, MoneyFollowsGoodsStep
    <2>6. BidsOnReady' /\ BidderCarries'
      BY <1>1, BidsOnReadyStep, BidderCarriesStep
    <2>7. EntryRoom'
      BY <1>1, EntryRoomStep
    <2>8. QED
      BY <2>1, <2>2, <2>3, <2>4, <2>5, <2>6, <2>7
  <1>2. CASE UNCHANGED vars
    <2>1. TypeOK' /\ Shape' /\ Stages' /\ BidsOnReady' /\ Carrying' /\ Owing'
      BY <1>2 DEF vars, TypeOK, Shape, Stages, BidsOnReady, Carrying, Owing, Assigned, Exists
    <2>2. StagesInOrder' /\ HandedToPartner' /\ BidderCarries' /\ MoneyFollowsGoods'
      BY <1>2 DEF vars, StagesInOrder, HandedToPartner, BidderCarries, MoneyFollowsGoods,
                  Assigned
    <2>3. EntryRoom'
      BY <1>2 DEF vars, EntryRoom, Writers
    <2>4. QED
      BY <2>1, <2>2, <2>3
  <1>3. QED
    BY <1>1, <1>2 DEF Next, Acts

\* IInv is what every overlap of requests, and every cut, keeps true.
THEOREM InductiveInvariant == Spec => []IInv
  BY InductiveInit, InductiveStep, PTL DEF Spec

\* The tables and the requests stay well formed, with any number of requests.
THEOREM TypeCorrect == Spec => []TypeOK
  BY InductiveInvariant, PTL DEF IInv

\* transition_order never lets an order skip a stage, whatever stale rows are
\* written back and whatever is cut short.
THEOREM NoStageSkipped == Spec => []StagesInOrder
  BY InductiveInvariant, PTL DEF IInv

\* An order that has left the store, or was delivered, has a partner, and only
\* an order that has been ready has one.
THEOREM LeavesWithPartner == Spec => []HandedToPartner
  BY InductiveInvariant, PTL DEF IInv

\* However many bids are accepted at once, the accepted bidder is the one assigned.
THEOREM BidderDelivers == Spec => []BidderCarries
  BY InductiveInvariant, PTL DEF IInv

\* No step of any request changes the partner of an order that has one.
THEOREM PartnerStays == Spec => PartnerKept
  <1>1. IInv /\ [Next]_vars =>
           [\A o \in Orders : Assigned(o) =>
                assignment'[o].partner = assignment[o].partner]_vars
    <2>1. ASSUME IInv, NEW w \in Workers, Acts(w), NEW o \in Orders, Assigned(o)
          PROVE  assignment'[o].partner = assignment[o].partner
      BY <2>1, AssignmentsStay DEF IInv, Assigned
    <2>2. QED
      BY <2>1 DEF Next, Acts
  <1>2. QED
    BY <1>1, InductiveInvariant, PTL DEF Spec, PartnerKept

\* Nobody is paid, charged in cash, refunded or sent goods back before the stage
\* that it is a consequence of, and no prepaid order is charged without a payment.
THEOREM MoneyAfterGoods == Spec => []MoneyFollowsGoods
  BY InductiveInvariant, PTL DEF IInv

\* However the exists() checks and the inserts of the record_* helpers overlap, an
\* order has no more entries of a reason than requests can run at a time.
THEOREM EntriesNoMoreThanWorkers == Spec => []EntriesBounded
  <1>1. IInv => EntriesBounded
    BY WritersFinite DEF IInv, EntryRoom, EntriesBounded, TypeOK
  <1>2. QED
    BY <1>1, InductiveInvariant, PTL
=============================================================================
