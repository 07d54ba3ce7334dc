---------------------------- MODULE SettledProofs ----------------------------
(***************************************************************************)
(* What is true of orders whose requests run to their end, whatever        *)
(* overlaps, and of orders whose requests are served one by one.           *)
(***************************************************************************)
EXTENDS FreshDashProofs

\* No request is cut short, and no two are served at once.
ToTheEnd  == MaxFaults = 0
OneWorker == \A v, w \in Workers : v = w

-----------------------------------------------------------------------------
(* One statement at a time                                                 *)

LEMMA NothingCut ==
    ASSUME ToTheEnd, TypeOK, NEW w \in Workers, Acts(w)
    PROVE  Arrive(w) \/ Step(w)
  BY DEF ToTheEnd, TypeOK, Acts, LedgerFails, Crash

\* Only a free worker takes a request.
LEMMA ArriveIdle ==
    ASSUME NEW w \in Workers, Arrive(w)
    PROVE  req[w].pc = "idle"
  BY DEF Arrive, VendorOrderAction, OrderCancel, ConfirmPickup, ConfirmDeliver, BidCreate,
         BidAccept, PaymentCreate, PaymentCreateCod, PaymentPaid, PaymentFailed, Begin

LEMMA StepBusy ==
    ASSUME NEW w \in Workers, Step(w)
    PROVE  req[w].pc # "idle"
  BY DEF Step, SaveAssignment, ReadOrder, SaveOrder, LogStatus, CodPaid, LedgerCheck, LedgerWrite,
         Restock, RefundPayments, RefundOrder, CreateAssignment, SaveBid, AssignBidder, AcceptBid,
         RejectOthers, InsertPayment, MarkPayment, MarkOrder

\* Where a request stands says which statement comes next.
LEMMA StepAt ==
    ASSUME NEW w \in Workers, Arrive(w) \/ Step(w)
    PROVE  /\ req[w].pc = "idle" => Arrive(w)
           /\ req[w].pc = "saveAssignment" => SaveAssignment(w)
           /\ req[w].pc = "readOrder" => ReadOrder(w)
           /\ req[w].pc = "save" => SaveOrder(w)
           /\ req[w].pc = "log" => LogStatus(w)
           /\ req[w].pc = "codPaid" => CodPaid(w)
           /\ req[w].pc = "ledgerCheck" => LedgerCheck(w)
           /\ req[w].pc = "ledgerWrite" => LedgerWrite(w)
           /\ req[w].pc = "restock" => Restock(w)
           /\ req[w].pc = "refundPayments" => RefundPayments(w)
           /\ req[w].pc = "refundOrder" => RefundOrder(w)
           /\ req[w].pc = "assign" => CreateAssignment(w)
           /\ req[w].pc = "bidSave" => SaveBid(w)
           /\ req[w].pc = "bidAssign" => AssignBidder(w)
           /\ req[w].pc = "bidAccept" => AcceptBid(w)
           /\ req[w].pc = "bidReject" => RejectOthers(w)
           /\ req[w].pc = "payInsert" => InsertPayment(w)
           /\ req[w].pc = "payMark" => MarkPayment(w)
           /\ req[w].pc = "payOrder" => MarkOrder(w)
  <1>1. CASE Arrive(w)
    BY <1>1, ArriveIdle
  <1>2. CASE Step(w)
    BY <1>2 DEF Step, SaveAssignment, ReadOrder, SaveOrder, LogStatus, CodPaid, LedgerCheck,
       LedgerWrite, Restock, RefundPayments, RefundOrder, CreateAssignment, SaveBid,
       AssignBidder, AcceptBid, RejectOthers, InsertPayment, MarkPayment, MarkOrder
  <1>3. QED
    BY <1>1, <1>2

\* What each statement makes of its request.
LEMMA StepEffect ==
    ASSUME TypeOK, Shape, NEW w \in Workers
    PROVE  /\ SaveAssignment(w) => Moved(w, "readOrder", {})
           /\ SaveOrder(w) => Moved(w, "log", {})
           /\ CodPaid(w) => Moved(w, "ledgerCheck", req[w].due)
           /\ Restock(w) => \/ Answered(w) /\ req[w].kind = "reject"
                            \/ Moved(w, "refundPayments", {}) /\ req[w].kind = "cancel"
           /\ RefundPayments(w) => Moved(w, "refundOrder", {})
           /\ AssignBidder(w) => Answered(w) \/ Moved(w, "bidAccept", {})
           /\ AcceptBid(w) => Moved(w, "bidReject", {})
           /\ MarkPayment(w) => Moved(w, "payOrder", {})
           /\ MarkOrder(w) => Moved(w, "ledgerCheck", {"order_charge"})
           /\ \/ RefundOrder(w) \/ CreateAssignment(w) \/ SaveBid(w) \/ RejectOthers(w)
              \/ InsertPayment(w)
              => Answered(w)
  <1>1. req \in [Workers -> Request]
    BY DEF TypeOK
  <1>2. ASSUME NEW pc, NEW due, Goto(w, pc, due)
        PROVE  IF pc = "idle" THEN Answered(w) ELSE Moved(w, pc, due)
    BY <1>1, <1>2, GotoEffect
  <1>3. SaveAssignment(w) => Moved(w, "readOrder", {})
    BY <1>2 DEF SaveAssignment
  <1>4. SaveOrder(w) => Moved(w, "log", {})
    BY <1>2 DEF SaveOrder
  <1>5. CodPaid(w) => Moved(w, "ledgerCheck", req[w].due)
    BY <1>2 DEF CodPaid
  <1>6. ASSUME Restock(w)
        PROVE  \/ Answered(w) /\ req[w].kind = "reject"
               \/ Moved(w, "refundPayments", {}) /\ req[w].kind = "cancel"
    <2>1. req[w].kind \in {"cancel", "reject"}
      BY <1>6 DEF Restock, Shape, Undoing
    <2>2. CASE req[w].kind = "cancel"
      BY <1>2, <1>6, <2>2 DEF Restock
    <2>3. CASE req[w].kind = "reject"
      BY <1>2, <1>6, <2>3 DEF Restock
    <2>4. QED
      BY <2>1, <2>2, <2>3
  <1>7. RefundPayments(w) => Moved(w, "refundOrder", {})
    BY <1>2 DEF RefundPayments
  <1>8. AssignBidder(w) => Answered(w) \/ Moved(w, "bidAccept", {})
    BY <1>2 DEF AssignBidder
  <1>9. AcceptBid(w) => Moved(w, "bidReject", {})
    BY <1>2 DEF AcceptBid
  <1>10. MarkPayment(w) => Moved(w, "payOrder", {})
    BY <1>2 DEF MarkPayment
  <1>11. MarkOrder(w) => Moved(w, "ledgerCheck", {"order_charge"})
    BY <1>2 DEF MarkOrder
  <1>12. RefundOrder(w) => Answered(w)
    BY <1>2 DEF RefundOrder
  <1>13. CreateAssignment(w) => Answered(w)
    BY <1>2 DEF CreateAssignment
  <1>14. SaveBid(w) \/ RejectOthers(w) \/ InsertPayment(w) => Answered(w)
    BY <1>2 DEF SaveBid, RejectOthers, InsertPayment
  <1>15. QED
    BY <1>3, <1>4, <1>5, <1>6, <1>7, <1>8, <1>9, <1>10, <1>11, <1>12, <1>13, <1>14

LEMMA LogEffect ==
    ASSUME TypeOK, NEW w \in Workers, LogStatus(w)
    PROVE  \/ Answered(w) /\ req[w].kind \in {"accept", "prepare", "pickup"}
           \/ Moved(w, "assign", {}) /\ req[w].kind = "ready"
           \/ /\ req[w].kind = "deliver"
              /\ Moved(w, IF req[w].row.method = "cod" THEN "codPaid" ELSE "ledgerCheck",
                       DueOnDelivery(req[w].row))
           \/ /\ req[w].kind \in {"cancel", "reject"}
              /\ \/ Moved(w, "restock", {})
                 \/ /\ req[w].row.payment_status = "refunded"
                    /\ Moved(w, "ledgerCheck", {"order_refund"})
  <1>1. req \in [Workers -> Request]
    BY DEF TypeOK
  <1>2. ASSUME NEW pc, NEW due, Goto(w, pc, due)
        PROVE  IF pc = "idle" THEN Answered(w) ELSE Moved(w, pc, due)
    BY <1>1, <1>2, GotoEffect
  <1>3. CASE req[w].kind \in {"accept", "prepare", "pickup"} /\ Goto(w, "idle", {})
    BY <1>2, <1>3
  <1>4. CASE req[w].kind = "ready" /\ Goto(w, "assign", {})
    BY <1>2, <1>4
  <1>5. CASE /\ req[w].kind = "deliver"
             /\ Goto(w, IF req[w].row.method = "cod" THEN "codPaid" ELSE "ledgerCheck",
                     DueOnDelivery(req[w].row))
    BY <1>2, <1>5
  <1>6. CASE /\ req[w].kind \in {"cancel", "reject"}
             /\ Record(w, IF req[w].row.payment_status = "refunded" THEN {"order_refund"} ELSE {})
    <2>1. CASE req[w].row.payment_status = "refunded"
      BY <1>2, <1>6, <2>1 DEF Record
    <2>2. CASE req[w].row.payment_status # "refunded"
      <3>1. Goto(w, "restock", {})
        BY <1>6, <2>2 DEF Record, AfterLedger
      <3>2. QED
        BY <1>2, <1>6, <3>1
    <2>3. QED
      BY <2>1, <2>2
  <1>7. QED
    BY <1>3, <1>4, <1>5, <1>6 DEF LogStatus

\* A request told that there is an entry, or inserting one, is done with it: what
\* it still owes is the rest, and past the last one it is answered or restocks.
LEMMA LedgerEffect ==
    ASSUME TypeOK, Shape, NEW w \in Workers, LedgerCheck(w) \/ LedgerWrite(w)
    PROVE  \/ LedgerCheck(w) /\ Moved(w, "ledgerWrite", req[w].due)
           \/ \E r \in req[w].due :
                 /\ <<req[w].o, r>> \in ZeroAmount \/ ledger'[req[w].o][r] > 0
                 /\ \/ Moved(w, "ledgerCheck", req[w].due \ {r})
                    \/ /\ req[w].due = {r}
                       /\ \/ Answered(w) /\ req[w].kind \notin {"cancel", "reject"}
                          \/ Moved(w, "restock", {}) /\ req[w].kind \in {"cancel", "reject"}
  <1> DEFINE q == req[w]
  <1>1. /\ req \in [Workers -> Request]
        /\ q.o \in Orders
        /\ ledger \in [Orders -> [LedgerReason -> Nat]]
    BY DEF TypeOK, Shape, LedgerCheck, LedgerWrite
  <1>2. ASSUME NEW r \in q.due, Record(w, q.due \ {r})
        PROVE  \/ Moved(w, "ledgerCheck", q.due \ {r})
               \/ /\ q.due = {r}
                  /\ \/ Answered(w) /\ q.kind \notin {"cancel", "reject"}
                     \/ Moved(w, "restock", {}) /\ q.kind \in {"cancel", "reject"}
    <2>1. CASE q.due \ {r} # {}
      BY <1>1, <1>2, <2>1, GotoEffect DEF Record
    <2>2. CASE q.due \ {r} = {} /\ q.kind \in {"cancel", "reject"}
      <3>1. Goto(w, "restock", {}) /\ q.due = {r}
        BY <1>2, <2>2 DEF Record, AfterLedger
      <3>2. QED
        BY <1>1, <2>2, <3>1, GotoEffect
    <2>3. CASE q.due \ {r} = {} /\ q.kind \notin {"cancel", "reject"}
      <3>1. Goto(w, "idle", {}) /\ q.due = {r}
        BY <1>2, <2>3 DEF Record, AfterLedger
      <3>2. QED
        BY <1>1, <2>3, <3>1, GotoEffect
    <2>4. QED
      BY <2>1, <2>2, <2>3
  <1>3. CASE LedgerCheck(w)
    <2>1. PICK r \in LedgerReason :
              /\ First(r, q.due)
              /\ \/ ledger[q.o][r] > 0 /\ Record(w, q.due \ {r})
                 \/ Goto(w, "ledgerWrite", q.due)
      BY <1>3 DEF LedgerCheck
    <2>2. r \in q.due /\ ledger' = ledger
      BY <1>3, <2>1 DEF First, LedgerCheck
    <2>3. CASE Goto(w, "ledgerWrite", q.due)
      BY <1>1, <1>3, <2>3, GotoEffect
    <2>4. CASE ledger[q.o][r] > 0 /\ Record(w, q.due \ {r})
      BY <1>2, <2>2, <2>4
    <2>5. QED
      BY <2>1, <2>3, <2>4
  <1>4. CASE LedgerWrite(w)
    <2>1. PICK r \in LedgerReason :
              /\ First(r, q.due)
              /\ ledger' = IF <<q.o, r>> \in ZeroAmount THEN ledger
                           ELSE [ledger EXCEPT ![q.o][r] = @ + 1]
              /\ Record(w, q.due \ {r})
      BY <1>4 DEF LedgerWrite
    <2>2. r \in q.due
      BY <2>1 DEF First
    <2>3. <<q.o, r>> \in ZeroAmount \/ ledger'[q.o][r] > 0
      BY <1>1, <2>1
    <2>4. QED
      BY <1>2, <2>1, <2>2, <2>3
  <1>5. QED
    BY <1>3, <1>4

LEMMA ReadEffect ==
    ASSUME TypeOK, NEW w \in Workers, ReadOrder(w)
    PROVE  \/ Answered(w)
           \/ /\ \A v \in Workers \ {w} : req'[v] = req[v]
              /\ req'[w] = [req[w] EXCEPT !.pc = "save", !.row = order[req[w].o]]
              /\ Allowed(order[req[w].o], req[w].kind)
  <1>1. CASE /\ Allowed(order[req[w].o], req[w].kind)
             /\ req' = [req EXCEPT ![w].pc = "save", ![w].row = order[req[w].o]]
    BY <1>1 DEF TypeOK, Request
  <1>2. CASE Goto(w, "idle", {})
    BY <1>2, GotoEffect DEF TypeOK
  <1>3. QED
    BY <1>1, <1>2 DEF ReadOrder

\* Worker w has taken request r.
Taken(w, r) == (\A v \in Workers \ {w} : req'[v] = req[v]) /\ req'[w] = r

Moving(o, k)        == [Idle EXCEPT !.pc = "save", !.kind = k, !.o = o, !.row = order[o]]
Confirming(o, k, a) == [Idle EXCEPT !.pc = "saveAssignment", !.kind = k, !.o = o, !.asg = a]

\* What a request is when it has made its first read.
LEMMA ArriveEffect ==
    ASSUME TypeOK, NEW w \in Workers, Arrive(w)
    PROVE  \/ /\ req' = req
              /\ \/ \E o \in Orders : PaymentCreateCod(w, o)
                 \/ \E p \in Payments : PaymentFailed(w, p)
           \/ /\ UNCHANGED <<order, assignment, bid, payment, ledger, restocked, reached>>
              /\ \/ \E o \in Orders, k \in Moves :
                       /\ Allowed(order[o], k) /\ k \notin {"pickup", "deliver"}
                       /\ Taken(w, Moving(o, k))
                 \/ \E o \in Orders :
                       \/ Taken(w, Confirming(o, "pickup", [assignment[o] EXCEPT !.picked = TRUE]))
                       \/ Taken(w, Confirming(o, "deliver", [assignment[o] EXCEPT !.delivered = TRUE]))
                 \/ \E o \in Orders, d \in Partners, s \in {<<"bidSave", "bid">>, <<"bidAssign", "acceptBid">>} :
                       /\ ~Assigned(o)
                       /\ Taken(w, [Idle EXCEPT !.pc = s[1], !.kind = s[2], !.o = o, !.asg = AssignedTo(d)])
                 \/ \E o \in Orders :
                       Taken(w, [Idle EXCEPT !.pc = "payInsert", !.kind = "payCreate", !.o = o])
                 \/ \E p \in Payments :
                       /\ Exists(p)
                       /\ Taken(w, [Idle EXCEPT !.pc = "payMark", !.kind = "markPaid", !.p = p,
                                                !.o = payment[p].order])
  <1>1. ASSUME NEW r, Begin(w, r) PROVE Taken(w, r)
    BY <1>1 DEF Begin, Taken, TypeOK
  <1> DEFINE Kept == UNCHANGED <<order, assignment, bid, payment, ledger, restocked, reached>>
  <1>2. ASSUME NEW o \in Orders, VendorOrderAction(w, o)
        PROVE  Kept /\ \E k \in Moves : /\ Allowed(order[o], k) /\ k \notin {"pickup", "deliver"}
                                        /\ Taken(w, Moving(o, k))
    <2>1. PICK k \in {"accept", "prepare", "ready", "reject"} :
              Allowed(order[o], k) /\ Begin(w, Moving(o, k))
      BY <1>2 DEF VendorOrderAction, Moving
    <2>2. Kept
      BY <1>2 DEF VendorOrderAction
    <2>3. QED
      BY <1>1, <2>1, <2>2, MovesKinds
  <1>3. ASSUME NEW o \in Orders, OrderCancel(w, o)
        PROVE  Kept /\ \E k \in Moves : /\ Allowed(order[o], k) /\ k \notin {"pickup", "deliver"}
                                        /\ Taken(w, Moving(o, k))
    <2>1. Allowed(order[o], "cancel")
      BY <1>3 DEF OrderCancel, Allowed, Target, TRANSITIONS, PENDING, CONFIRMED, CANCELLED
    <2>2. Taken(w, Moving(o, "cancel"))
      BY <1>1, <1>3 DEF OrderCancel, Moving
    <2>3. Kept
      BY <1>3 DEF OrderCancel
    <2>4. QED
      BY <2>1, <2>2, <2>3, MovesKinds
  <1>4. ASSUME NEW o \in Orders, ConfirmPickup(w, o)
        PROVE  Kept /\ Taken(w, Confirming(o, "pickup", [assignment[o] EXCEPT !.picked = TRUE]))
    BY <1>1, <1>4 DEF ConfirmPickup, Confirming
  <1>5. ASSUME NEW o \in Orders, ConfirmDeliver(w, o)
        PROVE  Kept /\ Taken(w, Confirming(o, "deliver", [assignment[o] EXCEPT !.delivered = TRUE]))
    BY <1>1, <1>5 DEF ConfirmDeliver, Confirming
  <1>6. ASSUME NEW o \in Orders, BidCreate(w, o)
        PROVE  Kept /\ ~Assigned(o) /\ \E d \in Partners :
                  Taken(w, [Idle EXCEPT !.pc = "bidSave", !.kind = "bid", !.o = o, !.asg = AssignedTo(d)])
    BY <1>1, <1>6, ConstantsAssumption DEF BidCreate
  <1>7. ASSUME NEW o \in Orders, BidAccept(w, o)
        PROVE  Kept /\ ~Assigned(o) /\ \E d \in Partners :
                  Taken(w, [Idle EXCEPT !.pc = "bidAssign", !.kind = "acceptBid", !.o = o,
                                        !.asg = AssignedTo(d)])
    BY <1>1, <1>7 DEF BidAccept
  <1>8. ASSUME NEW o \in Orders, PaymentCreate(w, o)
        PROVE  Kept /\ Taken(w, [Idle EXCEPT !.pc = "payInsert", !.kind = "payCreate", !.o = o])
    BY <1>1, <1>8 DEF PaymentCreate
  <1>9. ASSUME NEW p \in Payments, PaymentPaid(w, p)
        PROVE  Kept /\ Exists(p) /\ Taken(w, [Idle EXCEPT !.pc = "payMark", !.kind = "markPaid",
                                                  !.p = p, !.o = payment[p].order])
    BY <1>1, <1>9 DEF PaymentPaid
  <1>10. (\E o \in Orders : PaymentCreateCod(w, o)) \/ (\E p \in Payments : PaymentFailed(w, p))
         => req' = req
    BY DEF PaymentCreateCod, PaymentFailed
  <1> DEFINE Bidding(o, s) == \E d \in Partners :
                 Taken(w, [Idle EXCEPT !.pc = s[1], !.kind = s[2], !.o = o, !.asg = AssignedTo(d)])
  <1>11. ASSUME NEW o \in Orders, BidCreate(w, o) \/ BidAccept(w, o)
         PROVE  Kept /\ ~Assigned(o) /\ \E s \in {<<"bidSave", "bid">>, <<"bidAssign", "acceptBid">>} :
                    Bidding(o, s)
    <2>1. CASE BidCreate(w, o)
      <3>1. Bidding(o, <<"bidSave", "bid">>)
        BY <1>6, <2>1
      <3>2. QED
        BY <1>6, <2>1, <3>1
    <2>2. CASE BidAccept(w, o)
      <3>1. Bidding(o, <<"bidAssign", "acceptBid">>)
        BY <1>7, <2>2
      <3>2. QED
        BY <1>7, <2>2, <3>1
    <2>3. QED
      BY <1>11, <2>1, <2>2
  <1> HIDE DEF Kept, Bidding
  <1>12. QED
    BY <1>2, <1>3, <1>4, <1>5, <1>8, <1>9, <1>10, <1>11 DEF Arrive, Kept, Bidding

-----------------------------------------------------------------------------
(* What is owed is recorded                                                *)

\* Nothing is taken out of the ledger.
LEMMA RecordedStays ==
    ASSUME TypeOK, NEW w \in Workers, Acts(w), NEW o \in Orders, NEW r \in LedgerReason,
           Recorded(o, r)
    PROVE  Recorded(o, r)'
  <1>1. CASE LedgerWrite(w)
    <2>1. PICK q \in LedgerReason :
              ledger' = IF <<req[w].o, q>> \in ZeroAmount THEN ledger
                        ELSE [ledger EXCEPT ![req[w].o][q] = @ + 1]
      BY <1>1 DEF LedgerWrite
    <2>2. ledger[o][r] \in Nat
      BY DEF TypeOK
    <2>3. ledger'[o][r] \in {ledger[o][r], ledger[o][r] + 1}
      BY <2>1, <2>2 DEF TypeOK
    <2>4. QED
      BY <2>2, <2>3 DEF Recorded
  <1>2. CASE UNCHANGED ledger
    BY <1>2 DEF Recorded
  <1>3. QED
    BY <1>1, <1>2, LedgerStays

\* A request that owes an entry records it, or owes it still.
LEMMA DueStays ==
    ASSUME TypeOK, Shape, NEW w \in Workers, Arrive(w) \/ Step(w),
           NEW o \in Orders, req[w].o = o,
           NEW r \in LedgerReason, req[w].pc \in Ledgering, r \in req[w].due
    PROVE  \/ Recorded(o, r)'
           \/ /\ req'[w].o = o /\ req'[w].kind = req[w].kind
              /\ req'[w].pc \in Ledgering /\ r \in req'[w].due
  <1>1. CASE req[w].pc = "codPaid"
    <2>1. Moved(w, "ledgerCheck", req[w].due)
      BY <1>1, StepAt, StepEffect
    <2>2. QED
      BY <2>1 DEF Moved, Ledgering
  <1>2. CASE req[w].pc \in {"ledgerCheck", "ledgerWrite"}
    <2>1. LedgerCheck(w) \/ LedgerWrite(w)
      BY <1>2, StepAt
    <2>2. CASE Moved(w, "ledgerWrite", req[w].due)
      BY <2>2 DEF Moved, Ledgering
    <2>3. ASSUME NEW s \in req[w].due,
                 <<req[w].o, s>> \in ZeroAmount \/ ledger'[req[w].o][s] > 0,
                 Moved(w, "ledgerCheck", req[w].due \ {s}) \/ req[w].due = {s}
          PROVE  \/ Recorded(o, r)'
                 \/ /\ req'[w].o = o /\ req'[w].kind = req[w].kind
                    /\ req'[w].pc \in Ledgering /\ r \in req'[w].due
      <3>1. CASE s = r
        BY <2>3, <3>1 DEF Recorded
      <3>2. CASE s # r
        BY <2>3, <3>2 DEF Moved, Ledgering
      <3>3. QED
        BY <3>1, <3>2
    <2>4. QED
      BY <2>1, <2>2, <2>3, LedgerEffect
  <1>3. QED
    BY <1>1, <1>2 DEF Ledgering

\* A request that has delivered order o owes what is due on delivery.
LEMMA DeliveryPaysStep ==
    ASSUME ToTheEnd, TypeOK, Shape, Owing, DeliveryPays, NEW w \in Workers, Acts(w)
    PROVE  DeliveryPays'
  <1> SUFFICES ASSUME NEW o \in Orders, DELIVERED \in reached'[o],
                      NEW r \in DueOnDelivery(order'[o]), ~Recorded(o, r)'
               PROVE  Paying(o, r)'
    BY DEF DeliveryPays
  <1>1. r \in DueOnDelivery(order[o]) /\ r \in LedgerReason
    BY MethodsStay DEF DueOnDelivery, LedgerReason
  <1>2. ~Recorded(o, r)
    BY <1>1, RecordedStays
  <1>3. Arrive(w) \/ Step(w)
    BY NothingCut
  <1> DEFINE Pays(q) == /\ q.o = o /\ q.kind = "deliver"
                        /\ q.pc = "log" \/ (q.pc \in Ledgering /\ r \in q.due)
  <1>4. SUFFICES \E v \in Workers : Pays(req'[v])
    BY DEF Paying
  <1>5. CASE DELIVERED \notin reached[o]
    <2>1. SaveOrder(w)
      BY <1>5, WhoWritesStages
    <2>2. o = req[w].o /\ Target[req[w].kind] = DELIVERED
      BY <1>5, <2>1 DEF SaveOrder, TypeOK
    <2>3. req[w].kind \in Moves
      BY <2>1 DEF SaveOrder, Shape
    <2>4. req[w].kind = "deliver"
      BY <2>2, <2>3, MovesKinds DEF Target, CONFIRMED, PREPARING, READY_FOR_PICKUP, CANCELLED,
                                    OUT_FOR_DELIVERY, DELIVERED
    <2>5. QED
      BY <2>1, <2>2, <2>4, StepEffect DEF Moved
  <1>6. CASE DELIVERED \in reached[o]
    <2>1. PICK v \in Workers : Pays(req[v])
      BY <1>1, <1>2, <1>6 DEF DeliveryPays, Paying
    <2>2. CASE v # w
      BY <2>1, <2>2, OthersWait
    <2>3. CASE v = w /\ req[w].pc = "log"
      <3>1. req[w].kind = "deliver" /\ req[w].o = o
        BY <2>1, <2>3
      <3>2. Moved(w, IF req[w].row.method = "cod" THEN "codPaid" ELSE "ledgerCheck",
                  DueOnDelivery(req[w].row))
        BY <1>3, <2>3, <3>1, StepAt, LogEffect
      <3>3. r \in DueOnDelivery(req[w].row)
        BY <1>1, <2>3, <3>1 DEF Owing, DueOnDelivery
      <3>4. QED
        BY <3>1, <3>2, <3>3 DEF Moved, Ledgering
    <2>4. CASE v = w /\ req[w].pc \in Ledgering /\ r \in req[w].due
      BY <1>1, <1>3, <2>1, <2>4, DueStays
    <2>5. QED
      BY <2>1, <2>2, <2>3, <2>4
  <1>7. QED
    BY <1>5, <1>6

-----------------------------------------------------------------------------
(* What has been collected has been charged                                *)

\* Who writes payment_status, and what.
LEMMA WhoWritesPaid ==
    ASSUME TypeOK, Shape, NEW w \in Workers, Acts(w), NEW o \in Orders
    PROVE  \/ order'[o].payment_status = order[o].payment_status
           \/ PaymentCreateCod(w, o) /\ order'[o].payment_status = "pending"
           \/ /\ req[w].o = o
              /\ \/ (CodPaid(w) \/ MarkOrder(w)) /\ order'[o].payment_status = "paid"
                 \/ SaveOrder(w) /\ order'[o].payment_status = req[w].row.payment_status
                 \/ /\ RefundOrder(w)
                    /\ order'[o].payment_status = IF req[w].row.payment_status = "paid"
                                                  THEN "refunded" ELSE req[w].row.payment_status
  <1> USE DEF TypeOK, OrderRow
  <1>1. CASE SaveOrder(w)
    BY <1>1 DEF SaveOrder, Request
  <1>2. CASE CodPaid(w)
    BY <1>2 DEF CodPaid
  <1>3. CASE RefundOrder(w)
    <2>1. PICK s : /\ s = IF req[w].row.payment_status = "paid" THEN "refunded"
                          ELSE req[w].row.payment_status
                   /\ order' = [order EXCEPT ![req[w].o].payment_status = s]
      BY <1>3 DEF RefundOrder
    <2>2. QED
      BY <1>3, <2>1
  <1>4. CASE MarkOrder(w)
    BY <1>4 DEF MarkOrder
  <1>5. ASSUME NEW x \in Orders, PaymentCreateCod(w, x)
        PROVE  \/ order'[o].payment_status = order[o].payment_status
               \/ x = o /\ order'[o].payment_status = "pending"
    BY <1>5 DEF PaymentCreateCod
  <1>6. \/ SaveOrder(w) \/ CodPaid(w) \/ RefundOrder(w) \/ MarkOrder(w)
        \/ \E x \in Orders : PaymentCreateCod(w, x)
        \/ UNCHANGED order
    BY WhoWritesOrders
  <1>7. QED
    BY <1>1, <1>2, <1>3, <1>4, <1>5, <1>6

\* What a request keeps from one statement to the next: its order, its handler and,
\* unless it reads it again, its row; it comes to owe a refund entry by a row that
\* says refunded.
LEMMA StepCarries ==
    ASSUME TypeOK, Shape, NEW w \in Workers, Step(w)
    PROVE  \/ Answered(w)
           \/ /\ req'[w].o = req[w].o /\ req'[w].kind = req[w].kind /\ req'[w].asg = req[w].asg
              /\ \/ req'[w].row = req[w].row
                 \/ ReadOrder(w) /\ req'[w].row = order[req[w].o]
              /\ "order_refund" \in req'[w].due =>
                    "order_refund" \in req[w].due \/ req[w].row.payment_status = "refunded"
  <1> DEFINE Carried ==
        /\ req'[w].o = req[w].o /\ req'[w].kind = req[w].kind /\ req'[w].asg = req[w].asg
        /\ req'[w].row = req[w].row \/ (ReadOrder(w) /\ req'[w].row = order[req[w].o])
        /\ "order_refund" \in req'[w].due =>
              "order_refund" \in req[w].due \/ req[w].row.payment_status = "refunded"
  <1>1. CASE LogStatus(w)
    BY <1>1, LogEffect DEF Moved, DueOnDelivery
  <1>2. CASE LedgerCheck(w) \/ LedgerWrite(w)
    BY <1>2, LedgerEffect DEF Moved
  <1>3. CASE ReadOrder(w)
    <2>1. ASSUME req'[w] = [req[w] EXCEPT !.pc = "save", !.row = order[req[w].o]] PROVE Carried
      BY <1>3, <2>1 DEF TypeOK, Request
    <2>2. QED
      BY <1>3, <2>1, ReadEffect
  <1>4. CASE \/ SaveAssignment(w) \/ SaveOrder(w) \/ CodPaid(w) \/ Restock(w) \/ RefundPayments(w)
             \/ RefundOrder(w) \/ CreateAssignment(w) \/ SaveBid(w) \/ AssignBidder(w)
             \/ AcceptBid(w) \/ RejectOthers(w) \/ InsertPayment(w) \/ MarkPayment(w)
             \/ MarkOrder(w)
    BY <1>4, StepEffect DEF Moved
  <1>5. QED
    BY <1>1, <1>2, <1>3, <1>4 DEF Step

Firsts == {"save", "saveAssignment", "bidSave", "bidAssign", "payInsert", "payMark"}

\* A request that has just arrived holds the order's row as it is, or none, and
\* owes nothing.
LEMMA ArriveHolds ==
    ASSUME TypeOK, NEW w \in Workers, Arrive(w), req' # req
    PROVE  /\ \A v \in Workers \ {w} : req'[v] = req[v]
           /\ req'[w].due = {}
           /\ req'[w].pc \in Firsts
           /\ \/ req'[w].pc = "save" /\ req'[w].row = order[req'[w].o]
              \/ req'[w].pc # "save" /\ req'[w].row.payment_status = "pending"
  <1>1. ASSUME NEW o \in Orders, NEW k \in Moves
        PROVE  /\ Moving(o, k).due = {} /\ Moving(o, k).pc = "save"
               /\ Moving(o, k).row = order[Moving(o, k).o]
    BY DEF Moving, Idle
  <1>2. ASSUME NEW o \in Orders, NEW k, NEW a
        PROVE  /\ Confirming(o, k, a).due = {} /\ Confirming(o, k, a).pc = "saveAssignment"
               /\ Confirming(o, k, a).row.payment_status = "pending"
    BY DEF Confirming, Idle
  <1> DEFINE Holds == /\ \A v \in Workers \ {w} : req'[v] = req[v]
                      /\ req'[w].due = {}
                      /\ req'[w].pc \in Firsts
                      /\ \/ req'[w].pc = "save" /\ req'[w].row = order[req'[w].o]
                         \/ req'[w].pc # "save" /\ req'[w].row.payment_status = "pending"
  <1>3. ASSUME NEW o \in Orders, NEW k \in Moves, Taken(w, Moving(o, k)) PROVE Holds
    BY <1>1, <1>3 DEF Taken, Firsts
  <1>4. ASSUME NEW o \in Orders, NEW k, NEW a, Taken(w, Confirming(o, k, a)) PROVE Holds
    BY <1>2, <1>4 DEF Taken, Firsts
  <1>5. ASSUME NEW o \in Orders, NEW d \in Partners, NEW s \in {<<"bidSave", "bid">>, <<"bidAssign", "acceptBid">>},
               Taken(w, [Idle EXCEPT !.pc = s[1], !.kind = s[2], !.o = o, !.asg = AssignedTo(d)])
        PROVE  Holds
    <2>1. s[1] \in {"bidSave", "bidAssign"}
      OBVIOUS
    <2>2. QED
      BY <1>5, <2>1 DEF Taken, Idle, Firsts
  <1>6. ASSUME NEW o \in Orders,
               Taken(w, [Idle EXCEPT !.pc = "payInsert", !.kind = "payCreate", !.o = o])
        PROVE  Holds
    BY <1>6 DEF Taken, Idle, Firsts
  <1>7. ASSUME NEW p \in Payments,
               Taken(w, [Idle EXCEPT !.pc = "payMark", !.kind = "markPaid", !.p = p,
                                     !.o = payment[p].order])
        PROVE  Holds
    BY <1>7 DEF Taken, Idle, Firsts
  <1> HIDE DEF Holds
  <1>8. Holds
    BY <1>3, <1>4, <1>5, <1>6, <1>7, ArriveEffect
  <1>9. QED
    BY <1>8 DEF Holds

\* What a request that has just arrived is, by the statement it stands at.
LEMMA ArriveAt ==
    ASSUME TypeOK, NEW w \in Workers, Arrive(w), req' # req
    PROVE  /\ req'[w].pc = "save" =>
                 \E o \in Orders, k \in Moves \ {"pickup", "deliver"} :
                     Allowed(order[o], k) /\ Taken(w, Moving(o, k))
           /\ req'[w].pc = "saveAssignment" =>
                 \E o \in Orders :
                    \/ Taken(w, Confirming(o, "pickup", [assignment[o] EXCEPT !.picked = TRUE]))
                    \/ Taken(w, Confirming(o, "deliver", [assignment[o] EXCEPT !.delivered = TRUE]))
           /\ req'[w].pc \in {"bidSave", "bidAssign"} =>
                 req'[w].o \in Orders /\ assignment[req'[w].o].partner = None
           /\ req'[w].pc = "payMark" => /\ req'[w].p \in Payments
                                        /\ payment[req'[w].p].order # None
                                        /\ req'[w].o = payment[req'[w].p].order
  <1> DEFINE Confirmed(o) ==
        \/ Taken(w, Confirming(o, "pickup", [assignment[o] EXCEPT !.picked = TRUE]))
        \/ Taken(w, Confirming(o, "deliver", [assignment[o] EXCEPT !.delivered = TRUE]))
             At ==
        \/ /\ req'[w].pc = "save"
           /\ \E o \in Orders, k \in Moves \ {"pickup", "deliver"} :
                 Allowed(order[o], k) /\ Taken(w, Moving(o, k))
        \/ req'[w].pc = "saveAssignment" /\ \E o \in Orders : Confirmed(o)
        \/ /\ req'[w].pc \in {"bidSave", "bidAssign"}
           /\ req'[w].o \in Orders /\ assignment[req'[w].o].partner = None
        \/ req'[w].pc = "payInsert"
        \/ /\ req'[w].pc = "payMark" /\ req'[w].p \in Payments
           /\ payment[req'[w].p].order # None
           /\ req'[w].o = payment[req'[w].p].order
  <1>1. ASSUME NEW o \in Orders, NEW k \in Moves, Allowed(order[o], k),
               k \notin {"pickup", "deliver"}, Taken(w, Moving(o, k))
        PROVE  At
    <2>1. Moving(o, k).pc = "save"
      BY DEF Moving, Idle
    <2>2. QED
      BY <1>1, <2>1 DEF Taken
  <1>2. ASSUME NEW o \in Orders, Confirmed(o) PROVE At
    <2>1. req'[w].pc = "saveAssignment"
      BY <1>2 DEF Taken, Confirming, Idle
    <2> HIDE DEF Confirmed
    <2>2. QED
      BY <1>2, <2>1
  <1>3. ASSUME NEW o \in Orders, NEW d \in Partners, ~Assigned(o),
               NEW s \in {<<"bidSave", "bid">>, <<"bidAssign", "acceptBid">>},
               Taken(w, [Idle EXCEPT !.pc = s[1], !.kind = s[2], !.o = o, !.asg = AssignedTo(d)])
        PROVE  At
    <2>1. s[1] \in {"bidSave", "bidAssign"}
      OBVIOUS
    <2>2. req'[w].pc = s[1] /\ req'[w].o = o
      BY <1>3 DEF Taken, Idle
    <2>3. QED
      BY <1>3, <2>1, <2>2 DEF Assigned
  <1>4. ASSUME NEW o \in Orders,
               Taken(w, [Idle EXCEPT !.pc = "payInsert", !.kind = "payCreate", !.o = o])
        PROVE  At
    BY <1>4 DEF Taken, Idle
  <1>5. ASSUME NEW p \in Payments, Exists(p),
               Taken(w, [Idle EXCEPT !.pc = "payMark", !.kind = "markPaid", !.p = p,
                                     !.o = payment[p].order])
        PROVE  At
    BY <1>5 DEF Taken, Idle, Exists
  <1> HIDE DEF At
  <1>6. At
    BY <1>1, <1>2, <1>3, <1>4, <1>5, ArriveEffect
  <1>7. QED
    BY <1>6 DEF At

\* Which statement a request stands at says which one it comes from.
LEMMA CameFrom ==
    ASSUME TypeOK, Shape, NEW w \in Workers, Arrive(w) \/ Step(w)
    PROVE  LET pc == req'[w].pc IN
           /\ pc \in Firsts \ {"save"} => Arrive(w)
           /\ pc = "save" => Arrive(w) \/ ReadOrder(w)
           /\ pc = "readOrder" => SaveAssignment(w)
           /\ pc = "log" => SaveOrder(w)
           /\ pc \in {"codPaid", "assign"} => LogStatus(w)
           /\ pc = "ledgerCheck" => \/ LogStatus(w) \/ CodPaid(w) \/ MarkOrder(w)
                                    \/ LedgerCheck(w) \/ LedgerWrite(w)
           /\ pc = "ledgerWrite" => LedgerCheck(w)
           /\ pc = "restock" => LogStatus(w) \/ LedgerCheck(w) \/ LedgerWrite(w)
           /\ pc = "refundPayments" => Restock(w)
           /\ pc = "refundOrder" => RefundPayments(w)
           /\ pc = "payOrder" => MarkPayment(w)
           /\ pc = "bidAccept" => AssignBidder(w)
           /\ pc = "bidReject" => AcceptBid(w)
  <1>1. CASE Arrive(w)
    <2>1. req'[w].pc \in Firsts \cup {"idle"}
      BY <1>1, ArriveIdle, ArriveHolds
    <2>2. QED
      BY <1>1, <2>1 DEF Firsts
  <1>2. CASE ReadOrder(w)
    <2>1. req'[w].pc \in {"idle", "save"}
      <3>1. ASSUME req'[w] = [req[w] EXCEPT !.pc = "save", !.row = order[req[w].o]]
            PROVE  req'[w].pc = "save"
        BY <3>1 DEF TypeOK, Request
      <3>2. Answered(w) => req'[w].pc = "idle"
        BY DEF Answered, Idle
      <3>3. QED
        BY <1>2, <3>1, <3>2, ReadEffect
    <2>2. QED
      BY <1>2, <2>1 DEF Firsts
  <1>3. CASE LogStatus(w)
    <2>1. req'[w].pc \in {"idle", "assign", "codPaid", "ledgerCheck", "restock"}
      BY <1>3, LogEffect DEF Answered, Idle, Moved
    <2>2. QED
      BY <1>3, <2>1 DEF Firsts
  <1>4. CASE LedgerCheck(w) \/ LedgerWrite(w)
    <2>1. \/ req'[w].pc \in {"idle", "ledgerCheck", "restock"}
          \/ req'[w].pc = "ledgerWrite" /\ LedgerCheck(w)
      <3>1. Answered(w) => req'[w].pc = "idle"
        BY DEF Answered, Idle
      <3>2. \A pc, due : Moved(w, pc, due) => req'[w].pc = pc
        BY DEF Moved
      <3>3. QED
        BY <1>4, <3>1, <3>2, LedgerEffect
    <2>2. QED
      BY <1>4, <2>1 DEF Firsts
  <1>5. CASE \/ SaveAssignment(w) \/ SaveOrder(w) \/ CodPaid(w) \/ Restock(w) \/ RefundPayments(w)
             \/ RefundOrder(w) \/ CreateAssignment(w) \/ SaveBid(w) \/ AssignBidder(w)
             \/ AcceptBid(w) \/ RejectOthers(w) \/ InsertPayment(w) \/ MarkPayment(w)
             \/ MarkOrder(w)
    BY <1>5, StepEffect DEF Answered, Idle, Moved, Firsts
  <1>6. QED
    BY <1>1, <1>2, <1>3, <1>4, <1>5 DEF Step

\* The copies of the row: whatever request is in flight for an order nothing has
\* been collected for was so before, with a row and entries that do not say so.
LEMMA CopiesUncollected ==
    ASSUME TypeOK, Shape, NEW w \in Workers, Arrive(w) \/ Step(w),
           NEW o \in Orders, Uncollected(o),
           NEW v \in Workers, req'[v].pc # "idle", req'[v].o = o
    PROVE  req'[v].row.payment_status = "pending" /\ "order_refund" \notin req'[v].due
  <1>1. CASE req'[v] = req[v]
    BY <1>1 DEF Uncollected
  <1>2. CASE Arrive(w) /\ req' # req
    BY <1>1, <1>2, ArriveHolds DEF Uncollected
  <1>3. CASE Step(w) /\ v # w
    BY <1>1, <1>3, OthersWait DEF Acts
  <1>4. CASE Step(w) /\ v = w
    <2>1. req[w].pc # "idle"
      BY <1>4, StepBusy
    <2>2. ~Answered(w)
      BY <1>4 DEF Answered, Idle
    <2>3. req[w].o = o
      BY <1>4, <2>2, StepCarries
    <2>4. req[w].row.payment_status = "pending" /\ "order_refund" \notin req[w].due
      BY <2>1, <2>3 DEF Uncollected
    <2>5. QED
      BY <1>4, <2>2, <2>3, <2>4, StepCarries DEF Uncollected
  <1>5. QED
    BY <1>1, <1>2, <1>3, <1>4

\* Whoever makes an order say that it has been paid is about to charge its buyer.
LEMMA CollectingStep ==
    ASSUME ToTheEnd, TypeOK, Shape, Collecting, NEW w \in Workers, Acts(w)
    PROVE  Collecting'
  <1>1. Arrive(w) \/ Step(w)
    BY NothingCut
  <1>2. ASSUME NEW o \in Orders
        PROVE  Recorded(o, "order_charge")' \/ Charging(o)' \/ Uncollected(o)'
    <2> DEFINE Charges(q) == q.o = o /\ q.pc \in Ledgering /\ "order_charge" \in q.due
    <2> SUFFICES ASSUME ~Recorded(o, "order_charge")', \A v \in Workers : ~Charges(req'[v])
                 PROVE  Uncollected(o)'
      BY DEF Charging
    <2>1. "order_charge" \in LedgerReason /\ "order_refund" \in LedgerReason
      BY DEF LedgerReason
    <2>2. ~Recorded(o, "order_charge")
      BY <2>1, RecordedStays
    <2>3. ~Charging(o)
      <3>1. ASSUME NEW v \in Workers, Charges(req[v]) PROVE FALSE
        <4>1. CASE v # w
          BY <3>1, <4>1, OthersWait
        <4>2. CASE v = w
          BY <1>1, <2>1, <3>1, <4>2, DueStays
        <4>3. QED
          BY <4>1, <4>2
      <3>2. QED
        BY <3>1 DEF Charging
    <2>4. Uncollected(o)
      BY <2>2, <2>3 DEF Collecting
    <2>5. order'[o].payment_status = "pending"
      <3>1. ASSUME req[w].o = o, CodPaid(w) \/ MarkOrder(w) PROVE FALSE
        <4>1. Moved(w, "ledgerCheck", req[w].due) \/ Moved(w, "ledgerCheck", {"order_charge"})
          BY <3>1, StepEffect
        <4>2. "order_charge" \in req'[w].due /\ req'[w].pc = "ledgerCheck" /\ req'[w].o = o
          BY <3>1, <4>1, StepEffect DEF Moved, Collecting, CodPaid
        <4>3. QED
          BY <4>2 DEF Ledgering
      <3>2. req[w].o = o /\ (SaveOrder(w) \/ RefundOrder(w)) =>
                req[w].row.payment_status = "pending"
        BY <2>4 DEF Uncollected, SaveOrder, RefundOrder
      <3>3. QED
        BY <2>4, <3>1, <3>2, WhoWritesPaid DEF Uncollected
    <2>6. ledger'[o]["order_refund"] = 0
      <3>1. req[w].pc = "ledgerWrite" /\ req[w].o = o => "order_refund" \notin req[w].due
        BY <2>4 DEF Uncollected
      <3>2. QED
        BY <2>1, <2>4, <3>1, WhoWritesLedger DEF Uncollected
    <2>7. \A v \in Workers : req'[v].pc # "idle" /\ req'[v].o = o =>
              req'[v].row.payment_status = "pending" /\ "order_refund" \notin req'[v].due
      BY <1>1, <2>4, CopiesUncollected
    <2>8. QED
      BY <2>5, <2>6, <2>7 DEF Uncollected
  <1>3. ASSUME NEW v \in Workers, req'[v].pc = "codPaid"
        PROVE  "order_charge" \in req'[v].due
    <2>1. CASE req'[v] = req[v]
      BY <1>3, <2>1 DEF Collecting
    <2>2. CASE v = w /\ LogStatus(w)
      <3>1. req[w].row.method = "cod" /\ Moved(w, "codPaid", DueOnDelivery(req[w].row))
        BY <1>3, <2>2, LogEffect DEF Moved, Answered, Idle
      <3>2. QED
        BY <2>2, <3>1 DEF Moved, DueOnDelivery
    <2>3. QED
      BY <1>1, <1>3, <2>1, <2>2, CameFrom, OthersWait
  <1>4. QED
    BY <1>2, <1>3 DEF Collecting

-----------------------------------------------------------------------------
(* What has been cancelled is returned                                     *)

\* The handlers that ask for a status.
LEMMA TargetOf ==
    ASSUME NEW k \in Moves
    PROVE  /\ Target[k] = OUT_FOR_DELIVERY <=> k = "pickup"
           /\ Target[k] = DELIVERED <=> k = "deliver"
           /\ Target[k] = CANCELLED <=> k \in {"cancel", "reject"}
  BY MovesKinds DEF Target, CONFIRMED, PREPARING, READY_FOR_PICKUP, CANCELLED, OUT_FOR_DELIVERY,
                    DELIVERED

\* Nothing is taken back off the shelf.
LEMMA ReturnedStays ==
    ASSUME TypeOK, Shape, NEW w \in Workers, Acts(w), NEW o \in Orders
    PROVE  /\ restocked[o] > 0 => restocked'[o] > 0
           /\ Restock(w) /\ req[w].o = o => restocked'[o] > 0
  <1>1. restocked \in [Orders -> Nat]
    BY DEF TypeOK
  <1>2. CASE Restock(w)
    <2>1. restocked' = [restocked EXCEPT ![req[w].o] = @ + 1]
      BY <1>2 DEF Restock
    <2>2. QED
      BY <1>1, <2>1
  <1>3. QED
    BY <1>2, ReturnsStay

\* A request that has cancelled an order returns its items, or is still to.
LEMMA ReturnGoesOn ==
    ASSUME TypeOK, Shape, NEW w \in Workers, Arrive(w) \/ Step(w),
           req[w].kind \in {"cancel", "reject"}, req[w].pc \in {"log"} \cup Ledgering
    PROVE  /\ req'[w].o = req[w].o /\ req'[w].kind = req[w].kind
           /\ req'[w].pc \in {"restock"} \cup Ledgering
  <1>1. \A pc, due : Moved(w, pc, due) =>
            req'[w].pc = pc /\ req'[w].o = req[w].o /\ req'[w].kind = req[w].kind
    BY DEF Moved
  <1>2. CASE req[w].pc = "log"
    <2>1. LogStatus(w)
      BY <1>2, StepAt
    <2>2. QED
      BY <1>1, <2>1, LogEffect DEF Ledgering
  <1>3. CASE req[w].pc \in {"ledgerCheck", "ledgerWrite"}
    <2>1. LedgerCheck(w) \/ LedgerWrite(w)
      BY <1>3, StepAt
    <2>2. QED
      BY <1>1, <2>1, LedgerEffect DEF Ledgering
  <1>4. req[w].pc # "codPaid"
    BY DEF Shape
  <1>5. QED
    BY <1>2, <1>3, <1>4 DEF Ledgering

LEMMA CancelReturnsStep ==
    ASSUME ToTheEnd, TypeOK, Shape, CancelReturns, NEW w \in Workers, Acts(w)
    PROVE  CancelReturns'
  <1> SUFFICES ASSUME NEW o \in Orders, CANCELLED \in reached'[o], ~(restocked'[o] > 0)
               PROVE  Returning(o)'
    BY DEF CancelReturns
  <1>1. Arrive(w) \/ Step(w)
    BY NothingCut
  <1> DEFINE Returns(q) == /\ q.o = o /\ q.kind \in {"cancel", "reject"}
                           /\ q.pc \in {"log", "restock"} \cup Ledgering
  <1>2. SUFFICES \E v \in Workers : Returns(req'[v])
    BY DEF Returning
  <1>3. CASE CANCELLED \notin reached[o]
    <2>1. SaveOrder(w)
      BY <1>3, WhoWritesStages
    <2>2. o = req[w].o /\ Target[req[w].kind] = CANCELLED
      BY <1>3, <2>1 DEF SaveOrder, TypeOK
    <2>3. req[w].kind \in {"cancel", "reject"}
      BY <2>1, <2>2, TargetOf DEF SaveOrder, Shape
    <2>4. QED
      BY <2>1, <2>2, <2>3, StepEffect DEF Moved
  <1>4. CASE CANCELLED \in reached[o]
    <2>1. PICK v \in Workers : Returns(req[v])
      BY <1>4, ReturnedStays DEF CancelReturns, Returning
    <2>2. CASE v # w
      BY <2>1, <2>2, OthersWait
    <2>3. CASE v = w /\ req[w].pc = "restock"
      <3>1. Restock(w)
        BY <1>1, <2>3, StepAt
      <3>2. QED
        BY <2>1, <2>3, <3>1, ReturnedStays
    <2>4. CASE v = w /\ req[w].pc # "restock"
      BY <1>1, <2>1, <2>4, ReturnGoesOn
    <2>5. QED
      BY <2>2, <2>3, <2>4
  <1>5. QED
    BY <1>3, <1>4

-----------------------------------------------------------------------------
(* What has been captured is charged                                       *)

\* Who writes the status of a payment, and what.
LEMMA WhoPays ==
    ASSUME TypeOK, NEW w \in Workers, Acts(w), NEW p \in Payments
    PROVE  \/ /\ payment'[p].status = payment[p].status
              /\ ~(RefundPayments(w) /\ payment[p].order = req[w].o)
           \/ payment'[p].status = "pending"
           \/ MarkPayment(w) /\ p = req[w].p
           \/ RefundPayments(w) /\ payment[p].order = req[w].o /\ payment'[p].status = "refunded"
  <1> USE DEF TypeOK, PaymentRow
  <1>1. CASE InsertPayment(w)
    <2>1. PICK x \in Payments : payment' = [payment EXCEPT ![x].order = req[w].o]
      BY <1>1 DEF InsertPayment
    <2>2. QED
      BY <1>1, <2>1 DEF InsertPayment, RefundPayments
  <1>2. CASE RefundPayments(w)
    BY <1>2 DEF RefundPayments
  <1>3. CASE MarkPayment(w)
    BY <1>3 DEF MarkPayment, RefundPayments
  <1>4. ASSUME NEW x \in Payments, PaymentFailed(w, x)
        PROVE  \/ payment'[p].status = "pending"
               \/ payment'[p].status = payment[p].status /\ ~RefundPayments(w)
    BY <1>4 DEF PaymentFailed, RefundPayments
  <1>5. \/ InsertPayment(w) \/ RefundPayments(w) \/ MarkPayment(w)
        \/ \E x \in Payments : PaymentFailed(w, x)
        \/ UNCHANGED payment
    BY DEF Acts, Arrive, Step, VendorOrderAction, OrderCancel, ConfirmPickup, ConfirmDeliver, BidCreate,
         BidAccept, SaveBid, AssignBidder, AcceptBid, RejectOthers,
           PaymentCreate, PaymentCreateCod, PaymentPaid, SaveAssignment, ReadOrder, SaveOrder,
           LogStatus, CodPaid, LedgerCheck, LedgerWrite, Restock, RefundOrder,
           CreateAssignment, MarkOrder, LedgerFails, Crash
  <1>6. QED
    BY <1>1, <1>2, <1>3, <1>4, <1>5

\* The payment that mark_payment_paid goes on with is the one it has marked.
LEMMA MarkHolds ==
    ASSUME TypeOK, NEW w \in Workers, MarkPayment(w)
    PROVE  req'[w].pc = "payOrder" /\ req'[w].o = req[w].o /\ req'[w].p = req[w].p
  <1>1. req' = [req EXCEPT ![w] = [req[w] EXCEPT !.pc = "payOrder", !.due = {}]]
    BY DEF MarkPayment, Goto
  <1>2. QED
    BY <1>1 DEF TypeOK, Request

\* A payment that is paid was paid for the same order before, or has just been marked.
LEMMA PaidBefore ==
    ASSUME TypeOK, Shape, PaymentsHeld, NEW w \in Workers, Acts(w),
           NEW o \in Orders, NEW p \in Payments, PaidFor(o, p)'
    PROVE  \/ MarkPayment(w) /\ req'[w].o = o /\ req'[w].pc = "payOrder"
           \/ PaidFor(o, p) /\ ~(RefundPayments(w) /\ req[w].o = o)
  <1>1. payment'[p].order = o /\ payment'[p].status = "paid"
    BY DEF PaidFor
  <1>2. CASE MarkPayment(w) /\ p = req[w].p
    <2>1. payment'[p].order = payment[p].order
      BY <1>2, PaymentsStay DEF MarkPayment, InsertPayment
    <2>2. payment[p].order = req[w].o
      BY <1>2 DEF MarkPayment, PaymentsHeld
    <2>3. QED
      BY <1>1, <1>2, <2>1, <2>2, MarkHolds
  <1>3. CASE ~(MarkPayment(w) /\ p = req[w].p)
    <2>1. payment[p].status = "paid" /\ ~(RefundPayments(w) /\ payment[p].order = req[w].o)
      BY <1>1, <1>3, WhoPays
    <2>2. payment[p].order # None
      BY <2>1 DEF PaymentsHeld, Exists
    <2>3. payment[p].order = o
      BY <1>1, <2>2, PaymentsStay
    <2>4. QED
      BY <2>1, <2>3 DEF PaidFor, TypeOK, PaymentRow
  <1>4. QED
    BY <1>2, <1>3

\* A worker that is busy after an arrival has taken a request, and no table has changed.
LEMMA ArriveReads ==
    ASSUME TypeOK, NEW w \in Workers, Arrive(w), req'[w].pc # "idle"
    PROVE  /\ req' # req
           /\ UNCHANGED <<order, assignment, bid, payment, ledger, restocked, reached>>
  <1>1. req' # req
    BY ArriveIdle
  <1>2. QED
    BY <1>1, ArriveEffect

LEMMA PaymentsHeldStep ==
    ASSUME ToTheEnd, TypeOK, Shape, PaymentsHeld, NEW w \in Workers, Acts(w)
    PROVE  PaymentsHeld'
  <1>1. Arrive(w) \/ Step(w)
    BY NothingCut
  <1>2. None \notin Orders
    BY ConstantsAssumption
  <1>3. req[w].pc \in {"payMark", "refundPayments"} => req[w].o \in Orders
    BY DEF Shape
  <1>4. ASSUME NEW p \in Payments, ~Exists(p)' PROVE payment'[p].status = "pending"
    <2>1. payment[p].order = None
      BY <1>4, PaymentsStay DEF Exists
    <2>2. payment[p].status = "pending"
      BY <2>1 DEF PaymentsHeld, Exists
    <2>3. ~(MarkPayment(w) /\ p = req[w].p)
      BY <1>2, <1>3, <2>1 DEF MarkPayment, PaymentsHeld
    <2>4. ~(RefundPayments(w) /\ payment[p].order = req[w].o)
      BY <1>2, <1>3, <2>1 DEF RefundPayments
    <2>5. QED
      BY <2>2, <2>3, <2>4, WhoPays
  <1>5. ASSUME NEW v \in Workers, req[v].pc \in {"payMark", "payOrder"}
        PROVE  req[v].p \in Payments /\ payment'[req[v].p].order = req[v].o
    <2>1. /\ req[v].p \in Payments /\ payment[req[v].p].order = req[v].o
          /\ req[v].o \in Orders
      BY <1>5 DEF PaymentsHeld, Shape
    <2>2. QED
      BY <1>2, <2>1, PaymentsStay
  <1>6. ASSUME NEW v \in Workers, req'[v].pc \in {"payMark", "payOrder"}
        PROVE  req'[v].p \in Payments /\ payment'[req'[v].p].order = req'[v].o
    <2>1. CASE req'[v] = req[v]
      BY <1>5, <1>6, <2>1
    <2>2. CASE v = w /\ req'[w].pc = "payMark" /\ req' # req
      <3>1. Arrive(w)
        BY <1>1, <2>2, CameFrom DEF Firsts
      <3>2. payment' = payment
        BY <2>2, <3>1, ArriveReads
      <3>3. QED
        BY <2>2, <3>1, <3>2, ArriveAt
    <2>3. CASE v = w /\ req'[w].pc = "payOrder"
      <3>1. MarkPayment(w)
        BY <1>1, <2>3, CameFrom
      <3>2. QED
        BY <1>5, <2>3, <3>1, MarkHolds DEF MarkPayment
    <2>4. QED
      BY <1>6, <2>1, <2>2, <2>3, OthersWait
  <1>7. QED
    BY <1>4, <1>6 DEF PaymentsHeld

LEMMA CapturePaysStep ==
    ASSUME ToTheEnd, TypeOK, Shape, PaymentsHeld, CapturePays, NEW w \in Workers, Acts(w)
    PROVE  CapturePays'
  <1> DEFINE Charges(q, o) == q.o = o /\ q.pc \in Ledgering /\ "order_charge" \in q.due
             Tells(q, o)   == q.o = o /\ q.pc = "payOrder"
  <1> SUFFICES ASSUME NEW o \in Orders, NEW p \in Payments, PaidFor(o, p)',
                      ~Recorded(o, "order_charge")'
               PROVE  \E v \in Workers : Charges(req'[v], o) \/ Tells(req'[v], o)
    BY DEF CapturePays, Charging
  <1>1. Arrive(w) \/ Step(w)
    BY NothingCut
  <1>2. "order_charge" \in LedgerReason
    BY DEF LedgerReason
  <1>3. CASE MarkPayment(w) /\ req'[w].o = o /\ req'[w].pc = "payOrder"
    BY <1>3
  <1>4. CASE PaidFor(o, p)
    <2>1. PICK v \in Workers : Charges(req[v], o) \/ Tells(req[v], o)
      BY <1>2, <1>4, RecordedStays DEF CapturePays, Charging
    <2>2. CASE v # w
      BY <2>1, <2>2, OthersWait
    <2>3. CASE v = w /\ Charges(req[w], o)
      BY <1>1, <1>2, <2>3, DueStays
    <2>4. CASE v = w /\ Tells(req[w], o)
      <3>1. Moved(w, "ledgerCheck", {"order_charge"})
        BY <1>1, <2>4, StepAt, StepEffect
      <3>2. QED
        BY <2>4, <3>1 DEF Moved, Ledgering
    <2>5. QED
      BY <2>1, <2>2, <2>3, <2>4
  <1>5. QED
    BY <1>3, <1>4, PaidBefore

-----------------------------------------------------------------------------
(* Run to the end: the invariant, and what follows from it                 *)

LEMMA EndsInit == Init => EndsInv
  <1> SUFFICES ASSUME Init PROVE EndsInv
    OBVIOUS
  <1>1. \A w \in Workers : req[w] = Idle
    BY DEF Init
  <1>2. \A o \in Orders : DELIVERED \notin reached[o]
    BY DEF Init, PENDING, DELIVERED
  <1>3. \A o \in Orders : order[o].payment_status = "pending" /\ ledger[o]["order_refund"] = 0
    BY DEF Init, LedgerReason
  <1>4. DeliveryPays /\ Collecting
    BY <1>1, <1>2, <1>3 DEF DeliveryPays, Collecting, Uncollected, Idle
  <1>5. CancelReturns
    BY DEF Init, CancelReturns, PENDING, CANCELLED
  <1>6. PaymentsHeld /\ CapturePays
    BY <1>1 DEF Init, NoPayment, PaymentsHeld, CapturePays, PaidFor, Idle
  <1>7. QED
    BY <1>4, <1>5, <1>6 DEF EndsInv

LEMMA EndsStep ==
    ASSUME ToTheEnd, IInv, EndsInv, [Next]_vars
    PROVE  EndsInv'
  <1>1. CASE Next
    <2>1. PICK w \in Workers : Acts(w)
      BY <1>1 DEF Next, Acts
    <2>2. TypeOK /\ Shape /\ Owing
      BY DEF IInv
    <2>3. QED
      BY <2>1, <2>2, DeliveryPaysStep, CollectingStep, CancelReturnsStep, PaymentsHeldStep,
         CapturePaysStep DEF EndsInv
  <1>2. CASE UNCHANGED vars
    <2> USE <1>2 DEF vars, EndsInv, Recorded, Charging
    <2>1. DeliveryPays' /\ Collecting'
      BY DEF DeliveryPays, Paying, Collecting, Uncollected
    <2>2. CancelReturns'
      BY DEF CancelReturns, Returning
    <2>3. PaymentsHeld' /\ CapturePays'
      BY DEF PaymentsHeld, Exists, CapturePays, PaidFor
    <2>4. QED
      BY <2>1, <2>2, <2>3
  <1>3. QED
    BY <1>1, <1>2

LEMMA EndsInvariant == ASSUME ToTheEnd PROVE Spec => []EndsInv
  <1>1. IInv /\ EndsInv /\ [Next]_vars => EndsInv'
    BY EndsStep
  <1>2. QED
    BY <1>1, EndsInit, InductiveInvariant, PTL DEF Spec

\* When every request runs to its end, an order that says paid or refunded, or was
\* refunded in the ledger, has been charged once nobody is busy with it: whatever
\* mark_payment_paid, on_status_log and the saves of stale rows overlap.
THEOREM CollectionsAreCharged == ASSUME ToTheEnd PROVE Spec => []CollectedIsCharged
  <1>1. IInv /\ EndsInv => CollectedIsCharged
    <2> SUFFICES ASSUME IInv, EndsInv, NEW o \in Orders, Quiet(o),
                        \/ order[o].payment_status \in {"paid", "refunded"}
                        \/ ledger[o]["order_refund"] > 0
                 PROVE  Recorded(o, "order_charge")
      BY DEF CollectedIsCharged
    <2>1. ~Charging(o)
      BY DEF Quiet, Charging
    <2>2. ~Uncollected(o)
      BY DEF Uncollected
    <2>3. QED
      BY <2>1, <2>2 DEF EndsInv, Collecting
  <1>2. QED
    BY <1>1, InductiveInvariant, EndsInvariant, PTL

\* When every request runs to its end, nothing is owed on an order once nobody is busy
\* with it: what it has ever been delivered, cancelled or paid for has had its
\* consequences, although every row may have been overwritten from a stale copy.
THEOREM NothingLeftOwed == ASSUME ToTheEnd PROVE Spec => []NothingOwed
  <1>1. IInv /\ EndsInv => NothingOwed
    <2> SUFFICES ASSUME EndsInv, NEW o \in Orders, Quiet(o)
                 PROVE  /\ DELIVERED \in reached[o] =>
                              \A r \in DueOnDelivery(order[o]) : Recorded(o, r)
                        /\ CANCELLED \in reached[o] => restocked[o] > 0
                        /\ (\E p \in Payments : PaidFor(o, p)) => Recorded(o, "order_charge")
      BY DEF NothingOwed
    <2>1. /\ \A r : ~Paying(o, r)
          /\ ~Returning(o) /\ ~Charging(o)
          /\ ~\E w \in Workers : req[w].o = o /\ req[w].pc = "payOrder"
      BY DEF Quiet, Paying, Returning, Charging
    <2>2. QED
      BY <2>1 DEF EndsInv, DeliveryPays, CancelReturns, CapturePays
  <1>2. QED
    BY <1>1, InductiveInvariant, EndsInvariant, PTL

-----------------------------------------------------------------------------
(* One request at a time: rows are current                                 *)

\* Only transition_order's save moves an order, to the status it was asked for.
LEMMA WhoMoves ==
    ASSUME TypeOK, NEW w \in Workers, Acts(w), NEW o \in Orders
    PROVE  \/ order'[o].status = order[o].status
           \/ SaveOrder(w) /\ req[w].o = o /\ order'[o].status = Target[req[w].kind]
  <1> USE DEF TypeOK, OrderRow
  <1>1. CASE SaveOrder(w)
    BY <1>1 DEF SaveOrder, Request
  <1>2. CASE CodPaid(w)
    BY <1>2 DEF CodPaid
  <1>3. CASE RefundOrder(w)
    <2>1. PICK s : order' = [order EXCEPT ![req[w].o].payment_status = s]
      BY <1>3 DEF RefundOrder
    <2>2. QED
      BY <2>1
  <1>4. CASE MarkOrder(w)
    BY <1>4 DEF MarkOrder
  <1>5. ASSUME NEW x \in Orders, PaymentCreateCod(w, x) PROVE order'[o].status = order[o].status
    BY <1>5 DEF PaymentCreateCod
  <1>6. QED
    BY <1>1, <1>2, <1>3, <1>4, <1>5, WhoWritesOrders

\* The save of a request that is served alone moves the order along the table.
LEMMA SaveFollowsTable ==
    ASSUME TypeOK, Shape, Stages, RowCurrent, NEW w \in Workers, SaveOrder(w)
    PROVE  /\ req[w].o \in Orders /\ req[w].kind \in Moves
           /\ <<order[req[w].o].status, Target[req[w].kind]>> \in TRANSITIONS
           /\ order'[req[w].o] = [order[req[w].o] EXCEPT !.status = Target[req[w].kind]]
           /\ \A o \in Orders \ {req[w].o} : order'[o] = order[o]
  <1>1. req[w].o \in Orders /\ req[w].kind \in Moves /\ req[w].row = order[req[w].o]
    BY DEF SaveOrder, Shape, RowCurrent
  <1>2. order' = [order EXCEPT ![req[w].o] = [req[w].row EXCEPT !.status = Target[req[w].kind]]]
    BY DEF SaveOrder
  <1>3. <<req[w].row.status, Target[req[w].kind]>> \in TRANSITIONS
    BY DEF SaveOrder, Stages
  <1>4. QED
    BY <1>1, <1>2, <1>3 DEF TypeOK

LEMMA RowCurrentStep ==
    ASSUME OneWorker, TypeOK, Shape, RowCurrent, NEW w \in Workers, Acts(w)
    PROVE  RowCurrent'
  <1>1. CASE Crash(w) \/ LedgerFails(w)
    <2>1. order' = order
      BY <1>1 DEF Crash, LedgerFails
    <2>2. CASE Crash(w)
      <3>1. req'[w].pc = "idle"
        BY <2>2, GotoEffect DEF Crash, Answered, Idle, TypeOK
      <3>2. QED
        BY <3>1 DEF RowCurrent, OneWorker, Ledgering, Undoing
    <2>3. CASE LedgerFails(w)
      <3>1. /\ req[w].kind \in Moves /\ req[w].pc \in Ledgering
            /\ Goto(w, AfterLedger(req[w].kind), {}) /\ AfterLedger(req[w].kind) \in {"idle", "restock"}
        BY <2>3 DEF LedgerFails, Ledgering, AfterLedger
      <3>2. Answered(w) \/ Moved(w, "restock", {})
        BY <3>1, GotoEffect DEF TypeOK
      <3>3. \/ req'[w].pc = "idle"
            \/ req'[w].pc = "restock" /\ req'[w].o = req[w].o /\ req'[w].kind = req[w].kind
        BY <3>2 DEF Answered, Idle, Moved
      <3>4. order[req[w].o].status = Target[req[w].kind]
        BY <3>1 DEF RowCurrent
      <3>5. QED
        BY <2>1, <3>3, <3>4 DEF RowCurrent, OneWorker, Ledgering, Undoing
    <2>4. QED
      BY <1>1, <2>2, <2>3
  <1>2. ASSUME Arrive(w) \/ Step(w), req'[w].pc = "save"
        PROVE  req'[w].row = order'[req'[w].o]
    <2>1. CASE Arrive(w)
      BY <1>2, <2>1, ArriveReads, ArriveHolds
    <2>2. CASE ReadOrder(w)
      <3>1. ~Answered(w)
        BY <1>2 DEF Answered, Idle
      <3>2. order' = order
        BY <2>2 DEF ReadOrder
      <3>3. CASE req'[w] = [req[w] EXCEPT !.pc = "save", !.row = order[req[w].o]]
        BY <3>2, <3>3 DEF TypeOK, Request
      <3>4. QED
        BY <2>2, <3>1, <3>3, ReadEffect
    <2>3. QED
      BY <1>2, <2>1, <2>2, CameFrom
  <1>3. ASSUME Arrive(w) \/ Step(w), req'[w].kind \in Moves,
               req'[w].pc \in {"log", "assign"} \cup Ledgering \cup Undoing
        PROVE  order'[req'[w].o].status = Target[req'[w].kind]
    <2>1. CASE SaveOrder(w)
      <3>1. req'[w].o = req[w].o /\ req'[w].kind = req[w].kind
        BY <2>1, StepEffect DEF Moved
      <3>2. order' = [order EXCEPT ![req[w].o] = [req[w].row EXCEPT !.status = Target[req[w].kind]]]
        BY <2>1 DEF SaveOrder
      <3>3. req[w].o \in Orders /\ req[w].row \in OrderRow
        BY <2>1 DEF SaveOrder, Shape, TypeOK, Request
      <3>4. QED
        BY <3>1, <3>2, <3>3 DEF TypeOK, OrderRow
    <2>2. CASE \/ LogStatus(w) \/ CodPaid(w) \/ LedgerCheck(w) \/ LedgerWrite(w)
               \/ Restock(w) \/ RefundPayments(w) \/ MarkOrder(w)
      <3>1. ~Answered(w)
        BY <1>3 DEF Answered, Idle, Ledgering, Undoing
      <3>2. req'[w].o = req[w].o /\ req'[w].kind = req[w].kind
        BY <2>2, <3>1, StepCarries DEF Step
      <3>3. ~MarkOrder(w)
        BY <1>3, <3>2, MovesKinds DEF MarkOrder, Shape
      <3>4. req[w].pc \in {"log", "assign"} \cup Ledgering \cup Undoing /\ req[w].o \in Orders
        BY <2>2, <3>3 DEF LogStatus, CodPaid, LedgerCheck, LedgerWrite, Restock, RefundPayments,
                          Ledgering, Undoing, Shape
      <3>5. ~SaveOrder(w)
        BY <3>4 DEF SaveOrder, Ledgering, Undoing
      <3>6. QED
        BY <1>3, <3>2, <3>4, <3>5, WhoMoves DEF RowCurrent
    <2>3. QED
      BY <1>3, <2>1, <2>2, CameFrom DEF Ledgering, Undoing
  <1>4. CASE Arrive(w) \/ Step(w)
    BY <1>2, <1>3, <1>4 DEF RowCurrent, OneWorker
  <1>5. QED
    BY <1>1, <1>4 DEF Acts

-----------------------------------------------------------------------------
(* One request at a time: stamps                                           *)

\* Who writes an assignment that exists: a confirmation, of its own order.
LEMMA WhoStamps ==
    ASSUME TypeOK, NEW w \in Workers, Acts(w), NEW o \in Orders, Assigned(o)
    PROVE  \/ assignment'[o] = assignment[o]
           \/ SaveAssignment(w) /\ req[w].o = o /\ assignment'[o] = req[w].asg
  <1>1. CASE SaveAssignment(w)
    BY <1>1 DEF SaveAssignment, TypeOK
  <1>2. CASE CreateAssignment(w)
    BY <1>2 DEF CreateAssignment, TypeOK, Assigned
  <1>3. CASE AssignBidder(w)
    BY <1>3 DEF AssignBidder, TypeOK, Assigned
  <1>4. QED
    BY <1>1, <1>2, <1>3, WhoWritesAssignments

\* What a confirmation stamps in memory is what the assignment says, and its own.
LEMMA ConfirmingStamps ==
    ASSUME TypeOK, NEW o \in Orders
    PROVE  LET a == Confirming(o, "pickup", [assignment[o] EXCEPT !.picked = TRUE])
               b == Confirming(o, "deliver", [assignment[o] EXCEPT !.delivered = TRUE])
           IN /\ a.kind = "pickup" /\ a.o = o /\ a.asg.picked
              /\ a.asg.delivered <=> assignment[o].delivered
              /\ b.kind = "deliver" /\ b.o = o /\ b.asg.delivered
              /\ b.asg.picked <=> assignment[o].picked
  <1>1. assignment[o] \in AssignmentRow
    BY DEF TypeOK
  <1>2. QED
    BY <1>1 DEF Confirming, Idle, AssignmentRow

LEMMA StampsStep ==
    ASSUME ToTheEnd, OneWorker, IInv, RowCurrent, Stamps, NEW w \in Workers, Acts(w)
    PROVE  Stamps'
  <1> USE DEF IInv
  <1>1. Arrive(w) \/ Step(w)
    BY NothingCut
  <1>2. ASSUME req'[w].pc = "saveAssignment"
        PROVE  /\ req'[w].asg.picked <=> assignment'[req'[w].o].picked \/ req'[w].kind = "pickup"
               /\ req'[w].asg.delivered <=>
                     assignment'[req'[w].o].delivered \/ req'[w].kind = "deliver"
    <2>1. Arrive(w) /\ req' # req /\ assignment' = assignment
      BY <1>1, <1>2, CameFrom, ArriveReads DEF Firsts
    <2>2. PICK o \in Orders :
              \/ Taken(w, Confirming(o, "pickup", [assignment[o] EXCEPT !.picked = TRUE]))
              \/ Taken(w, Confirming(o, "deliver", [assignment[o] EXCEPT !.delivered = TRUE]))
      BY <1>2, <2>1, ArriveAt
    <2>3. QED
      BY <2>1, <2>2, ConfirmingStamps DEF Taken
  <1>3. ASSUME req'[w].pc \in {"readOrder", "save", "log"}, req'[w].kind \in {"pickup", "deliver"}
        PROVE  /\ req'[w].kind = "pickup" => assignment'[req'[w].o].picked
               /\ req'[w].kind = "deliver" => assignment'[req'[w].o].delivered
    <2>1. CASE Arrive(w)
      <3>1. req' # req /\ req'[w].pc = "save"
        BY <1>3, <2>1, ArriveReads, ArriveHolds DEF Firsts
      <3>2. PICK o \in Orders, k \in Moves \ {"pickup", "deliver"} : Taken(w, Moving(o, k))
        BY <2>1, <3>1, ArriveAt
      <3>3. Moving(o, k).kind = k
        BY DEF Moving, Idle
      <3>4. QED
        BY <1>3, <3>2, <3>3 DEF Taken
    <2>2. CASE Step(w)
      <3>1. SaveAssignment(w) \/ ReadOrder(w) \/ SaveOrder(w)
        BY <1>1, <1>3, <2>2, CameFrom, ArriveIdle, StepBusy
      <3>2. ~Answered(w)
        BY <1>3 DEF Answered, Idle
      <3>3. req'[w].o = req[w].o /\ req'[w].kind = req[w].kind
        BY <2>2, <3>2, StepCarries
      <3>4. CASE SaveAssignment(w)
        <4>1. req[w].o \in Orders /\ req[w].asg \in AssignmentRow
          BY <3>4 DEF SaveAssignment, Shape, TypeOK, Request
        <4>2. assignment'[req[w].o] = req[w].asg
          BY <3>4, <4>1 DEF SaveAssignment, TypeOK
        <4>3. QED
          BY <3>3, <3>4, <4>2 DEF Stamps, SaveAssignment
      <3>5. CASE ReadOrder(w) \/ SaveOrder(w)
        BY <3>3, <3>5 DEF Stamps, ReadOrder, SaveOrder
      <3>6. QED
        BY <3>1, <3>4, <3>5
    <2>3. QED
      BY <1>1, <2>1, <2>2
  <1>4. ASSUME NEW o \in Orders
        PROVE  /\ order'[o].status \in {OUT_FOR_DELIVERY, DELIVERED} => assignment'[o].picked
               /\ order'[o].status = DELIVERED => assignment'[o].delivered
    <2>1. CASE SaveOrder(w) /\ req[w].o = o
      <3>1. /\ req[w].kind \in Moves
            /\ <<order[o].status, Target[req[w].kind]>> \in TRANSITIONS
            /\ order'[o].status = Target[req[w].kind]
        <4>1. order'[o] = [order[o] EXCEPT !.status = Target[req[w].kind]]
          BY <2>1, SaveFollowsTable
        <4>2. order[o] \in OrderRow
          BY DEF TypeOK
        <4>3. order'[o].status = Target[req[w].kind]
          BY <4>1, <4>2 DEF OrderRow
        <4>4. QED
          BY <2>1, <4>3, SaveFollowsTable
      <3>2. assignment' = assignment
        BY <2>1 DEF SaveOrder
      <3>3. Target[req[w].kind] = OUT_FOR_DELIVERY => assignment[o].picked
        BY <2>1, <3>1, TargetOf DEF Stamps, SaveOrder
      <3>4. Target[req[w].kind] = DELIVERED =>
                assignment[o].delivered /\ order[o].status = OUT_FOR_DELIVERY
        BY <2>1, <3>1, TargetOf DEF Stamps, SaveOrder, TRANSITIONS, PENDING, CONFIRMED, PREPARING,
                                    READY_FOR_PICKUP, OUT_FOR_DELIVERY, DELIVERED, CANCELLED
      <3>5. QED
        BY <3>1, <3>2, <3>3, <3>4 DEF Stamps, OUT_FOR_DELIVERY, DELIVERED
    <2>2. CASE order'[o].status = order[o].status
      <3>1. order[o].status \in {OUT_FOR_DELIVERY, DELIVERED} => Assigned(o)
        BY DEF Stages, HandedToPartner
      <3>2. SaveAssignment(w) /\ req[w].o = o =>
                /\ assignment[o].picked => req[w].asg.picked
                /\ assignment[o].delivered => req[w].asg.delivered
        BY DEF Stamps, SaveAssignment
      <3>3. QED
        BY <2>2, <3>1, <3>2, WhoStamps DEF Stamps, DELIVERED
    <2>3. QED
      BY <2>1, <2>2, WhoMoves
  <1>5. QED
    BY <1>2, <1>3, <1>4 DEF Stamps, OneWorker

-----------------------------------------------------------------------------
(* One request at a time: stock, payments and bids                         *)

LEMMA StockReturnsStep ==
    ASSUME ToTheEnd, OneWorker, IInv, RowCurrent, StockReturns, NEW w \in Workers, Acts(w)
    PROVE  StockReturns'
  <1> USE DEF IInv
  <1>1. Arrive(w) \/ Step(w)
    BY NothingCut
  <1> SUFFICES ASSUME NEW o \in Orders
               PROVE  restocked'[o] = IF order'[o].status = CANCELLED /\ ~Returning(o)' THEN 1 ELSE 0
    BY DEF StockReturns
  <1> DEFINE Returns(q) == /\ q.o = o /\ q.kind \in {"cancel", "reject"}
                           /\ q.pc \in {"log", "restock"} \cup Ledgering
  <1>2. (Returning(o) <=> Returns(req[w])) /\ (Returning(o)' <=> Returns(req'[w]))
    BY DEF Returning, OneWorker
  <1>3. restocked[o] = IF order[o].status = CANCELLED /\ ~Returns(req[w]) THEN 1 ELSE 0
    BY <1>2 DEF StockReturns
  <1>4. CASE Restock(w) /\ req[w].o = o
    <2>1. req[w].kind \in {"cancel", "reject"}
      BY <1>4 DEF Restock, Shape, Undoing
    <2>2. order'[o].status = CANCELLED
      <3>1. order[o].status = Target[req[w].kind]
        BY <1>4, <2>1, MovesKinds DEF Restock, RowCurrent, Undoing
      <3>2. order' = order
        BY <1>4 DEF Restock
      <3>3. QED
        BY <2>1, <3>1, <3>2, TargetOf, MovesKinds
    <2>3. restocked[o] = 0
      BY <1>3, <1>4, <2>1 DEF Restock
    <2>4. restocked'[o] = 1
      BY <1>4, <2>3 DEF Restock, TypeOK
    <2>5. ~Returns(req'[w])
      BY <1>4, StepEffect DEF Answered, Moved, Idle, Ledgering
    <2>6. QED
      BY <1>2, <2>2, <2>4, <2>5
  <1>5. CASE SaveOrder(w) /\ req[w].o = o
    <2>1. /\ req[w].kind \in Moves
          /\ <<order[o].status, Target[req[w].kind]>> \in TRANSITIONS
      BY <1>5, SaveFollowsTable
    <2>2. order'[o].status = Target[req[w].kind]
      <3>1. order'[o] = [order[o] EXCEPT !.status = Target[req[w].kind]] /\ order[o] \in OrderRow
        BY <1>5, SaveFollowsTable DEF TypeOK
      <3>2. QED
        BY <3>1 DEF OrderRow
    <2>3. order[o].status # CANCELLED
      BY <2>1 DEF TRANSITIONS, PENDING, CONFIRMED, PREPARING, READY_FOR_PICKUP, OUT_FOR_DELIVERY,
                  DELIVERED, CANCELLED
    <2>4. restocked'[o] = 0
      BY <1>3, <1>5, <2>3 DEF SaveOrder
    <2>5. order'[o].status = CANCELLED => Returns(req'[w])
      <3>1. Moved(w, "log", {})
        BY <1>5, StepEffect
      <3>2. order'[o].status = CANCELLED => req[w].kind \in {"cancel", "reject"}
        BY <2>1, <2>2, TargetOf
      <3>3. QED
        BY <1>5, <3>1, <3>2 DEF Moved
    <2>6. QED
      BY <1>2, <2>4, <2>5
  <1>6. CASE ~(Restock(w) /\ req[w].o = o) /\ ~(SaveOrder(w) /\ req[w].o = o)
    <2>1. order'[o].status = order[o].status
      BY <1>6, WhoMoves
    <2>2. restocked'[o] = restocked[o]
      BY <1>6, ReturnsStay DEF Restock, TypeOK
    <2>3. ASSUME Returns(req'[w]) PROVE Returns(req[w])
      <3>1. \/ SaveOrder(w) \/ CodPaid(w) \/ MarkOrder(w)
            \/ LogStatus(w) \/ LedgerCheck(w) \/ LedgerWrite(w)
        BY <1>1, <2>3, CameFrom DEF Ledgering
      <3>2. ~Answered(w)
        BY <2>3 DEF Answered, Idle, Ledgering
      <3>3. req'[w].o = req[w].o /\ req'[w].kind = req[w].kind
        BY <3>1, <3>2, StepCarries DEF Step
      <3>4. ~SaveOrder(w) /\ ~CodPaid(w) /\ ~MarkOrder(w)
        BY <1>6, <2>3, <3>3 DEF CodPaid, MarkOrder, Shape
      <3>5. QED
        BY <2>3, <3>1, <3>3, <3>4 DEF LogStatus, LedgerCheck, LedgerWrite, Ledgering
    <2>4. ASSUME Returns(req[w]) PROVE Returns(req'[w])
      <3>1. CASE req[w].pc = "log"
        <4>1. LogStatus(w)
          BY <1>1, <3>1, StepAt
        <4>2. QED
          BY <2>4, <4>1, LogEffect DEF Moved, Ledgering
      <3>2. CASE req[w].pc \in {"ledgerCheck", "ledgerWrite"}
        <4>1. LedgerCheck(w) \/ LedgerWrite(w)
          BY <1>1, <3>2, StepAt
        <4>2. \A pc, due : Moved(w, pc, due) =>
                  req'[w].pc = pc /\ req'[w].o = req[w].o /\ req'[w].kind = req[w].kind
          BY DEF Moved
        <4>3. req'[w].pc \in {"ledgerCheck", "ledgerWrite", "restock"} /\ req'[w].o = req[w].o
              /\ req'[w].kind = req[w].kind
          BY <2>4, <4>1, <4>2, LedgerEffect
        <4>4. QED
          BY <2>4, <4>3 DEF Ledgering
      <3>3. CASE req[w].pc \in {"restock", "codPaid"}
        BY <1>1, <1>6, <2>4, <3>3, StepAt DEF Shape
      <3>4. QED
        BY <2>4, <3>1, <3>2, <3>3 DEF Ledgering
    <2>5. QED
      BY <1>2, <1>3, <2>1, <2>2, <2>3, <2>4
  <1>7. QED
    BY <1>4, <1>5, <1>6

LEMMA CapturingStep ==
    ASSUME ToTheEnd, OneWorker, IInv, PaymentsHeld, RowCurrent, Capturing,
           NEW w \in Workers, Acts(w)
    PROVE  Capturing'
  <1> USE DEF IInv
  <1>1. Arrive(w) \/ Step(w)
    BY NothingCut
  <1>2. ASSUME NEW o \in Orders, NEW p \in Payments, PaidFor(o, p)'
        PROVE  order'[o].payment_status = "paid" \/ (req'[w].o = o /\ req'[w].pc = "payOrder")
    <2>1. CASE MarkPayment(w) /\ req'[w].o = o /\ req'[w].pc = "payOrder"
      BY <2>1
    <2>2. CASE PaidFor(o, p)
      <3>1. CASE req[w].o = o /\ req[w].pc = "payOrder"
        <4>1. MarkOrder(w)
          BY <1>1, <3>1, StepAt
        <4>2. QED
          BY <3>1, <4>1 DEF MarkOrder, TypeOK, OrderRow
      <3>2. CASE order[o].payment_status = "paid"
        <4>1. payment[p].order = o /\ None \notin Orders
          BY <2>2, ConstantsAssumption DEF PaidFor
        <4>2. ~PaymentCreateCod(w, o)
          BY <4>1 DEF PaymentCreateCod, Owing, Exists
        <4>3. ~(RefundOrder(w) /\ req[w].o = o)
          BY <2>2 DEF RefundOrder, Capturing
        <4>4. SaveOrder(w) /\ req[w].o = o => req[w].row = order[o]
          BY DEF SaveOrder, RowCurrent
        <4>5. QED
          BY <3>2, <4>2, <4>3, <4>4, WhoWritesPaid
      <3>3. QED
        BY <2>2, <3>1, <3>2 DEF Capturing, OneWorker
    <2>3. QED
      BY <1>2, <2>1, <2>2, PaidBefore
  <1>3. ASSUME req'[w].pc = "refundOrder", NEW p \in Payments
        PROVE  ~PaidFor(req[w].o, p)'
    <2>1. RefundPayments(w)
      BY <1>1, <1>3, CameFrom
    <2>2. PICK o \in Orders : o = req[w].o
      BY <2>1 DEF RefundPayments, Shape, Undoing
    <2>3. req'[w].o = o
      BY <2>1, <2>2, StepEffect DEF Moved
    <2>4. ~MarkPayment(w)
      BY <2>1 DEF RefundPayments, MarkPayment
    <2>5. ~PaidFor(o, p)'
      BY <2>1, <2>2, <2>4, PaidBefore
    <2>6. QED
      BY <2>3, <2>5 DEF PaidFor
  <1>4. \A v \in Workers : v = w
    BY DEF OneWorker
  <1>5. ASSUME NEW o \in Orders, NEW p \in Payments, PaidFor(o, p)'
        PROVE  \/ order'[o].payment_status = "paid"
               \/ \E v \in Workers : req'[v].o = o /\ req'[v].pc = "payOrder"
    BY <1>2, <1>5
  <1>6. ASSUME NEW v \in Workers, req'[v].pc = "refundOrder", NEW p \in Payments
        PROVE  ~PaidFor(req[v].o, p)'
    BY <1>3, <1>4, <1>6
  <1>7. QED
    BY <1>5, <1>6 DEF Capturing

LEMMA SettlingStep ==
    ASSUME ToTheEnd, OneWorker, IInv, Settling, NEW w \in Workers, Acts(w)
    PROVE  Settling'
  <1> USE DEF IInv
  <1>1. Arrive(w) \/ Step(w)
    BY NothingCut
  <1>2. \A v \in Workers : v = w
    BY DEF OneWorker
  <1>3. req[w].pc \in {"bidSave", "bidAccept", "bidReject"} =>
            req[w].o \in Orders /\ req[w].asg.partner \in Partners
    BY DEF Shape, Accepting
  <1>4. ASSUME AcceptBid(w)
        PROVE  /\ req'[w].pc = "bidReject" /\ req'[w].o = req[w].o /\ req'[w].asg = req[w].asg
               /\ bid'[req[w].o][req[w].asg.partner] = "accepted"
    <2>1. req'[w].pc = "bidReject" /\ req'[w].o = req[w].o /\ req'[w].asg = req[w].asg
      BY <1>4, StepEffect DEF Moved
    <2>2. bid'[req[w].o][req[w].asg.partner] = "accepted"
      BY <1>3, <1>4 DEF AcceptBid, TypeOK
    <2>3. QED
      BY <2>1, <2>2
  <1>5. ASSUME req'[w].pc = "bidSave" PROVE assignment'[req'[w].o].partner = None
    <2>1. Arrive(w) /\ req' # req /\ assignment' = assignment
      BY <1>1, <1>5, CameFrom, ArriveReads DEF Firsts
    <2>2. QED
      BY <1>5, <2>1, ArriveAt
  <1>6. ASSUME req'[w].pc = "bidReject" PROVE bid'[req'[w].o][req'[w].asg.partner] = "accepted"
    BY <1>1, <1>4, <1>6, CameFrom
  <1>7. ASSUME NEW o \in Orders, NEW c \in Partners, bid'[o][c] = "accepted",
               NEW d \in Partners, bid'[o][d] = "open"
        PROVE  req'[w].o = o /\ req'[w].pc = "bidReject"
    <2>1. CASE AcceptBid(w) /\ req[w].o = o
      BY <1>4, <2>1
    <2>2. CASE RejectOthers(w) /\ req[w].o = o
      <3>1. bid'[o][d] = IF d # req[w].asg.partner /\ bid[o][d] = "open" THEN "rejected"
                         ELSE bid[o][d]
        BY <2>2 DEF RejectOthers, TypeOK
      <3>2. bid[o][req[w].asg.partner] = "accepted"
        BY <2>2 DEF RejectOthers, Settling
      <3>3. QED
        BY <1>7, <3>1, <3>2
    <2>3. CASE SaveBid(w) /\ req[w].o = o
      <3>1. bid[o][c] = "accepted"
        BY <1>7, <2>3 DEF SaveBid, TypeOK
      <3>2. ~Assigned(o)
        BY <2>3 DEF SaveBid, Settling
      <3>3. QED
        BY <3>1, <3>2, ConstantsAssumption DEF BidderCarries, Assigned
    <2>4. CASE ~((AcceptBid(w) \/ RejectOthers(w) \/ SaveBid(w)) /\ req[w].o = o)
      <3>1. bid'[o] = bid[o]
        BY <1>3, <2>4, WhoWritesBids DEF AcceptBid, RejectOthers, SaveBid, TypeOK
      <3>2. req[w].o = o /\ req[w].pc = "bidReject"
        BY <1>2, <1>7, <3>1 DEF Settling
      <3>3. QED
        BY <1>1, <2>4, <3>2, StepAt
    <2>5. QED
      BY <2>1, <2>2, <2>3, <2>4
  <1>8. \A o \in Orders : (\E d \in Partners : bid'[o][d] = "accepted") =>
            \/ \A d \in Partners : bid'[o][d] # "open"
            \/ req'[w].o = o /\ req'[w].pc = "bidReject"
    BY <1>7
  <1>9. \A v \in Workers : /\ req'[v].pc = "bidSave" => assignment'[req'[v].o].partner = None
                           /\ req'[v].pc = "bidReject" =>
                                 bid'[req'[v].o][req'[v].asg.partner] = "accepted"
    BY <1>2, <1>5, <1>6
  <1>10. QED
    BY <1>8, <1>9 DEF Settling, Assigned

-----------------------------------------------------------------------------
(* One request at a time: the invariant, and what follows from it          *)

LEMMA AloneInit == Init => AloneInv
  <1> SUFFICES ASSUME Init PROVE AloneInv
    OBVIOUS
  <1>1. \A w \in Workers : req[w].pc = "idle" /\ req[w].kind = None /\ req[w].o = None
    BY DEF Init, Idle
  <1>2. \A o \in Orders : order[o].status = PENDING /\ restocked[o] = 0 /\ bid[o] = [d \in Partners |-> None]
    BY DEF Init
  <1>3. \A p \in Payments : payment[p].status = "pending" /\ payment[p].order = None
    BY DEF Init, NoPayment
  <1>4. RowCurrent /\ Stamps
    BY <1>1, <1>2 DEF RowCurrent, Stamps, Ledgering, Undoing, PENDING, OUT_FOR_DELIVERY, DELIVERED
  <1>5. StockReturns
    BY <1>2 DEF StockReturns, PENDING, CANCELLED
  <1>6. Capturing
    BY <1>1, <1>3 DEF Capturing, PaidFor
  <1>7. Settling
    <2>1. None # "accepted"
      BY ConstantsAssumption DEF BidStatus
    <2>2. QED
      BY <1>1, <1>2, <2>1 DEF Settling
  <1>8. QED
    BY <1>4, <1>5, <1>6, <1>7 DEF AloneInv

LEMMA AloneStep ==
    ASSUME ToTheEnd, OneWorker, IInv, EndsInv, AloneInv, [Next]_vars
    PROVE  AloneInv'
  <1>1. CASE Next
    <2>1. PICK w \in Workers : Acts(w)
      BY <1>1 DEF Next, Acts
    <2>2. TypeOK /\ Shape /\ PaymentsHeld
      BY DEF IInv, EndsInv
    <2>3. QED
      BY <2>1, <2>2, RowCurrentStep, StampsStep, StockReturnsStep, CapturingStep, SettlingStep DEF AloneInv
  <1>2. CASE UNCHANGED vars
    <2> USE <1>2 DEF vars
    <2>1. RowCurrent' /\ Stamps'
      BY DEF AloneInv, RowCurrent, Stamps
    <2>2. StockReturns'
      BY DEF AloneInv, StockReturns, Returning
    <2>3. Capturing'
      BY DEF AloneInv, Capturing, PaidFor, Exists
    <2>4. Settling'
      BY DEF AloneInv, Settling, Assigned
    <2>5. QED
      BY <2>1, <2>2, <2>3, <2>4 DEF AloneInv
  <1>3. QED
    BY <1>1, <1>2

LEMMA AloneInvariant == ASSUME ToTheEnd, OneWorker PROVE Spec => []AloneInv
  <1>1. IInv /\ EndsInv /\ AloneInv /\ [Next]_vars => AloneInv'
    BY AloneStep
  <1>2. QED
    BY <1>1, AloneInit, InductiveInvariant, EndsInvariant, PTL DEF Spec

\* Served one by one, even when some are cut short, requests move an order along the
\* transition table only: transition_order judges the row that its save writes back.
THEOREM StatusInOrder == ASSUME OneWorker PROVE Spec => StatusFollowsTable
  <1> DEFINE Follows == \A o \in Orders : order'[o].status # order[o].status =>
                            <<order[o].status, order'[o].status>> \in TRANSITIONS
  <1>1. ASSUME IInv, RowCurrent, NEW w \in Workers, Acts(w) PROVE RowCurrent' /\ Follows
    <2>1. TypeOK /\ Shape /\ Stages
      BY <1>1 DEF IInv
    <2>2. ASSUME NEW o \in Orders, order'[o].status # order[o].status
          PROVE  <<order[o].status, order'[o].status>> \in TRANSITIONS
      <3>1. SaveOrder(w) /\ req[w].o = o /\ order'[o].status = Target[req[w].kind]
        BY <1>1, <2>1, <2>2, WhoMoves
      <3>2. QED
        BY <1>1, <2>1, <3>1, SaveFollowsTable
    <2>3. QED
      BY <1>1, <2>1, <2>2, RowCurrentStep
  <1>2. UNCHANGED vars => (RowCurrent <=> RowCurrent')
    BY DEF vars, RowCurrent
  <1>3. Init => RowCurrent
    BY AloneInit DEF AloneInv
  <1> HIDE DEF Follows
  <1>4. IInv /\ RowCurrent /\ [Next]_vars => RowCurrent' /\ [Follows]_vars
    BY <1>1, <1>2 DEF Next, Acts
  <1>5. Spec => [][Follows]_vars
    BY <1>3, <1>4, InductiveInvariant, PTL DEF Spec
  <1>6. QED
    BY <1>5 DEF StatusFollowsTable, Follows

\* Served one by one and to their end, requests return the items of a cancelled
\* order once, and of no other order, and book nothing twice, however often a
\* payment is confirmed.
THEOREM NothingTwice == ASSUME ToTheEnd, OneWorker PROVE Spec => []OnceEach
  <1>1. Cardinality(Workers) <= 1
    <2>1. CASE Workers = {}
      BY <2>1, FS_EmptySet
    <2>2. CASE Workers # {}
      <3>1. PICK w \in Workers : TRUE
        BY <2>2
      <3>2. Workers = {w}
        BY <3>1 DEF OneWorker
      <3>3. Cardinality({w}) = 1
        BY FS_Singleton
      <3>4. QED
        BY <3>2, <3>3
    <2>3. QED
      BY <2>1, <2>2
  <1>2. TypeOK /\ EntriesBounded /\ StockReturns => OnceEach
    <2> SUFFICES ASSUME TypeOK, EntriesBounded, StockReturns, NEW o \in Orders
                 PROVE  /\ Quiet(o) => restocked[o] = (IF order[o].status = CANCELLED THEN 1 ELSE 0)
                        /\ \A r \in LedgerReason : ledger[o][r] <= 1
      BY DEF OnceEach
    <2>1. Quiet(o) => ~Returning(o)
      BY DEF Quiet, Returning
    <2>2. ASSUME NEW r \in LedgerReason PROVE ledger[o][r] <= 1
      <3>1. ledger[o][r] \in Nat /\ ledger[o][r] <= Cardinality(Workers)
        BY DEF TypeOK, EntriesBounded
      <3>2. Cardinality(Workers) \in Nat
        BY ConstantsAssumption, FS_CardinalityType
      <3>3. QED
        BY <1>1, <3>1, <3>2
    <2>3. QED
      BY <2>1, <2>2 DEF StockReturns
  <1>3. AloneInv => StockReturns
    BY DEF AloneInv
  <1>4. QED
    BY <1>2, <1>3, AloneInvariant, TypeCorrect, EntriesNoMoreThanWorkers, PTL

\* Served one by one and to their end, requests leave a delivered order picked up
\* and handed over by its partner, and both of them, and its cash, on the books.
THEOREM DeliveriesSettle == ASSUME ToTheEnd, OneWorker PROVE Spec => []DeliveredIsSettled
  <1>1. IInv /\ EndsInv /\ AloneInv => DeliveredIsSettled
    <2> SUFFICES ASSUME IInv, EndsInv, AloneInv, NEW o \in Orders, Quiet(o),
                        order[o].status = DELIVERED
                 PROVE  /\ Assigned(o) /\ assignment[o].picked /\ assignment[o].delivered
                        /\ \A r \in DueOnDelivery(order[o]) : Recorded(o, r)
      BY DEF DeliveredIsSettled
    <2>1. DELIVERED \in reached[o]
      BY DEF IInv, Stages
    <2>2. Assigned(o)
      BY <2>1 DEF IInv, HandedToPartner
    <2>3. assignment[o].picked /\ assignment[o].delivered
      BY DEF AloneInv, Stamps
    <2>4. ASSUME NEW r \in DueOnDelivery(order[o]) PROVE Recorded(o, r)
      <3>1. ~Paying(o, r)
        BY DEF Quiet, Paying
      <3>2. QED
        BY <2>1, <3>1 DEF EndsInv, DeliveryPays
    <2>5. QED
      BY <2>2, <2>3, <2>4
  <1>2. QED
    BY <1>1, InductiveInvariant, EndsInvariant, AloneInvariant, PTL

\* Served one by one and to their end, requests of the bidding board leave no other
\* bid open on an order whose bid has been accepted.
THEOREM BoardSettles == ASSUME ToTheEnd, OneWorker PROVE Spec => []BidsSettled
  <1>1. AloneInv => BidsSettled
    BY DEF AloneInv, Settling, BidsSettled, Quiet
  <1>2. QED
    BY <1>1, AloneInvariant, PTL

\* Served one by one and to their end, requests never make an order forget a payment
\* that stands as paid: mark_payment_paid tells the order, and the rows that others
\* write back have it.
THEOREM CapturesStick == ASSUME ToTheEnd, OneWorker PROVE Spec => []CaptureSticks
  <1>1. AloneInv => CaptureSticks
    BY DEF AloneInv, Capturing, CaptureSticks, PaidFor, Quiet
  <1>2. QED
    BY <1>1, AloneInvariant, PTL
=============================================================================
