---------------------------- MODULE FreshDashInv -----------------------------
(***************************************************************************)
(* The inductive invariant behind FreshDash's safety properties: what the  *)
(* request that a worker serves knows, and keeps true, at each statement.  *)
(***************************************************************************)
EXTENDS FreshDash

Ledgering == {"codPaid", "ledgerCheck", "ledgerWrite"}
Undoing   == {"restock", "refundPayments", "refundOrder"}
Accepting == {"bidAssign", "bidAccept", "bidReject"}

\* Which handler can stand at which statement.
Shape ==
    \A w \in Workers : LET q == req[w] IN
        /\ q.pc # "idle" => q.o \in Orders
        /\ q.pc \in {"saveAssignment", "readOrder"} => q.kind \in {"pickup", "deliver"}
        /\ q.pc \in {"save", "log"} => q.kind \in Moves
        /\ q.pc = "codPaid" => q.kind = "deliver"
        /\ q.pc \in Ledgering => q.kind \in {"deliver", "cancel", "reject", "markPaid"}
        /\ q.pc \in Undoing => q.kind \in {"cancel", "reject"}
        /\ q.pc = "assign" => q.kind = "ready"
        /\ q.pc = "payInsert" => q.kind = "payCreate"
        /\ q.pc \in {"payMark", "payOrder"} => q.kind = "markPaid"
        /\ q.pc = "bidSave" => q.kind = "bid"
        /\ q.pc \in Accepting => q.kind = "acceptBid"
        /\ q.pc \in {"bidSave"} \cup Accepting => q.asg.partner \in Partners

\* A row is held at a stage it has reached; a request that is about to write a
\* stage read a reached stage next to it; one that has written it is past it.
Stages ==
    /\ \A o \in Orders : order[o].status \in reached[o]
    /\ \A w \in Workers : LET q == req[w] IN
          /\ q.pc \in {"save", "log"} =>
                /\ q.row.status \in reached[q.o]
                /\ <<q.row.status, Target[q.kind]>> \in TRANSITIONS
          /\ q.pc \in {"log", "assign"} \cup Ledgering \cup Undoing /\ q.kind \in Moves =>
                Target[q.kind] \in reached[q.o]

\* Bids are for orders that have been ready.
BidsOnReady ==
    /\ \A o \in Orders, d \in Partners : bid[o][d] # None => READY_FOR_PICKUP \in reached[o]
    /\ \A w \in Workers : req[w].pc \in {"bidSave"} \cup Accepting =>
                            READY_FOR_PICKUP \in reached[req[w].o]

\* A partner's request is about an order that has a partner, and the one it is
\* about to write back is that partner; so is the bidder being accepted.
Carrying ==
    \A w \in Workers : LET q == req[w] IN
        /\ q.pc # "idle" /\ q.kind \in {"pickup", "deliver"} => Assigned(q.o)
        /\ q.pc \in {"saveAssignment", "bidAccept"} =>
              assignment[q.o].partner = q.asg.partner

\* What a request owes the ledger is due to what it has done, and payments are
\* of prepaid orders: the method in a held row is the order's.
Owing ==
    /\ \A p \in Payments : Exists(p) => order[payment[p].order].method = "prepaid"
    /\ \A w \in Workers : LET q == req[w] IN
          /\ q.pc \in {"save", "log"} => q.row.method = order[q.o].method
          /\ q.pc = "payInsert" => order[q.o].method = "prepaid"
          /\ q.pc # "idle" /\ q.kind = "markPaid" => \E p \in Payments : payment[p].order = q.o
          /\ q.pc \in Ledgering => \A r \in q.due :
                \/ q.kind = "markPaid" /\ r = "order_charge"
                \/ q.kind = "deliver" /\ r \in DueOnDelivery(order[q.o])
                \/ q.kind \in {"cancel", "reject"} /\ r = "order_refund"

\* Who has been told that order o has no entry of reason r and is about to insert
\* one: with the entries that exist, they are no more than the workers.
Writers(o, r) == {w \in Workers : /\ req[w].pc = "ledgerWrite" /\ req[w].o = o
                                  /\ First(r, req[w].due)}

EntryRoom ==
    \A o \in Orders, r \in LedgerReason :
        ledger[o][r] + Cardinality(Writers(o, r)) <= Cardinality(Workers)

\* The strengthening of StagesInOrder, HandedToPartner, BidderCarries,
\* MoneyFollowsGoods and EntriesBounded.
IInv == /\ TypeOK /\ Shape /\ Stages /\ BidsOnReady /\ Carrying /\ Owing /\ EntryRoom
        /\ StagesInOrder /\ HandedToPartner /\ BidderCarries /\ MoneyFollowsGoods

-----------------------------------------------------------------------------
(* The same for the properties that hold when every request runs to its    *)
(* end (MaxFaults = 0), whatever overlaps.                                 *)

\* A delivering request that has not recorded reason r for its order yet.
Paying(o, r) == \E w \in Workers : LET q == req[w] IN
    /\ q.o = o /\ q.kind = "deliver"
    /\ q.pc = "log" \/ (q.pc \in Ledgering /\ r \in q.due)

\* What is owed on delivery has been recorded or is being recorded.
DeliveryPays ==
    \A o \in Orders : DELIVERED \in reached[o] =>
        \A r \in DueOnDelivery(order[o]) : Recorded(o, r) \/ Paying(o, r)

\* A request that is about to charge the buyer of order o.
Charging(o) == \E w \in Workers :
    req[w].o = o /\ req[w].pc \in Ledgering /\ "order_charge" \in req[w].due

\* Neither the order's row, nor a copy of it that may be written back, nor the
\* ledger says that order o has been paid.
Uncollected(o) ==
    /\ order[o].payment_status = "pending"
    /\ ledger[o]["order_refund"] = 0
    /\ \A w \in Workers : req[w].pc # "idle" /\ req[w].o = o =>
          req[w].row.payment_status = "pending" /\ "order_refund" \notin req[w].due

Collecting ==
    /\ \A o \in Orders : Recorded(o, "order_charge") \/ Charging(o) \/ Uncollected(o)
    /\ \A w \in Workers : req[w].pc = "codPaid" => "order_charge" \in req[w].due

\* A request that has cancelled order o and not returned its items yet.
Returning(o) == \E w \in Workers : LET q == req[w] IN
    /\ q.o = o /\ q.kind \in {"cancel", "reject"}
    /\ q.pc \in {"log", "restock"} \cup Ledgering

\* The items of a cancelled order have been returned or are being returned.
CancelReturns == \A o \in Orders : CANCELLED \in reached[o] => restocked[o] > 0 \/ Returning(o)

\* A payment that stands as paid.
PaidFor(o, p) == payment[p] = [order |-> o, status |-> "paid"]

\* Payments that do not exist are not paid, and mark_payment_paid has in hand the
\* payment of the order it has in hand.
PaymentsHeld ==
    /\ \A p \in Payments : ~Exists(p) => payment[p].status = "pending"
    /\ \A w \in Workers : LET q == req[w] IN
          q.pc \in {"payMark", "payOrder"} => q.p \in Payments /\ payment[q.p].order = q.o

\* A captured payment has been charged, is being charged, or is about to be.
CapturePays ==
    \A o \in Orders : (\E p \in Payments : PaidFor(o, p)) =>
        \/ Recorded(o, "order_charge") \/ Charging(o)
        \/ \E w \in Workers : req[w].o = o /\ req[w].pc = "payOrder"

\* The strengthening of CollectedIsCharged and NothingOwed.
EndsInv == DeliveryPays /\ Collecting /\ CancelReturns /\ PaymentsHeld /\ CapturePays

\* An order that nobody is busy with is owed nothing, whatever has overlapped and
\* whatever has been overwritten since: delivered once, its seller and its partner
\* are paid and its cash is charged; cancelled once, its items are back on the
\* shelf; and a payment that stands as paid has been charged to its buyer.  (What
\* DeliveryIsPaid, CancelReturnsStock and CaptureIsCharged say of safety.)
NothingOwed ==
    \A o \in Orders : Quiet(o) =>
        /\ DELIVERED \in reached[o] => \A r \in DueOnDelivery(order[o]) : Recorded(o, r)
        /\ CANCELLED \in reached[o] => restocked[o] > 0
        /\ (\E p \in Payments : PaidFor(o, p)) => Recorded(o, "order_charge")

-----------------------------------------------------------------------------
(* The same for the properties that hold when requests are served one by   *)
(* one (a single worker), to their end.                                    *)

\* The row a request holds is the order's, and stays so; past its save, the
\* order has the status it asked for.
RowCurrent ==
    \A w \in Workers : LET q == req[w] IN
        /\ q.pc = "save" => q.row = order[q.o]
        /\ q.pc \in {"log", "assign"} \cup Ledgering \cup Undoing /\ q.kind \in Moves =>
              order[q.o].status = Target[q.kind]

\* The stamps of an assignment: a confirmation brings its own and takes none
\* away, and has brought it before it moves the order.
Stamps ==
    /\ \A w \in Workers : LET q == req[w] IN
          /\ q.pc = "saveAssignment" =>
                /\ q.asg.picked <=> assignment[q.o].picked \/ q.kind = "pickup"
                /\ q.asg.delivered <=> assignment[q.o].delivered \/ q.kind = "deliver"
          /\ q.pc \in {"readOrder", "save", "log"} =>
                /\ q.kind = "pickup" => assignment[q.o].picked
                /\ q.kind = "deliver" => assignment[q.o].delivered
    /\ \A o \in Orders :
          /\ order[o].status \in {OUT_FOR_DELIVERY, DELIVERED} => assignment[o].picked
          /\ order[o].status = DELIVERED => assignment[o].delivered

StockReturns ==
    \A o \in Orders :
        restocked[o] = IF order[o].status = CANCELLED /\ ~Returning(o) THEN 1 ELSE 0

\* A captured payment is about to be told to its order, and a cancellation has
\* marked every payment before it marks the order.
Capturing ==
    /\ \A o \in Orders : (\E p \in Payments : PaidFor(o, p)) =>
          \/ order[o].payment_status = "paid"
          \/ \E w \in Workers : req[w].o = o /\ req[w].pc = "payOrder"
    /\ \A w \in Workers : req[w].pc = "refundOrder" =>
          \A p \in Payments : ~PaidFor(req[w].o, p)

\* Bids are made while nothing has been assigned, and an acceptance that has not
\* rejected the others yet is the only one.
Settling ==
    /\ \A o \in Orders : (\E d \in Partners : bid[o][d] = "accepted") =>
          \/ \A d \in Partners : bid[o][d] # "open"
          \/ \E w \in Workers : req[w].o = o /\ req[w].pc = "bidReject"
    /\ \A w \in Workers : LET q == req[w] IN
          /\ q.pc = "bidSave" => ~Assigned(q.o)
          /\ q.pc = "bidReject" => bid[q.o][q.asg.partner] = "accepted"

\* The strengthening of StatusFollowsTable, OnceEach, DeliveredIsSettled,
\* CaptureSticks and BidsSettled.
AloneInv == RowCurrent /\ Stamps /\ StockReturns /\ Capturing /\ Settling
=============================================================================
