--------------------------- MODULE ContractProofs ----------------------------
(***************************************************************************)
(* That the handlers of FreshDash, overlapping and cut short anywhere,     *)
(* implement OrderContract, for every number of orders and requests.       *)
(***************************************************************************)
EXTENDS FreshDashProofs

-----------------------------------------------------------------------------
(* The refinement mapping, one variable of the contract at a time          *)

Method   == [o \in Orders |-> order[o].method]
AssignedOrders == {o \in Orders : Assigned(o)}
Billed   == {o \in Orders : \E p \in Payments : payment[p].order = o}
Booked   == {b \in Orders \X LedgerReason : ledger[b[1]][b[2]] > 0}
Returned == {o \in Orders : restocked[o] > 0}

\* The contract and the handlers have the same enumerations.
LEMMA SameWords ==
    /\ Promised!PENDING = PENDING /\ Promised!READY_FOR_PICKUP = READY_FOR_PICKUP
    /\ Promised!OUT_FOR_DELIVERY = OUT_FOR_DELIVERY /\ Promised!DELIVERED = DELIVERED
    /\ Promised!CANCELLED = CANCELLED /\ Promised!OrderStatus = OrderStatus
    /\ Promised!PaymentMethod = PaymentMethod /\ Promised!LedgerReason = LedgerReason
    /\ Promised!TRANSITIONS = TRANSITIONS
  BY DEF Promised!PENDING, Promised!CONFIRMED, Promised!PREPARING, Promised!READY_FOR_PICKUP,
         Promised!OUT_FOR_DELIVERY, Promised!DELIVERED, Promised!CANCELLED,
         Promised!OrderStatus, Promised!PaymentMethod, Promised!LedgerReason,
         Promised!TRANSITIONS, PENDING, CONFIRMED, PREPARING, READY_FOR_PICKUP,
         OUT_FOR_DELIVERY, DELIVERED, CANCELLED, OrderStatus, PaymentMethod, LedgerReason,
         TRANSITIONS

\* A step that leaves the mapped variables alone is a stutter of the contract.
LEMMA ContractStutters ==
    ASSUME UNCHANGED <<Method, reached, AssignedOrders, Billed, Booked, Returned>>
    PROVE  UNCHANGED Promised!vars
  BY DEF Promised!vars, Method, AssignedOrders, Billed, Booked, Returned

LEMMA ContractInit == Init => Promised!Init
  <1> SUFFICES ASSUME Init PROVE Promised!Init
    OBVIOUS
  <1>1. Method \in [Orders -> PaymentMethod]
    BY DEF Init, Method
  <1>2. reached = [o \in Orders |-> {PENDING}]
    BY DEF Init
  <1>3. AssignedOrders = {}
    BY DEF Init, AssignedOrders, Assigned, NoAssignment
  <1>4. Billed = {}
    BY ConstantsAssumption DEF Init, Billed, NoPayment
  <1>5. Booked = {}
    BY DEF Init, Booked
  <1>6. Returned = {}
    BY DEF Init, Returned
  <1>7. QED
    BY <1>1, <1>2, <1>3, <1>4, <1>5, <1>6, SameWords
    DEF Promised!Init, Method, AssignedOrders, Billed, Booked, Returned

-----------------------------------------------------------------------------
(* Every step is a step of the contract, or a stutter                      *)

\* transition_order's save gains the order the stage it asks for, next to the
\* stage of the row it has read; a delivering partner is the order's.
LEMMA SaveGains ==
    ASSUME IInv, NEW w \in Workers, SaveOrder(w), UNCHANGED Method
    PROVE  \E o \in Orders, s \in OrderStatus : Promised!Gain(o, s)
  <1>1. PICK o \in Orders, s \in OrderStatus :
            o = req[w].o /\ s = Target[req[w].kind] /\ req[w].kind \in Moves
    BY TargetType DEF IInv, Shape, SaveOrder
  <1>2. \E t \in reached[o] : <<t, s>> \in TRANSITIONS
    BY <1>1 DEF IInv, Stages, SaveOrder
  <1>3. s \in {OUT_FOR_DELIVERY, DELIVERED} => o \in AssignedOrders
    BY <1>1, PartnerTargets DEF IInv, Carrying, SaveOrder, AssignedOrders
  <1>4. reached' = [reached EXCEPT ![o] = @ \cup {s}]
    BY <1>1 DEF SaveOrder
  <1>5. UNCHANGED <<Method, AssignedOrders, Billed, Booked, Returned>>
    BY DEF SaveOrder, AssignedOrders, Assigned, Billed, Booked, Returned
  <1>6. Promised!Gain(o, s)
    BY <1>2, <1>3, <1>4, <1>5, SameWords
    DEF Promised!Gain, Method, AssignedOrders, Billed, Booked, Returned
  <1>7. QED
    BY <1>6

\* Whoever writes an assignment writes it for an order that has been ready.
LEMMA WritesAssign ==
    ASSUME IInv, NEW w \in Workers, Acts(w), UNCHANGED Method,
           SaveAssignment(w) \/ CreateAssignment(w) \/ AssignBidder(w)
    PROVE  (\E o \in Orders : Promised!Assign(o)) \/ UNCHANGED Promised!vars
  <1>1. PICK o \in Orders : o = req[w].o
    BY DEF IInv, Shape, SaveAssignment, CreateAssignment, AssignBidder
  <1>2. UNCHANGED <<Method, reached, Billed, Booked, Returned>>
    BY DEF SaveAssignment, CreateAssignment, AssignBidder, Billed, Booked, Returned
  <1>3. \A x \in Orders \ {o} : assignment'[x] = assignment[x]
    BY <1>1 DEF IInv, TypeOK, SaveAssignment, CreateAssignment, AssignBidder
  <1>4. Assigned(o) => assignment'[o].partner # None
    BY <1>1, AssignmentsStay DEF IInv, Assigned
  <1>5. READY_FOR_PICKUP \in reached[o] \/ UNCHANGED AssignedOrders
    <2>1. HandedToPartner'
      BY HandedToPartnerStep DEF IInv
    <2>2. assignment'[o].partner # None => READY_FOR_PICKUP \in reached[o]
      BY <1>1, <1>2, <2>1 DEF HandedToPartner, Assigned
    <2>3. QED
      BY <1>1, <1>3, <1>4, <2>2 DEF AssignedOrders, Assigned
  <1>6. AssignedOrders' = AssignedOrders \/ AssignedOrders' = AssignedOrders \cup {o}
    BY <1>1, <1>3, <1>4 DEF AssignedOrders, Assigned
  <1>7. CASE UNCHANGED AssignedOrders
    BY <1>2, <1>7, ContractStutters
  <1>8. CASE AssignedOrders' = AssignedOrders \cup {o} /\ READY_FOR_PICKUP \in reached[o]
    <2>1. Promised!Assign(o)
      BY <1>2, <1>8, SameWords
      DEF Promised!Assign, Method, AssignedOrders, Billed, Booked, Returned
    <2>2. QED
      BY <2>1
  <1>9. QED
    BY <1>5, <1>6, <1>7, <1>8

\* A payment is created for a prepaid order.
LEMMA InsertBills ==
    ASSUME IInv, NEW w \in Workers, Acts(w), InsertPayment(w), UNCHANGED Method
    PROVE  \E o \in Orders : Promised!Bill(o)
  <1>1. PICK o \in Orders : o = req[w].o
    BY DEF IInv, Shape, InsertPayment
  <1>2. Method[o] = "prepaid"
    BY <1>1 DEF IInv, Owing, InsertPayment, Method
  <1>3. UNCHANGED <<Method, reached, AssignedOrders, Booked, Returned>>
    BY DEF InsertPayment, AssignedOrders, Assigned, Booked, Returned
  <1>4. PICK p \in Payments : ~Exists(p) /\ payment' = [payment EXCEPT ![p].order = o]
    BY <1>1 DEF InsertPayment
  <1>5. /\ payment[p].order = None /\ payment'[p].order = o
        /\ \A x \in Payments \ {p} : payment'[x] = payment[x]
    BY <1>4 DEF Exists, IInv, TypeOK, PaymentRow
  <1>6. Billed' = Billed \cup {o}
    BY <1>1, <1>5, ConstantsAssumption DEF Billed
  <1>7. Promised!Bill(o)
    BY <1>2, <1>3, <1>6, SameWords
    DEF Promised!Bill, Method, AssignedOrders, Billed, Booked, Returned
  <1>8. QED
    BY <1>7

\* What a record_* helper inserts follows its stage, or a payment.
LEMMA WriteBooks ==
    ASSUME IInv, NEW w \in Workers, Acts(w), LedgerWrite(w), UNCHANGED Method
    PROVE  \/ UNCHANGED Promised!vars
           \/ \E o \in Orders, r \in LedgerReason : Promised!Book(o, r)
  <1>1. PICK o \in Orders : o = req[w].o
    BY DEF IInv, Shape, LedgerWrite
  <1>2. UNCHANGED <<Method, reached, AssignedOrders, Billed, Returned>>
    BY DEF LedgerWrite, AssignedOrders, Assigned, Billed, Returned
  <1>3. PICK r \in LedgerReason :
            ledger' = IF <<o, r>> \in ZeroAmount THEN ledger ELSE [ledger EXCEPT ![o][r] = @ + 1]
    BY <1>1 DEF LedgerWrite
  <1>4. CASE <<o, r>> \in ZeroAmount
    <2>1. UNCHANGED Booked
      BY <1>3, <1>4 DEF Booked
    <2>2. QED
      BY <1>2, <2>1, ContractStutters
  <1>5. CASE <<o, r>> \notin ZeroAmount
    <2>1. /\ ledger'[o][r] > 0
          /\ \A x \in Orders, q \in LedgerReason :
                 <<x, q>> # <<o, r>> => ledger'[x][q] = ledger[x][q]
      BY <1>1, <1>3, <1>5 DEF IInv, TypeOK
    <2>2. Booked' = Booked \cup {<<o, r>>}
      <3>1. ASSUME NEW x \in Orders, NEW q \in LedgerReason
            PROVE  <<x, q>> \in Booked' <=> <<x, q>> \in Booked \/ <<x, q>> = <<o, r>>
        BY <1>1, <2>1 DEF Booked
      <3>2. Booked \cup Booked' \cup {<<o, r>>} \subseteq Orders \X LedgerReason
        BY <1>1 DEF Booked
      <3>3. QED
        BY <1>1, <3>1, <3>2
    <2>3. MoneyFollowsGoods'
      BY MoneyFollowsGoodsStep DEF IInv
    <2>4. \/ r \in {"seller_payout", "delivery_earning"} /\ DELIVERED \in reached[o]
          \/ r = "order_charge" /\ IF order'[o].method = "cod" THEN DELIVERED \in reached[o]
                                   ELSE o \in Billed
          \/ r = "order_refund" /\ CANCELLED \in reached[o]
      BY <1>1, <1>2, <2>1, <2>3 DEF MoneyFollowsGoods, LedgerReason, Billed, LedgerWrite
    <2>5. order'[o].method = Method[o] /\ Method[o] \in PaymentMethod
      BY <1>1, MethodsStay DEF IInv, TypeOK, OrderRow, Method
    <2>6. IF r = "order_charge" /\ Method[o] = "prepaid" THEN o \in Billed
          ELSE Promised!Cause[r] \in reached[o]
      BY <2>4, <2>5, SameWords DEF Promised!Cause, PaymentMethod
    <2>7. Promised!Book(o, r)
      BY <1>2, <2>2, <2>6, SameWords
      DEF Promised!Book, Method, AssignedOrders, Billed, Booked, Returned
    <2>8. QED
      BY <2>7
  <1>6. QED
    BY <1>4, <1>5

\* Only a cancelled order's items go back.
LEMMA RestockReturns ==
    ASSUME IInv, NEW w \in Workers, Acts(w), Restock(w), UNCHANGED Method
    PROVE  \E o \in Orders : Promised!Return(o)
  <1>1. PICK o \in Orders : o = req[w].o
    BY DEF IInv, Shape, Restock
  <1>2. UNCHANGED <<Method, reached, AssignedOrders, Billed, Booked>>
    BY DEF Restock, AssignedOrders, Assigned, Billed, Booked
  <1>3. restocked' = [restocked EXCEPT ![o] = @ + 1]
    BY <1>1 DEF Restock
  <1>4. Returned' = Returned \cup {o}
    BY <1>1, <1>3 DEF Returned, IInv, TypeOK
  <1>5. CANCELLED \in reached[o]
    <2>1. MoneyFollowsGoods'
      BY MoneyFollowsGoodsStep DEF IInv
    <2>2. QED
      BY <1>1, <1>2, <1>4, <2>1 DEF MoneyFollowsGoods, Returned
  <1>6. Promised!Return(o)
    BY <1>2, <1>4, <1>5, SameWords
    DEF Promised!Return, Method, AssignedOrders, Billed, Booked, Returned
  <1>7. QED
    BY <1>6

LEMMA ContractStep ==
    ASSUME IInv, NEW w \in Workers, Acts(w)
    PROVE  Promised!Next \/ UNCHANGED Promised!vars
  <1>1. UNCHANGED Method
    BY MethodsStay DEF IInv, Method
  <1>2. CASE SaveOrder(w)
    BY <1>1, <1>2, SaveGains, SameWords DEF Promised!Next
  <1>3. CASE SaveAssignment(w) \/ CreateAssignment(w) \/ AssignBidder(w)
    BY <1>1, <1>3, WritesAssign DEF Promised!Next
  <1>4. CASE InsertPayment(w)
    BY <1>1, <1>4, InsertBills DEF Promised!Next
  <1>5. CASE LedgerWrite(w)
    BY <1>1, <1>5, WriteBooks, SameWords DEF Promised!Next
  <1>6. CASE Restock(w)
    BY <1>1, <1>6, RestockReturns DEF Promised!Next
  <1>7. CASE ~(\/ SaveOrder(w) \/ SaveAssignment(w) \/ CreateAssignment(w) \/ AssignBidder(w)
               \/ InsertPayment(w) \/ LedgerWrite(w) \/ Restock(w))
    <2>1. UNCHANGED reached
      BY <1>7, WhoWritesStages
    <2>2. UNCHANGED AssignedOrders
      BY <1>7, WhoWritesAssignments DEF AssignedOrders, Assigned
    <2>3. UNCHANGED Booked
      BY <1>7, LedgerStays DEF Booked
    <2>4. UNCHANGED Billed
      BY <1>7, PaymentsStay DEF IInv, Billed
    <2>5. UNCHANGED Returned
      BY <1>7, ReturnsStay DEF Returned
    <2>6. QED
      BY <1>1, <2>1, <2>2, <2>3, <2>4, <2>5, ContractStutters
  <1>8. QED
    BY <1>2, <1>3, <1>4, <1>5, <1>6, <1>7

\* The handlers, overlapping and cut short anywhere, implement OrderContract.
THEOREM HandlersKeepPromise == Spec => KeepsPromise
  <1>1. Init => Promised!Init
    BY ContractInit
  <1>2. IInv /\ [Next]_vars => [Promised!Next]_(Promised!vars)
    <2> SUFFICES ASSUME IInv, [Next]_vars PROVE Promised!Next \/ UNCHANGED Promised!vars
      OBVIOUS
    <2>1. CASE Next
      BY <2>1, ContractStep DEF Next, Acts
    <2>2. CASE UNCHANGED vars
      BY <2>2 DEF vars, Promised!vars, Assigned
    <2>3. QED
      BY <2>1, <2>2
  <1>3. QED
    BY <1>1, <1>2, InductiveInvariant, PTL DEF Spec, KeepsPromise, Promised!Spec
=============================================================================
