------------------------------- MODULE OrderDB -------------------------------
(***************************************************************************)
(* The tables that the order, delivery and payment applications of         *)
(* FreshDash share, and the requests that are being served.                *)
(*                                                                         *)
(* No request of these applications runs in a transaction: every ORM call  *)
(* is one autocommitted statement, so a request is a sequence of atomic    *)
(* steps between which other requests run.  req[w] is the request that     *)
(* server thread w is serving: the handler (kind), where it stands (pc)    *)
(* and the rows it holds in memory, which may be stale.                    *)
(***************************************************************************)
EXTENDS OrderTypes, Integers, FiniteSets

CONSTANTS
    Orders,       \* ids of the orders, all placed by create_order
    Payments,     \* ids of the payment rows that can be inserted
    Partners,     \* delivery partner profiles that may exist
    Bidders,      \* the partners who use the bidding board
    Workers,      \* requests that can be served at the same time
    ZeroAmount,   \* <<order, reason>>: ledger movements whose amount is 0
    MaxFaults,    \* bound of the model: requests that are cut short
    MaxRestocks,  \* bound of the model: cancellations served per order
    None          \* "no row", "no request"

\* The handlers that move an order, and the status each asks for.
Target == [accept  |-> CONFIRMED,        prepare |-> PREPARING,
           ready   |-> READY_FOR_PICKUP, reject  |-> CANCELLED,
           cancel  |-> CANCELLED,        pickup  |-> OUT_FOR_DELIVERY,
           deliver |-> DELIVERED]

Moves == DOMAIN Target
Kinds == Moves \cup {"payCreate", "markPaid", "bid", "acceptBid"}

PCs == {"idle", "saveAssignment", "readOrder", "save", "log", "codPaid",
        "ledgerCheck", "ledgerWrite", "restock", "refundPayments", "refundOrder",
        "assign", "payInsert", "payMark", "payOrder",
        "bidSave", "bidAssign", "bidAccept", "bidReject"}

OrderRow      == [status : OrderStatus, payment_status : PaymentStatus,
                  method : PaymentMethod]
AssignmentRow == [partner : Partners \cup {None}, picked : BOOLEAN, delivered : BOOLEAN]
PaymentRow    == [order : Orders \cup {None}, status : PaymentStatus]

\* A partner, or an order, of None stands for a row that does not exist.
NoAssignment == [partner |-> None, picked |-> FALSE, delivered |-> FALSE]
NoPayment    == [order |-> None, status |-> "pending"]

VARIABLES
    order,       \* the orders table
    log,         \* order_status_logs: the statuses each order was logged to enter
    assignment,  \* delivery_assignments, one row at most per order
    bid,         \* delivery_bids, one row at most per order and partner
    payment,     \* the payments table
    ledger,      \* ledger_entries: how many rows each order has of each reason
    restocked,   \* how often the items of each order went back on the shelf
    req,         \* the request each worker is serving
    reached,     \* history: every status the order's row has ever held
    faults       \* how many requests have been cut short

vars == <<order, log, assignment, payment, ledger, restocked, req, reached, faults, bid>>

ASSUME ConstantsAssumption ==
    /\ IsFiniteSet(Workers)
    /\ None \notin Orders \cup Payments \cup Partners \cup Workers \cup BidStatus
    /\ Bidders \subseteq Partners
    /\ ZeroAmount \subseteq Orders \X LedgerReason
    /\ MaxFaults \in Nat
    /\ MaxRestocks \in Nat

-----------------------------------------------------------------------------
Idle == [pc  |-> "idle", kind |-> None, o |-> None,
         row |-> [status |-> PENDING, payment_status |-> "pending", method |-> "cod"],
         asg |-> NoAssignment, p |-> None, due |-> {}]

Request == [pc  : PCs, kind : Kinds \cup {None}, o : Orders \cup {None}, row : OrderRow,
            asg : AssignmentRow, p : Payments \cup {None}, due : SUBSET LedgerReason]

TypeOK ==
    /\ order \in [Orders -> OrderRow]
    /\ log \in [Orders -> SUBSET OrderStatus]
    /\ assignment \in [Orders -> AssignmentRow]
    /\ bid \in [Orders -> [Partners -> BidStatus \cup {None}]]
    /\ payment \in [Payments -> PaymentRow]
    /\ ledger \in [Orders -> [LedgerReason -> Nat]]
    /\ restocked \in [Orders -> Nat]
    /\ req \in [Workers -> Request]
    /\ reached \in [Orders -> SUBSET OrderStatus]
    /\ faults \in 0..MaxFaults

\* create_order has committed: a pending order, unpaid, with its first log entry.
Init ==
    /\ order \in [Orders -> {[status |-> PENDING, payment_status |-> "pending",
                              method |-> m] : m \in PaymentMethod}]
    /\ log = [o \in Orders |-> {PENDING}]
    /\ assignment = [o \in Orders |-> NoAssignment]
    /\ bid = [o \in Orders |-> [d \in Partners |-> None]]
    /\ payment = [p \in Payments |-> NoPayment]
    /\ ledger = [o \in Orders |-> [r \in LedgerReason |-> 0]]
    /\ restocked = [o \in Orders |-> 0]
    /\ req = [w \in Workers |-> Idle]
    /\ reached = [o \in Orders |-> {PENDING}]
    /\ faults = 0

-----------------------------------------------------------------------------
\* A free worker takes a request and makes its first read.
Begin(w, r) == /\ req[w].pc = "idle"
               /\ req' = [req EXCEPT ![w] = r]

\* The request of w goes on at statement pc with entries due, or is answered.
Goto(w, pc, due) ==
    req' = [req EXCEPT ![w] = IF pc = "idle" THEN Idle
                              ELSE [@ EXCEPT !.pc = pc, !.due = due]]

\* No request that concerns order o is in flight.
Quiet(o) == \A w \in Workers : req[w].o # o
=============================================================================
