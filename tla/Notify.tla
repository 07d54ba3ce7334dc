-------------------------------- MODULE Notify -------------------------------
(***************************************************************************)
(* What the parties to one order are told, and when: the fan-out of        *)
(* notifications/services.py, the updates config/socketio_server.py emits, *)
(* and the partner's position.  Everything is told from inside the request *)
(* that causes it, statement by statement, while other requests run; a new *)
(* order is announced from inside its transaction.                         *)
(***************************************************************************)
EXTENDS OrderTypes, Integers, FiniteSets, FiniteSetsExt

CONSTANTS
    Partners,       \* delivery partner profiles
    Positions,      \* where a partner can be
    Devices,        \* the users whose app has registered a push token
    Workers,        \* requests that can be served at the same time
    MaxLogs,        \* bound of the model: entries of the status log
    None            \* nobody, nothing yet

Users   == {"buyer", "seller"} \cup Partners
Topics  == OrderStatus \cup {"assigned"}
Kinds   == {"place", "move", "accept", "report"}
PCs     == {"idle", "save", "log", "emit", "tellBuyer", "tellSeller", "tellPartner", "commit",
            "assign", "tellAssigned", "saveAssignment", "readOrder", "savePosition", "emitPosition"}

VARIABLES
    placed,         \* what became of create_order: "no", "inside", "yes", "undone"
    status,         \* orders.status
    logged,         \* order_status_logs: how many entries for each status
    partner,        \* the partner of the order's assignment
    inbox,          \* notifications: how many rows each user has on each topic
    pushed,         \* what has been handed to the push service: pairs of a user and a topic
    position,       \* driver_latitude, driver_longitude of the assignment
    joined,         \* whether the buyer's socket is in the order's room
    screen,         \* the status and the position that socket was told last
    req,            \* the request each worker serves
    reached,        \* history: the statuses the order has had
    announced,      \* history: the statuses that were emitted
    met,            \* history: the rows that two overlapping requests write
    cut             \* history: a request has been cut short

vars == <<placed, status, logged, partner, inbox, pushed, position, joined, screen, req, reached,
          announced, met, cut>>

ASSUME NotifyAssumption ==
    /\ IsFiniteSet(Workers)
    /\ None \notin Partners \cup Positions \cup OrderStatus \cup Kinds
    /\ Partners \cap {"buyer", "seller"} = {}
    /\ Devices \subseteq Users
    /\ MaxLogs \in Nat

\* known: the assignment's partner as the order in memory has it.
Idle    == [pc |-> "idle", kind |-> None, to |-> PENDING, known |-> None, at |-> None]
Request == [pc : PCs, kind : Kinds \cup {None}, to : OrderStatus,
            known : Partners \cup {None}, at : Positions \cup {None}]

Blank == [status |-> None, at |-> None]
Empty == [u \in Users |-> [t \in Topics |-> 0]]

TypeOK ==
    /\ placed \in {"no", "inside", "yes", "undone"}
    /\ status \in OrderStatus
    /\ logged \in [OrderStatus -> Nat]
    /\ partner \in Partners \cup {None}
    /\ inbox \in [Users -> [Topics -> Nat]]
    /\ pushed \subseteq Devices \X Topics
    /\ position \in Positions \cup {None}
    /\ joined \in BOOLEAN
    /\ screen \in [status : OrderStatus \cup {None}, at : Positions \cup {None}]
    /\ req \in [Workers -> Request]
    /\ reached \subseteq OrderStatus /\ announced \subseteq OrderStatus
    /\ met \subseteq {"order", "assignment"}
    /\ cut \in BOOLEAN

Init ==
    /\ placed = "no"
    /\ status = PENDING
    /\ logged = [s \in OrderStatus |-> 0]
    /\ partner = None /\ position = None
    /\ inbox = Empty /\ pushed = {}
    /\ joined = FALSE /\ screen = Blank
    /\ req = [w \in Workers |-> Idle]
    /\ reached = {PENDING} /\ announced = {} /\ met = {} /\ cut = FALSE

table == <<placed, status, logged, partner, position, reached>>
told  == <<inbox, pushed, joined, screen, announced>>
past  == <<met, cut>>

\* The rows that a request writes.
Confirming == {OUT_FOR_DELIVERY, DELIVERED}
Writes(q) == (IF q.kind = "move" THEN {"order"} ELSE {})
               \cup (IF q.kind = "report" \/ q.to \in Confirming THEN {"assignment"} ELSE {})

Begin(w, r) ==
    /\ req[w].pc = "idle"
    /\ req' = [req EXCEPT ![w] = r]
    /\ met' = met \cup UNION {Writes(r) \cap Writes(req[v]) : v \in Workers}

Goto(w, pc) == req' = [req EXCEPT ![w] = IF pc = "idle" THEN Idle ELSE [@ EXCEPT !.pc = pc]]

-----------------------------------------------------------------------------
(* The requests that tell somebody something                               *)

\* create_order writes the order and its first log entry, unseen by others.
PlaceOrder(w) ==
    /\ placed = "no"
    /\ placed' = "inside"
    /\ logged' = [logged EXCEPT ![PENDING] = 1]
    /\ Begin(w, [Idle EXCEPT !.pc = "emit", !.kind = "place"])
    /\ UNCHANGED <<status, partner, position, reached, told, cut>>

\* It ends with what it has announced, and only now can others see the order.
CommitOrder(w) ==
    /\ req[w].pc = "commit"
    /\ placed' = "yes"
    /\ Goto(w, "idle")
    /\ UNCHANGED <<status, logged, partner, position, reached, told, past>>

\* Log entries there are or will be; MaxLogs bounds them.
Entries == LET n(s) == logged[s] IN
           MapThenSumSet(n, OrderStatus) + Cardinality({v \in Workers : req[v].kind = "move"})

\* Seller or buyer move the order along the table, as they have read it.
MoveOrder(w) ==
    /\ placed = "yes" /\ Entries < MaxLogs
    /\ \E to \in OrderStatus \ Confirming :
          /\ <<status, to>> \in TRANSITIONS
          /\ Begin(w, [Idle EXCEPT !.pc = "save", !.kind = "move", !.to = to])
    /\ UNCHANGED <<table, told, cut>>

\* The assigned partner confirms: the assignment is read, and saved with every
\* column, the position too.
Confirm(w) ==
    /\ partner # None /\ Entries < MaxLogs
    /\ \E to \in Confirming :
          Begin(w, [Idle EXCEPT !.pc = "saveAssignment", !.kind = "move", !.to = to, !.at = position])
    /\ UNCHANGED <<table, told, cut>>

SaveAssignment(w) ==
    /\ req[w].pc = "saveAssignment"
    /\ position' = req[w].at
    /\ Goto(w, "readOrder")
    /\ UNCHANGED <<placed, status, logged, partner, reached, told, past>>

\* Only now is the order read, and the move judged.
ReadOrder(w) ==
    /\ req[w].pc = "readOrder"
    /\ Goto(w, IF <<status, req[w].to>> \in TRANSITIONS THEN "save" ELSE "idle")
    /\ UNCHANGED <<table, told, past>>

SaveOrder(w) ==
    /\ req[w].pc = "save"
    /\ status' = req[w].to
    /\ reached' = reached \cup {req[w].to}
    /\ Goto(w, "log")
    /\ UNCHANGED <<placed, logged, partner, position, told, past>>

LogStatus(w) ==
    /\ req[w].pc = "log"
    /\ logged' = [logged EXCEPT ![req[w].to] = @ + 1]
    /\ Goto(w, "emit")
    /\ UNCHANGED <<placed, status, partner, position, reached, told, past>>

-----------------------------------------------------------------------------
(* on_status_log                                                           *)

\* Faulty variant: a cancellation is notified and not emitted.
EmitUncancelled(w) ==
    /\ req[w].pc = "emit"
    /\ announced' = announced \cup {req[w].to}
    /\ screen' = IF joined /\ req[w].to # CANCELLED THEN [screen EXCEPT !.status = req[w].to] ELSE screen
    /\ Goto(w, "tellBuyer")
    /\ UNCHANGED <<table, inbox, pushed, joined, past>>

\* emit_order_update; what is emitted to an empty room is lost.
EmitStatus(w) ==
    /\ req[w].pc = "emit"
    /\ announced' = announced \cup {req[w].to}
    /\ screen' = IF joined THEN [screen EXCEPT !.status = req[w].to] ELSE screen
    /\ Goto(w, "tellBuyer")
    /\ UNCHANGED <<table, inbox, pushed, joined, past>>

\* STATUS_COPY: who is told of a status.
Copy(s) == {"buyer"}
             \cup (IF s \in {PENDING, OUT_FOR_DELIVERY, DELIVERED, CANCELLED} THEN {"seller"} ELSE {})
             \cup (IF s \in {READY_FOR_PICKUP, DELIVERED, CANCELLED} THEN {"delivery"} ELSE {})

\* send_push_to_user: what the push service makes of it is not heard of.
Push(u, topic) == pushed' = IF u \in Devices THEN pushed \cup {<<u, topic>>} ELSE pushed

\* _send: a row, an event for the user's room, and a push.
Send(u, topic) == /\ inbox' = [inbox EXCEPT ![u][topic] = @ + 1]
                  /\ Push(u, topic)

TellBuyer(w) ==
    LET roles == Copy(req[w].to) IN
    /\ req[w].pc = "tellBuyer"
    /\ Send("buyer", req[w].to)
    /\ Goto(w, IF "seller" \in roles THEN "tellSeller"
               ELSE IF "delivery" \in roles THEN "tellPartner" ELSE "idle")
    /\ UNCHANGED <<table, joined, screen, announced, past>>

TellSeller(w) ==
    /\ req[w].pc = "tellSeller"
    /\ Send("seller", req[w].to)
    /\ Goto(w, IF "delivery" \in Copy(req[w].to) THEN "tellPartner"
               ELSE IF req[w].kind = "place" THEN "commit" ELSE "idle")
    /\ UNCHANGED <<table, joined, screen, announced, past>>

\* The order in memory looks its assignment up now, and remembers the answer.
TellPartner(w) ==
    /\ req[w].pc = "tellPartner"
    /\ IF partner # None THEN Send(partner, req[w].to) ELSE UNCHANGED <<inbox, pushed>>
    /\ req' = [req EXCEPT ![w] = IF @.to = READY_FOR_PICKUP
                                 THEN [@ EXCEPT !.pc = "assign", !.known = partner] ELSE Idle]
    /\ UNCHANGED <<table, joined, screen, announced, past>>

-----------------------------------------------------------------------------
(* Assignments                                                             *)

\* BidAcceptView, of a bid on an order that is ready and has no partner.
AcceptBid(w) ==
    /\ READY_FOR_PICKUP \in reached
    /\ partner = None
    /\ Begin(w, [Idle EXCEPT !.pc = "assign", !.kind = "accept"])
    /\ UNCHANGED <<table, told, cut>>

\* Faulty variant: the partner is told whether or not the insert succeeds.
AssignTold(w) ==
    /\ req[w].pc = "assign"
    /\ \/ /\ req[w].known = None
          /\ \E d \in Partners : /\ partner' = IF partner = None THEN d ELSE partner
                                 /\ req' = [req EXCEPT ![w].pc = "tellAssigned", ![w].known = d]
       \/ Goto(w, "idle") /\ UNCHANGED partner
    /\ UNCHANGED <<placed, status, logged, position, reached, told, past>>

\* The insert; the second assignment of an order is refused, and ends the
\* request.  The automatic assignment may find nobody to assign.
Assign(w) ==
    /\ req[w].pc = "assign"
    /\ \/ /\ req[w].known = None /\ partner = None
          /\ \E d \in Partners : /\ partner' = d
                                 /\ req' = [req EXCEPT ![w].pc = "tellAssigned", ![w].known = d]
       \/ /\ req[w].kind = "move" \/ req[w].known # None \/ partner # None
          /\ Goto(w, "idle")
          /\ UNCHANGED partner
    /\ UNCHANGED <<placed, status, logged, position, reached, told, past>>

\* notify_delivery_assigned; an exception in it is swallowed.
TellAssigned(w) ==
    /\ req[w].pc = "tellAssigned"
    /\ Send(req[w].known, "assigned")
    /\ Goto(w, "idle")
    /\ UNCHANGED <<table, joined, screen, announced, past>>

-----------------------------------------------------------------------------
(* The partner's position                                                  *)

ReportPosition(w) ==
    /\ partner # None
    /\ \E x \in Positions : Begin(w, [Idle EXCEPT !.pc = "savePosition", !.kind = "report", !.at = x])
    /\ UNCHANGED <<table, told, cut>>

SavePosition(w) ==
    /\ req[w].pc = "savePosition"
    /\ position' = req[w].at
    /\ Goto(w, "emitPosition")
    /\ UNCHANGED <<placed, status, logged, partner, reached, told, past>>

EmitPosition(w) ==
    /\ req[w].pc = "emitPosition"
    /\ screen' = IF joined THEN [screen EXCEPT !.at = req[w].at] ELSE screen
    /\ Goto(w, "idle")
    /\ UNCHANGED <<table, inbox, pushed, joined, announced, past>>

-----------------------------------------------------------------------------
\* The buyer's app subscribes to the order, and unsubscribes or is disconnected.
Subscribe ==
    /\ ~joined
    /\ joined' = TRUE
    /\ UNCHANGED <<table, inbox, pushed, screen, req, announced, past>>

Unsubscribe ==
    /\ joined
    /\ joined' = FALSE /\ screen' = Blank
    /\ UNCHANGED <<table, inbox, pushed, req, announced, past>>

\* Faulty variant: a new order that fails is left as it is.
FailKeeps(w) ==
    /\ req[w].pc # "idle"
    /\ ~cut
    /\ cut' = TRUE
    /\ Goto(w, "idle")
    /\ placed' = IF placed = "inside" THEN "undone" ELSE placed
    /\ UNCHANGED <<status, logged, inbox, pushed, partner, position, reached, joined, screen, announced, met>>

\* A request is cut short.  A new order is rolled back with its log and its
\* notifications; what was emitted and pushed is not.
Fail(w) ==
    /\ req[w].pc # "idle"
    /\ ~cut
    /\ cut' = TRUE
    /\ Goto(w, "idle")
    /\ IF placed = "inside"
       THEN placed' = "undone" /\ logged' = [s \in OrderStatus |-> 0] /\ inbox' = Empty
       ELSE UNCHANGED <<placed, logged, inbox>>
    /\ UNCHANGED <<status, pushed, partner, position, reached, joined, screen, announced, met>>

Arrive(w) == \/ PlaceOrder(w) \/ MoveOrder(w) \/ Confirm(w) \/ AcceptBid(w) \/ ReportPosition(w)

Step(w) == \/ CommitOrder(w) \/ SaveAssignment(w) \/ ReadOrder(w) \/ SaveOrder(w) \/ LogStatus(w)
           \/ EmitStatus(w) \/ TellBuyer(w) \/ TellSeller(w) \/ TellPartner(w)
           \/ Assign(w) \/ TellAssigned(w) \/ SavePosition(w) \/ EmitPosition(w)

Next == Subscribe \/ Unsubscribe \/ \E w \in Workers : Arrive(w) \/ Step(w) \/ Fail(w)

Spec == Init /\ [][Next]_vars

-----------------------------------------------------------------------------
Quiet == \A w \in Workers : req[w].pc = "idle"

\* Nobody is told what has not happened, or more often than it has: whatever
\* overlaps and is cut short, a status that was announced is one the order has
\* had (for a new order, the one it is about to have), every notification has
\* its entry in the status log and every push its notification; an order that was
\* rolled back leaves no notification, and no push but of its placement.
OnlyWhatHappened ==
    /\ announced \subseteq reached
    /\ placed \in {"no", "inside", "undone"} => announced \subseteq {PENDING}
    /\ \A u \in Users, s \in OrderStatus : inbox[u][s] <= logged[s]
    /\ placed = "undone" => inbox = Empty /\ pushed \subseteq {"buyer", "seller"} \X {PENDING}
    /\ placed # "undone" => \A push \in pushed : inbox[push[1]][push[2]] > 0

\* When no request has been cut short, the buyer has been told of every entry of
\* the log, and the seller of every one that concerns a seller, as often as there
\* are; the partner who carries the order has been told so once, and of the
\* delivery, and no other partner of anything: although bids are accepted while
\* the seller's ready assigns somebody, and each tells its own partner.  Nor has
\* the partner a pickup that was cancelled without telling him, unless two moves
\* of the order have overlapped: then a cancellation may have been told before he
\* was assigned, and he never hears of it.
EverybodyTold ==
    Quiet /\ ~cut =>
        /\ \A s \in OrderStatus :
              /\ inbox["buyer"][s] = logged[s]
              /\ s \in {PENDING, OUT_FOR_DELIVERY, DELIVERED, CANCELLED} => inbox["seller"][s] = logged[s]
        /\ \A d \in Partners :
              /\ inbox[d]["assigned"] = IF d = partner THEN 1 ELSE 0
              /\ d # partner => inbox[d] = [t \in Topics |-> 0]
              /\ d = partner => inbox[d][DELIVERED] = logged[DELIVERED]
              /\ d = partner /\ "order" \notin met => inbox[d][CANCELLED] = logged[CANCELLED]

\* A subscriber who has been told anything since was told last what the tables
\* say, as long as no two requests that write the same row have overlapped:
\* bids, reports of the position and moves of the order may.
ScreenFollows ==
    Quiet /\ ~cut /\ joined =>
        /\ "order" \notin met => screen.status \in {None, status}
        /\ "assignment" \notin met => screen.at \in {None, position}
=============================================================================
