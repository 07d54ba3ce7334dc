------------------------------ MODULE Delivery -------------------------------
(***************************************************************************)
(* delivery/services.py and the two confirmations of delivery/views.py.    *)
(* A confirmation saves its timestamp before it asks transition_order      *)
(* whether the order may move, and keeps it when the answer is no.         *)
(***************************************************************************)
EXTENDS OrderHandlers

Assigned(o) == assignment[o].partner # None

\* create_assignment_for_order.  The row in memory may still say that there is
\* no assignment when another request has created one; order_id is unique, so
\* the insert is then refused and the request fails, with nothing left to do.
\* Partners register outside this model: there may be none to assign yet.
CreateAssignment(w) ==
    LET q == req[w] IN
    /\ q.pc = "assign"
    /\ \/ UNCHANGED assignment
       \/ /\ ~Assigned(q.o)
          /\ \E d \in Partners :
                assignment' = [assignment EXCEPT ![q.o] = [NoAssignment EXCEPT !.partner = d]]
    /\ Goto(w, "idle", {})
    /\ UNCHANGED <<order, log, payment, ledger, restocked, reached, faults, bid>>

\* Faulty variant: the order need not have an assignment.
PickupUnassigned(w, o) ==
    /\ Begin(w, [Idle EXCEPT !.pc = "saveAssignment", !.kind = "pickup", !.o = o,
                             !.asg = [assignment[o] EXCEPT !.picked = TRUE]])
    /\ UNCHANGED <<order, log, assignment, payment, ledger, restocked, reached, faults, bid>>

\* The partner's confirmations: the assignment is read and stamped in memory.
ConfirmPickup(w, o) ==
    /\ Assigned(o)
    /\ Begin(w, [Idle EXCEPT !.pc = "saveAssignment", !.kind = "pickup", !.o = o,
                             !.asg = [assignment[o] EXCEPT !.picked = TRUE]])
    /\ UNCHANGED <<order, log, assignment, payment, ledger, restocked, reached, faults, bid>>

ConfirmDeliver(w, o) ==
    /\ Assigned(o)
    /\ Begin(w, [Idle EXCEPT !.pc = "saveAssignment", !.kind = "deliver", !.o = o,
                             !.asg = [assignment[o] EXCEPT !.delivered = TRUE]])
    /\ UNCHANGED <<order, log, assignment, payment, ledger, restocked, reached, faults, bid>>

\* assignment.save(): both timestamps, as this request has them in memory.
SaveAssignment(w) ==
    LET q == req[w] IN
    /\ q.pc = "saveAssignment"
    /\ assignment' = [assignment EXCEPT ![q.o] = q.asg]
    /\ Goto(w, "readOrder", {})
    /\ UNCHANGED <<order, log, payment, ledger, restocked, reached, faults, bid>>

\* Faulty variant: nobody asks the transition table.
ReadUnguarded(w) ==
    LET q == req[w] IN
    /\ q.pc = "readOrder"
    /\ req' = [req EXCEPT ![w].pc = "save", ![w].row = order[q.o]]
    /\ UNCHANGED <<order, log, assignment, payment, ledger, restocked, reached, faults, bid>>

\* assignment.order is fetched now, for transition_order to judge.
ReadOrder(w) ==
    LET q == req[w] IN
    /\ q.pc = "readOrder"
    /\ \/ /\ Allowed(order[q.o], q.kind)
          /\ req' = [req EXCEPT ![w].pc = "save", ![w].row = order[q.o]]
       \/ /\ ~Allowed(order[q.o], q.kind)
          /\ Goto(w, "idle", {})
    /\ UNCHANGED <<order, log, assignment, payment, ledger, restocked, reached, faults, bid>>
=============================================================================
