-------------------------------- MODULE Bids ---------------------------------
(***************************************************************************)
(* The bidding board of delivery/views.py: partners bid for orders that    *)
(* are ready and have no assignment, and the seller or the buyer accepts   *)
(* one, which creates the assignment.  It competes with the assignment     *)
(* that the seller's ready makes by itself.                                *)
(*                                                                         *)
(* Both views read the order before they ask for its assignment.  An order *)
(* never loses an assignment, so one that has none at the second read had  *)
(* none at the first: the two reads are one step.                          *)
(***************************************************************************)
EXTENDS Delivery

\* The assignment that a bid of partner d is for.
AssignedTo(d) == [NoAssignment EXCEPT !.partner = d]

BidCreate(w, o) ==
    /\ order[o].status = READY_FOR_PICKUP
    /\ ~Assigned(o)
    /\ \E d \in Bidders :
          Begin(w, [Idle EXCEPT !.pc = "bidSave", !.kind = "bid", !.o = o, !.asg = AssignedTo(d)])
    /\ UNCHANGED <<order, log, assignment, payment, ledger, restocked, reached, faults, bid>>

\* DeliveryBid.objects.update_or_create(...): open, whatever has become of the
\* order, of its assignment or of the bid since.
SaveBid(w) ==
    LET q == req[w] IN
    /\ q.pc = "bidSave"
    /\ bid' = [bid EXCEPT ![q.o][q.asg.partner] = "open"]
    /\ Goto(w, "idle", {})
    /\ UNCHANGED <<order, log, assignment, payment, ledger, restocked, reached, faults>>

\* The order's status is not asked for.
BidAccept(w, o) ==
    /\ ~Assigned(o)
    /\ \E d \in Partners :
          /\ bid[o][d] = "open"
          /\ Begin(w, [Idle EXCEPT !.pc = "bidAssign", !.kind = "acceptBid", !.o = o,
                                   !.asg = AssignedTo(d)])
    /\ UNCHANGED <<order, log, assignment, payment, ledger, restocked, reached, faults, bid>>

\* Faulty variant: the insert replaces an assignment made in the meantime.
ReplaceAssignment(w) ==
    LET q == req[w] IN
    /\ q.pc = "bidAssign"
    /\ assignment' = [assignment EXCEPT ![q.o] = q.asg]
    /\ Goto(w, "bidAccept", {})
    /\ UNCHANGED <<order, log, payment, ledger, restocked, reached, faults, bid>>

\* The insert is refused, and the request fails, when there is an assignment now.
AssignBidder(w) ==
    LET q == req[w] IN
    /\ q.pc = "bidAssign"
    /\ \/ /\ Assigned(q.o)
          /\ UNCHANGED assignment
          /\ Goto(w, "idle", {})
       \/ /\ ~Assigned(q.o)
          /\ assignment' = [assignment EXCEPT ![q.o] = q.asg]
          /\ Goto(w, "bidAccept", {})
    /\ UNCHANGED <<order, log, payment, ledger, restocked, reached, faults, bid>>

\* Faulty variant: the other bids are left open.
AcceptOnly(w) ==
    LET q == req[w] IN
    /\ q.pc = "bidAccept"
    /\ bid' = [bid EXCEPT ![q.o][q.asg.partner] = "accepted"]
    /\ Goto(w, "idle", {})
    /\ UNCHANGED <<order, log, assignment, payment, ledger, restocked, reached, faults>>

AcceptBid(w) ==
    LET q == req[w] IN
    /\ q.pc = "bidAccept"
    /\ bid' = [bid EXCEPT ![q.o][q.asg.partner] = "accepted"]
    /\ Goto(w, "bidReject", {})
    /\ UNCHANGED <<order, log, assignment, payment, ledger, restocked, reached, faults>>

RejectOthers(w) ==
    LET q == req[w] IN
    /\ q.pc = "bidReject"
    /\ bid' = [bid EXCEPT ![q.o] = [d \in Partners |->
                  IF d # q.asg.partner /\ @[d] = "open" THEN "rejected" ELSE @[d]]]
    /\ Goto(w, "idle", {})
    /\ UNCHANGED <<order, log, assignment, payment, ledger, restocked, reached, faults>>
=============================================================================
