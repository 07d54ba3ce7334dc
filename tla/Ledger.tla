------------------------------- MODULE Ledger --------------------------------
(***************************************************************************)
(* The ledger helpers of payments/services.py.  Each record_* helper asks  *)
(* whether the order already has an entry of its reason and, if not,       *)
(* inserts one: two statements, nothing that makes them one.               *)
(*                                                                         *)
(* req[w].due is what the running handler still has to record.             *)
(***************************************************************************)
EXTENDS OrderDB

\* The order in which on_status_log calls the helpers.
Rank == [order_charge |-> 1, seller_payout |-> 2, delivery_earning |-> 3, order_refund |-> 4]

First(r, S) == r \in S /\ \A q \in S : Rank[r] <= Rank[q]

\* Faulty variant: every handler that records falls through to the restocking.
AfterLedgerDeliver(kind) ==
    IF kind \in {"cancel", "reject", "deliver"} THEN "restock" ELSE "idle"

\* Faulty variant: only the buyer's cancellation returns the stock.
AfterLedgerCancelOnly(kind) == IF kind = "cancel" THEN "restock" ELSE "idle"

\* Where the handler stands when its ledger entries have been recorded.
AfterLedger(kind) == IF kind \in {"cancel", "reject"} THEN "restock" ELSE "idle"

\* Faulty variant: an early return after the first entry.
RecordOne(w, S) == Goto(w, AfterLedger(req[w].kind), {})

\* The request of w goes on to record S, or past the ledger when S is empty.
Record(w, S) ==
    IF S = {} THEN Goto(w, AfterLedger(req[w].kind), {}) ELSE Goto(w, "ledgerCheck", S)

\* Faulty variant: nobody asks whether there is an entry already.
LedgerUnchecked(w) ==
    /\ req[w].pc = "ledgerCheck"
    /\ Goto(w, "ledgerWrite", req[w].due)
    /\ UNCHANGED <<order, log, assignment, payment, ledger, restocked, reached, faults, bid>>

\* LedgerEntry.objects.filter(order, reason).exists()
LedgerCheck(w) ==
    /\ req[w].pc = "ledgerCheck"
    /\ \E r \in LedgerReason :
          /\ First(r, req[w].due)
          /\ \/ /\ ledger[req[w].o][r] > 0
                /\ Record(w, req[w].due \ {r})
             \/ /\ ledger[req[w].o][r] = 0
                /\ Goto(w, "ledgerWrite", req[w].due)
    /\ UNCHANGED <<order, log, assignment, payment, ledger, restocked, reached, faults, bid>>

\* _write: nothing is inserted for a movement of 0.
LedgerWrite(w) ==
    /\ req[w].pc = "ledgerWrite"
    /\ \E r \in LedgerReason :
          /\ First(r, req[w].due)
          /\ ledger' = IF <<req[w].o, r>> \in ZeroAmount THEN ledger
                       ELSE [ledger EXCEPT ![req[w].o][r] = @ + 1]
          /\ Record(w, req[w].due \ {r})
    /\ UNCHANGED <<order, log, assignment, payment, restocked, reached, faults, bid>>
=============================================================================
