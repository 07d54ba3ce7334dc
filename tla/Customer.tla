------------------------------- MODULE Customer ------------------------------
(***************************************************************************)
(* A customer's addresses, cart and checkout together.                     *)
(***************************************************************************)
EXTENDS Addresses, Carts, Checkout

Init ==
    /\ \E a \in Ids : address = [i \in Ids |-> IF i = a THEN "default" ELSE "new"]
    /\ cart = [p \in Products |-> 0] /\ synced = cart
    /\ price \in Prices
    /\ listed = [p \in Products |-> TRUE]
    /\ coupon \in Coupons
    /\ req = [w \in Workers |-> Idle]
    /\ quote = None /\ bill = None
    /\ overlapped = FALSE
    /\ requests = 0 /\ changes = 0

Arrive(w) == \/ AddressPost(w) \/ AddressPut(w) \/ AddressDelete(w)
             \/ CartSync(w) \/ PreviewCart(w) \/ PlaceOrder(w)

Step(w) == \/ ClearDefaults(w) \/ ClearOthers(w) \/ SaveAddress(w) \/ DeleteAddress(w)
           \/ EmptyCart(w) \/ FillCart(w)
           \/ PreviewCoupon(w) \/ PreviewAddress(w) \/ CommitOrder(w)

\* A request is cut short; only create_order, which writes at its end, is a
\* transaction.
Fail(w) == /\ req[w].pc # "idle"
           /\ overlapped' = TRUE
           /\ Answer(w)
           /\ UNCHANGED <<address, cart, catalogue, synced, checkout, requests, changes>>

\* The customer asks for nothing more.
Rest == Quiet /\ requests = MaxRequests /\ UNCHANGED vars

Next == Change \/ Rest \/ \E w \in Workers : Arrive(w) \/ Step(w) \/ Fail(w)

Spec == Init /\ [][Next]_vars

-----------------------------------------------------------------------------
TypeOK ==
    /\ address \in [Ids -> {"new", "plain", "default", "gone"}]
    /\ cart \in [Products -> Nat] /\ synced \in [Products -> Nat]
    /\ price \in Prices /\ listed \in [Products -> BOOLEAN] /\ coupon \in Coupon
    /\ \A w \in Workers : /\ req[w].pc \in PCs /\ req[w].id \in Ids \cup {None}
                          /\ req[w].flag \in {"plain", "default"} /\ req[w].lines \in Seq(Line)
    /\ overlapped \in BOOLEAN
=============================================================================
