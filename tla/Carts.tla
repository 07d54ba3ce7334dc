-------------------------------- MODULE Carts --------------------------------
(***************************************************************************)
(* sync_cart: the cart is emptied and refilled, one statement an item.     *)
(***************************************************************************)
EXTENDS CustomerDB

rest == <<address, catalogue, checkout>>

\* An entry that makes an item.
Good(e) == listed[e.p] /\ e.qty > 0

\* What a payload leaves in an empty cart: its good entries, up to the first
\* that names a product again, which the unique pair refuses.
Goods(s)    == {i \in DOMAIN s : Good(s[i])}
Accepted(s) == {i \in Goods(s) : \A j, k \in Goods(s) : j < k /\ k <= i => s[j].p # s[k].p}
Filled(s)   == [p \in Products |->
                  IF \E i \in Accepted(s) : s[i].p = p
                  THEN s[CHOOSE i \in Accepted(s) : s[i].p = p].qty ELSE 0]

CartSync(w) ==
    /\ \E s \in Payloads : Begin(w, [Idle EXCEPT !.pc = "emptyCart", !.lines = s])
    /\ UNCHANGED <<rest, cart, synced>>

EmptyCart(w) ==
    /\ req[w].pc = "emptyCart"
    /\ cart' = [p \in Products |-> 0]
    /\ synced' = Filled(req[w].lines)
    /\ IF req[w].lines = <<>> THEN Answer(w) ELSE Goto(w, "fillCart")
    /\ UNCHANGED <<rest, counted>>

\* Faulty variant: an item that is there already is added to.
FillCartAdd(w) ==
    LET e == Head(req[w].lines) IN
    /\ req[w].pc = "fillCart"
    /\ cart' = IF Good(e) THEN [cart EXCEPT ![e.p] = @ + e.qty] ELSE cart
    /\ IF Len(req[w].lines) = 1 THEN Answer(w) ELSE req' = [req EXCEPT ![w].lines = Tail(@)]
    /\ UNCHANGED <<rest, synced, counted>>

\* The product of the next entry is looked up and its item inserted.  (Nothing
\* is inserted from the product's row: a deletion in between changes nothing.)
\* A second item of a product ends the request.
FillCart(w) ==
    LET e == Head(req[w].lines)
        clash == Good(e) /\ cart[e.p] > 0
    IN
    /\ req[w].pc = "fillCart"
    /\ cart' = IF Good(e) /\ ~clash THEN [cart EXCEPT ![e.p] = e.qty] ELSE cart
    /\ IF clash \/ Len(req[w].lines) = 1 THEN Answer(w)
       ELSE req' = [req EXCEPT ![w].lines = Tail(@)]
    /\ UNCHANGED <<rest, synced, counted>>

-----------------------------------------------------------------------------
\* The cart holds what it was last synchronised with, as long as no two
\* synchronisations have overlapped, in spite of deleted products, quantities
\* that are not positive, and products named twice.
CartAsSynced == Quiet /\ ~overlapped => cart = synced
=============================================================================
