------------------------------ MODULE Checkout -------------------------------
(***************************************************************************)
(* CheckoutPreviewView, and create_order as far as it decides what is paid *)
(* (Inventory has its locks and its stock).                                *)
(***************************************************************************)
EXTENDS CustomerDB

DefaultAddress == {a \in Ids : address[a] = "default"}
tables == <<address, cart, catalogue, synced>>

SubtotalOf(lines, prices) == LET cost(p) == lines[p] * prices[p] IN MapThenSumSet(cost, Products)

\* GET preview: the items of the cart with their products, deleted or not.
PreviewCart(w) ==
    /\ \E code \in BOOLEAN :
          Begin(w, [Idle EXCEPT !.pc = "quoteCoupon", !.code = code,
                      !.draft = [lines |-> cart, prices |-> price, subtotal |-> SubtotalOf(cart, price)]])
    /\ UNCHANGED <<tables, checkout>>

\* The coupon's discount; a coupon that is not valid is dropped silently.
Used(w, subtotal)    == req[w].code /\ Valid(coupon, subtotal)
DiscountOf(b, subtotal) == IF b THEN Discount(coupon, subtotal) ELSE 0

PreviewCoupon(w) ==
    LET s == req[w].draft.subtotal IN
    /\ req[w].pc = "quoteCoupon"
    /\ req' = [req EXCEPT ![w].pc = "quoteAddress", ![w].code = Used(w, s),
                          ![w].draft = [lines |-> @.lines, prices |-> @.prices, subtotal |-> s,
                                        coupon |-> coupon, discount |-> DiscountOf(Used(w, s), s)]]
    /\ UNCHANGED <<tables, checkout, counted>>

\* The fee, the address, and the sum; an empty cart has a fee of its own.
EmptyFee == 2900
PreviewAddress(w) ==
    LET d   == req[w].draft
        fee == IF \E p \in Products : d.lines[p] > 0 THEN Fee ELSE EmptyFee
    IN
    /\ req[w].pc = "quoteAddress"
    /\ \E a \in IF DefaultAddress = {} THEN {None} ELSE DefaultAddress :
          quote' = [lines |-> d.lines, prices |-> d.prices, code |-> req[w].code, coupon |-> d.coupon,
                    address |-> a,
                    total |-> Total(d.subtotal, d.discount, fee, PreviewTaxes(d.subtotal, d.discount))]
    /\ Answer(w)
    /\ UNCHANGED <<tables, bill, counted>>

-----------------------------------------------------------------------------
\* The client places what it was quoted, for delivery to the address shown or
\* another one.  The address is read first.
PlaceOrder(w) ==
    /\ quote # None
    /\ \E p \in Products : quote.lines[p] > 0
    /\ \E a \in Ids : /\ address[a] \in {"plain", "default"}
                      /\ Begin(w, [Idle EXCEPT !.pc = "placeOrder", !.id = a, !.code = quote.code,
                                              !.draft = quote])
    /\ UNCHANGED <<tables, checkout>>

\* The order as it is stored: every part rounded by itself.
Stored(s, d) ==
    LET t == Taxes(s, d) IN
    {[subtotal |-> s, discount |-> dd, taxes |-> tt, total |-> n] :
        dd \in Nearest(d), tt \in Nearest(t), n \in Nearest(Total(s, d, Fee, t))}

\* The rows of the products are locked; a deleted product or a coupon that is
\* not valid any more refuses the order, as may the stock and the store.
CommitOrder(w) ==
    LET q == req[w].draft
        s == SubtotalOf(q.lines, price)
    IN
    /\ req[w].pc = "placeOrder"
    /\ \/ /\ \A p \in Products : q.lines[p] > 0 => listed[p]
          /\ req[w].code => Valid(coupon, s)
          /\ \E o \in Stored(s, DiscountOf(req[w].code, s)) :
                bill' = [quote |-> q, prices |-> price, coupon |-> coupon, order |-> o]
       \/ UNCHANGED bill
    /\ Answer(w)
    /\ UNCHANGED <<tables, quote, counted>>

-----------------------------------------------------------------------------
Apart(m, n, most) == m - n \in -most .. most

\* The buyer is charged what the preview said, to the paisa, if neither the
\* prices nor the coupon are others than the preview saw: the two compute it in
\* different places.  (As long as TAX_RATE is the preview's 5 per cent.)
QuoteIsCharge ==
    bill # None /\ bill.prices = bill.quote.prices /\ bill.coupon = bill.quote.coupon =>
        IsRounded(bill.order.total, bill.quote.total)

\* The parts of a stored order add up to its total, but for a paisa; and a coupon
\* that is not worth more than its minimum order, or than the whole of it, leaves
\* the delivery to pay.
BillAddsUp ==
    bill # None =>
        LET o == bill.order IN
        /\ Apart(o.total, o.subtotal - o.discount + Fee + o.taxes, 1)
        /\ bill.coupon.value <= (IF bill.coupon.type = "fixed" THEN bill.coupon.min ELSE 100)
              => o.total >= Fee
=============================================================================
