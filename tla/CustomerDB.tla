------------------------------ MODULE CustomerDB -----------------------------
(***************************************************************************)
(* The rows of one customer, and of the catalogue they refer to.  Requests *)
(* of the customer's devices are served Workers at a time, statement by    *)
(* statement.                                                              *)
(***************************************************************************)
EXTENDS Pricing, Sequences, FiniteSets, FiniteSetsExt

CONSTANTS
    Workers,        \* requests that can be served at the same time
    Ids,            \* primary keys of addresses
    Products,       \* the products of one store
    Payloads,       \* what a cart may be synchronised with: sequences of [p, qty]
    Prices,         \* what the products may cost, each a function from Products
    Coupons,        \* what the coupon's row may say
    Fee,            \* the store's delivery fee
    None,           \* "nothing"
    MaxRequests,    \* bound of the model: requests of the customer
    MaxChanges      \* bound of the model: changes others make to the catalogue

VARIABLES
    address,        \* the addresses: "new" is a key not used yet
    cart,           \* the quantity of each product in the cart, 0 without an item
    price, listed,  \* of each product: what it costs, whether it is not deleted
    coupon,         \* the coupon's row
    req,            \* the request each worker serves
    synced,         \* history: what the cart was last to be
    quote,          \* the preview the client was shown last
    bill,           \* the order placed last
    overlapped,     \* history: two requests, or a change, met in mid-request
    requests, changes

vars == <<address, cart, price, listed, coupon, req, synced, quote, bill, overlapped,
          requests, changes>>

Line == [p : Products, qty : Int]

ASSUME CustomerAssumption ==
    /\ IsFiniteSet(Workers) /\ Workers # {} /\ IsFiniteSet(Ids) /\ IsFiniteSet(Products)
    /\ Payloads \subseteq Seq(Line) /\ <<>> \in Payloads
    /\ Prices \subseteq [Products -> Nat]
    /\ Coupons \subseteq Coupon
    /\ Fee \in Nat

catalogue == <<price, listed, coupon>>
counted   == <<overlapped, requests, changes>>
checkout  == <<quote, bill>>

PCs  == {"idle", "clear", "insert", "clearOthers", "save", "delete", "emptyCart", "fillCart",
         "quoteCoupon", "quoteAddress", "placeOrder"}
Idle == [pc |-> "idle", id |-> None, flag |-> "plain", lines |-> <<>>, code |-> FALSE, draft |-> None]

Quiet == \A w \in Workers : req[w].pc = "idle"

\* A request of the customer, from its first statement.
Begin(w, r) ==
    /\ req[w].pc = "idle"
    /\ requests < MaxRequests
    /\ requests' = requests + 1
    /\ overlapped' = (overlapped \/ ~Quiet)
    /\ req' = [req EXCEPT ![w] = r]
    /\ UNCHANGED changes

Answer(w)   == req' = [req EXCEPT ![w] = Idle]
Goto(w, pc) == req' = [req EXCEPT ![w].pc = pc]

-----------------------------------------------------------------------------
\* A seller edits a price or deletes a product; the coupon runs out or is
\* switched off.
Change ==
    /\ changes < MaxChanges
    /\ changes' = changes + 1
    /\ overlapped' = (overlapped \/ ~Quiet)
    /\ \/ price' \in Prices /\ UNCHANGED <<listed, coupon>>
       \/ \E p \in Products : listed' = [listed EXCEPT ![p] = FALSE] /\ UNCHANGED <<price, coupon>>
       \/ coupon' = [coupon EXCEPT !.active = FALSE] /\ UNCHANGED <<price, listed>>
    /\ UNCHANGED <<address, cart, req, synced, checkout, requests>>
=============================================================================
