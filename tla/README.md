# FreshDash in TLA+

FreshDash is a grocery delivery backend: a Django REST application with Socket.IO, served by
uvicorn over PostgreSQL (`render.yaml`, `config/settings.py`). This directory holds a
specification of the parts of it that decide something: about orders, money, deliveries and
stock, about accounts and one-time codes, carts, addresses and prices, and about who is told what.
TLC configurations check it on small instances, and machine-checked proofs carry the most
important results to every instance.

What makes this program hard is not any one handler, each of which is short, but that **no
request runs in a transaction** (`ATOMIC_REQUESTS` is not set; only `create_order` is decorated
with `transaction.atomic`). Every ORM call is its own committed statement. Handlers read a row,
decide on it in memory, save *every column* of it, and trigger signal handlers that write other
tables. The specifications model exactly that: a request is a record of where it stands and which
rows it holds, and each action is one database statement with the Python around it.

## The system

| component | state | operations | who talks to it |
|---|---|---|---|
| order status machine (`orders/services/status.py`, `orders/signals.py`) | `orders.status`, `orders.payment_status`, `order_status_logs` | `transition_order`, `on_status_log` | called by every view that moves an order; writes the ledger, notifies |
| seller and buyer views (`orders/views.py`) | none of their own | accept, prepare, ready, reject; cancel | status machine, restock, payments, assignments |
| order placement and stock (`create_order.py`, `restock.py`) | `products.stock_count`, `in_stock`; the new order | `create_order` (one transaction with row locks), `restock_order_items` (no lock) | competes with the seller's edits of the same rows |
| seller inventory (`catalog/views.py`, `stores/views.py`) | `products`, `stores.is_open` | post, put, delete, open/close | order placement |
| payments (`payments/views.py`, `payments/services.py`) | `payments`, `orders.payment_status` | create, confirm, webhook (captured, failed), `mark_payment_paid` | payment provider, buyer, cancellation |
| ledger (`payments/services.py`) | `ledger_entries` | charge, refund, payout, earning: each a check and an insert | status machine, payments |
| delivery (`delivery/services.py`, `delivery/views.py`) | `delivery_assignments` | automatic assignment, pickup, deliver, position | seller's ready, partner, status machine |
| bidding board (`delivery/views.py`) | `delivery_bids`, `delivery_assignments` | bid, accept | competes with the automatic assignment |
| notifications, push, sockets | `notifications`, rooms | fan-out per status and role, subscribe | called by the status machine and by `create_order`; a failure ends the request that caused it |
| one-time codes, accounts | `otp_challenges`, `users`, profiles, stores, counters in the cache | send, verify; sign up, register, log in, reset, register a device | accounts views, behind the request limit |
| request limit (`middleware/rate_limit.py`) | a counter per client address in the cache | read, compare, write | every request |
| carts, addresses | `carts`, `addresses` | synchronise; create, edit, delete, make default | their views; the checkout preview |
| prices and coupons | `coupons`, `products.price` | checkout preview, totals of `create_order` | cart, orders, seller |

What makes each correct: an order moves along `TRANSITIONS` only and closed orders stay closed;
goods leave only with a partner; money moves only after, and always after, the event it is due
to, and once; one partner per order, whoever assigns; a sale takes what is there; a code opens one
door, once, and can be guessed at a limited number of times; an account has the rows of its role;
one default address; a cart is what it was synchronised with; the buyer is charged what was
quoted; everybody is told what happened and nothing else. Which of this the code achieves, and
under which circumstances, is what the runs establish. `PROJECT.json` lists the components with
what is modelled of each, and the hazards by line.

## The modules

| module | models |
|---|---|
| `OrderTypes` | the enumerations of `models.py` and the table `TRANSITIONS` |
| `OrderDB` | the shared tables as variables, the request record, `Init`, the type invariant |
| `Ledger` | the `record_*` helpers: `LedgerCheck` (exists?) and `LedgerWrite` (insert) |
| `OrderHandlers` | `VendorOrderAction`, `OrderCancel`, `transition_order` (`Allowed`, `SaveOrder`), `on_status_log` (`LogStatus`, `CodPaid`, `LedgerFails`), restock and refund |
| `Delivery` | `CreateAssignment`, `ConfirmPickup`, `ConfirmDeliver`, `SaveAssignment`, `ReadOrder` |
| `Bids` | `BidCreate`/`SaveBid`, `BidAccept`/`AssignBidder`/`AcceptBid`/`RejectOthers` |
| `PaymentHandlers` | `PaymentCreate`/`InsertPayment`, `PaymentPaid`/`MarkPayment`/`MarkOrder`, `PaymentFailed` |
| `FreshDash` | composes all of them: `Arrive`, `Step`, `Crash`; the properties |
| `OrderContract` | the abstract specification: stages gained along the table, and consequences only of gained stages |
| `Inventory` | the stock: `create_order` with row locks against restocking and the seller's new products, edits and deletions |
| `RateLimit` | the counters of both request limits, their expiry, and the history of what they let through |
| `Otp` | `send_otp` and `verify_otp`, statement by statement |
| `Accounts` | the views that send and verify codes, make accounts, set passwords and register devices, behind the middleware; composes the two above |
| `Pricing` | discount, taxes, total and rounding as functions of whole paise: those of `create_order` and those of the preview |
| `CustomerDB` | a customer's rows, the catalogue they refer to, and what others change in it |
| `Addresses`, `Carts`, `Checkout` | the address views; `sync_cart`; the preview and what `create_order` charges |
| `Customer` | composes the three: two devices of one customer |
| `Notify` | the fan-out of one order's statuses, the socket room, the partner's position |
| `FreshDashInv` | the inductive invariants of `FreshDash` |
| `FreshDashProofs` | theorems about orders, whatever overlaps and is cut short |
| `ContractProofs` | that `FreshDash` implements `OrderContract` |
| `SettledProofs` | theorems about orders whose requests run to their end, or come one by one |
| `InventoryProofs`, `AccountsProofs`, `CustomerProofs`, `NotifyProofs` | theorems about the other four specifications |
| `Positions` | lemmas they share: the last of some positions, and the sums that `MapThenSumSet` computes |
| `MCFreshDash`, `MCInventory`, `MCAccounts`, `MCCustomer`, `MCNotify` | constants of the instances |

Everywhere `req[w]` is the request worker `w` serves: `pc` is the statement it executes next, and
the other fields are what it has **read and still holds**. `Begin` (`Arrive` in `Accounts`) is a
request's first read together with the guards of the view; a request the guards refuse changes
nothing and is not modelled. Every other action is one database statement with the Python up to
the next. Operators whose comment begins with "Faulty variant" are used by no specification: they
are the plausible bugs each property was tried against.

**Orders.** In the modules under `FreshDash`, `kind` is the handler, `row` and `asg` are the order
and the assignment as the request read them, `due` the ledger entries it still has to record.
Where two reads follow each other with no write of ours between them and the second one's outcome
implies the first's, they are one step (said at `Bids`). `SaveOrder` writes `row` with the new
status: this is how a stale column gets back into the table. `on_status_log` runs inside
`OrderStatusLog.objects.create`, so `LogStatus` is followed by the steps of the signal handler.
Three things are abstracted: ids, names and texts; amounts, except whether one is 0
(`ZeroAmount`, because `_write` skips those); and times, except whether a stamp is set.
`transition_order` lets a superuser pass its guard; the views that move an order demand a seller,
a partner or the buyer of an order still cancellable, and `create_superuser` makes none of the
first two, so `Allowed` is the table alone. `reached` is a history variable: every status an
order's row has ever held. `Crash` cuts a request anywhere: a killed process, a lost connection,
or an exception nothing catches, such as a failing notification (`notify_order_status` stands
outside the `try` in `on_status_log`). `LedgerFails` is the exception that the `try` swallows.

**Stock.** `Inventory` follows PostgreSQL at READ COMMITTED: a row selected FOR UPDATE belongs to
the transaction until it ends, a plain UPDATE waits for it, a plain SELECT does not. All writes of
`create_order` go to rows it has locked or inserted, so they are one step, `CommitOrder`. The
database breaks a circle of waiting transactions by aborting one (`DeadlockVictim`). A cart is any
sequence of lines: it may name a product twice, and then both lines are judged by the same count
and the last one alone is subtracted (`Left`); it may ask for 0, which the code accepts, or for
less, which passes the stock check and is refused by the column (`Insertable`). An order that
mixes stores is refused like one that lacks stock. A product that does not exist yet reads like a
deleted one; the seller's request for a new one may collide with another. `balance` is a history
variable, what the count ought to be, and `regular` says that requests have run one by one, to
their end, for distinct products. On SQLite, the default without `DATABASE_URL`, writers exclude
one another anyway.

**Codes and accounts.** `Accounts` is one client address, one phone and one e-mail address.
Code `i` is the code of the `i`-th challenge and a guess may be any code, so whether a message
arrives or is read by somebody else is left open. A counter in the cache is a count and the ticks
it has left; `Tick` lets time pass for counters and challenges alike. `recent`, `accepted`,
`guessed`, `registered` and `overlapped` are history variables. The tokens a login answers with
and the hashing of passwords are not represented: a password is the challenge it was set with.

**A customer.** `Customer` has the addresses, the cart and the checkout of one customer, whose
devices send requests at once while a seller changes prices and products and the coupon runs out.
Amounts are exact: one unit is a ten-thousandth of a paisa, so that no rate has to be rounded
before the row is stored, and `Nearest` gives every result databases round to. A quantity of the
cart is a number, a coupon the four columns that decide. `synced`, `quote` and `bill` remember what
the cart was to be, what the client was shown and what was charged.

**Telling.** `Notify` follows one order from `create_order` (whose announcements leave before its
transaction commits) to its end, with as much of the order's life as decides who is told; ledger
and stock are left out. A notification is its row; the event for the user's room goes with it.
What the push service does is unknown and nothing is heard of it; what is emitted to a room
without a subscriber is lost.

## The runs

| run | instance | shows |
|---|---|---|
| `faults` | 2 workers, 1 order, 1 payment, 1 partner, 1 cancellation, 1 fault | `StagesInOrder`, `HandedToPartner`, `MoneyFollowsGoods`, `EntriesBounded` whatever overlaps and is cut; the handlers implement `OrderContract` (`KeepsPromise`) |
| `overlap` | the same without faults, with fairness | payment status and ledger agree when the order is quiet (`CollectedIsCharged`); deliveries pay, captures charge, cancellations restock in the end |
| `one_by_one` | 1 worker, 2 payments, 2 bidding partners, 2 cancellations, a free delivery | what holds when requests do not overlap: the table is followed, nothing is booked or restocked twice, deliveries are settled, captures stick, bids are settled |
| `bidding` | 2 workers, 2 bidding partners, 1 fault | one partner gets the order and keeps it, between two acceptances and the automatic assignment |
| `stock` | 2 workers, 2 products, 2 orders from 5 carts, a return, a new product, an edit, a deletion and a fault, 4 of these in all | sales are exact (`SaleIsExact`), copies under lock are current, everybody is answered although orders lock in opposite order; one by one the count adds up and deletions stay |
| `accounts` | 2 workers, 3 requests of 7 views and any number that are refused a code, 2 attempts, 1 code a window, 2 requests a window, a fault, time | `OpenBounded`, `CodeUsesBounded`, `PasswordByReset`, `AccountsWhole` whatever overlaps; `GuessesBounded`, `LimitKept`, `DeviceKept` one by one; a lockout ends although the phone goes on asking for ever (`LockoutEnds`) |
| `customer` | 2 workers, 3 addresses, 2 products, 4 payloads, 3 coupons, 3 requests, 1 change | default addresses are bounded, the cart is what was synchronised, the charge is the quote, a bill adds up, deleted addresses stay deleted |
| `notify` | 2 workers, 2 partners, 2 positions, 1 fault, 6 log entries | nobody is told what has not happened (`OnlyWhatHappened`), buyer and seller are told of all that concerns them and the partner of assignment and delivery and, when no moves of the order meet, of its cancellation (`EverybodyTold`), a subscriber's screen follows the tables (`ScreenFollows`) |
| `refund_ledger` | violation | a cancelled, paid order gets no refund entry |
| `reject_paid` | violation | an order that is paid and then rejected by its seller is not refunded at all |
| `stale_accept` | violation | an accept that overlaps a cancellation reopens the cancelled order |
| `steady_client` | violation | a client within the rate limit is refused, because every request renews the counter's expiry |

Each violation run checks one sentence of a comment, a message, a setting or a document against
the code and is a finding in `PROJECT.json`, with the line.

Many properties come in two strengths. What the tables cannot enforce holds only as long as
requests are served one by one, and then the property says so (`~overlapped`, `regular`, "one
worker"); where overlapping requests can only do limited damage, the property states the limit
(`EntriesBounded`, `OpenBounded`, `CodeUsesBounded`, `DefaultsBounded`: as many as are served at
a time). Met on the way, and no contradiction to anything the repository says of itself:

- a save that overlaps a capture makes the order forget the payment (`CaptureSticks` is checked
  one by one for that reason), a bid written late stays open on an assigned order, and a restock
  that overlaps a sale loses the sale;
- the preview taxes 5 per cent whatever `TAX_RATE` says: `QuoteIsCharge` is about the default;
- a fixed coupon is not capped by the subtotal and a percentage not by 100: `BillAddsUp` names
  the coupons that leave the delivery to pay; the slot's fee is shown and never charged; placing
  an order leaves the cart as it is;
- of a product that an order names twice only the last line is taken from stock; returning an
  order of zero lists a sold-out product (`SoldOutHidden` leaves these out);
- a rejection that overlaps the seller's ready may be told before the partner is assigned:
  `create_assignment_for_order` (`delivery/services.py:9`) asks only whether there is an
  assignment, and the partner is then never told that the pickup is cancelled, although
  `STATUS_COPY` (`notifications/services.py:58`) has a text for it (`EverybodyTold` says of the
  partner's cancellation only what holds when no two moves of the order meet);
- a signup that is cut short leaves a seller without a store whose phone cannot sign up again
  (`AccountsWhole` is about signups that are not cut).

**Bounds.** One order suffices because no handler of the order modules touches two; likewise one
phone, one customer and one store. Two workers are the smallest number that overlaps, and every
read-decide-write in the code involves one request in the middle and one that runs past it; the
proofs then cover every number. `MaxRestocks` bounds cancellations per order, `MaxFaults` and
`Limit["fault"]` requests that are cut, `Payments` the payments asked for, `Limit` the requests per
kind and `MaxRequests` all of them in `Inventory`, `MaxRequests` the requests in `Accounts` and
`Customer` (in `Accounts` those that are not refused a code: `AskCode` gives a refused one back), `MaxChanges` what others change there, `MaxLogs` the status changes in `Notify` (six
take an order to its end). In the order modules every other request may come any number of times:
confirmations, webhooks, failure events, payments of cash orders and moves are not bounded, and
neither are positions and subscriptions in `Notify`. Two products in both orders are enough for a
circle of locks; counts 0 and 2 with lines of 1 and 2 sell out, refuse, and leave a rest. In
`Accounts` three requests are one to send a code and two that use it, or two that send one and one
that uses it; a phone may start with a code sent, which adds a fourth. Limits of 1 and 2 with
windows of 2 and 1 ticks refuse, expire and admit again within these. The coupons of `customer`
are a percentage, a capped percentage with a minimum, and a fixed value that equals its minimum;
its prices make fractions of a paisa and a subtotal below the minimum. Workers, payments, partners,
addresses and positions are interchangeable where a run declares symmetry; none that checks a
liveness property does.

**Fairness.** In `FreshDash` and `Inventory`, `FairSpec` says only that a request once taken is
run on, statement by statement (`WF_vars(Step(w))`): the server does not drop requests of its own
accord. Nobody has to send a request, and faults are off (`overlap`) or bounded (`stock`). In
`Inventory` fairness of a step includes getting a lock that stays free; as requests are bounded no
lock is taken forever again, so weak fairness is enough, and PostgreSQL serves waiters in turn. In
`Accounts` only the clock is fair (`WF_vars(Tick)`): `LockoutEnds` needs nobody to be
answered. As refused requests use up no bound, a locked phone can ask at every tick for ever; were
a refusal to renew the expiry (`ReadCountRenew`, its mutant), the lockout would never end.

## What is proved

Every safety property that a passing run checks, invariant or action property, is also a theorem,
and so is the refinement `KeepsPromise`. All theorems hold for every value of the constants that
the named assumptions allow: any number of orders, products, partners, requests of a phone,
workers, faults. Hardly any of the properties is inductive by itself, because a handler acts on
what it read some statements ago. Each proof rests on an invariant, usually named `IInv`, that says
what a request knows and keeps true at each of its statements; a lemma per action shows that it is
kept, and the theorems follow by temporal logic. Every invariant was itself checked with TLC first.

| module | theorem | states |
|---|---|---|
| `FreshDashProofs` | `NoStageSkipped`, `LeavesWithPartner`, `BidderDelivers`, `PartnerStays`, `MoneyAfterGoods`, `EntriesNoMoreThanWorkers`, `TypeCorrect` | `StagesInOrder`, `HandedToPartner`, `BidderCarries`, `PartnerKept`, `MoneyFollowsGoods`, `EntriesBounded`, `TypeOK` |
| `ContractProofs` | `HandlersKeepPromise` | `KeepsPromise` |
| `SettledProofs` | `CollectionsAreCharged`, `NothingLeftOwed` (to the end); `StatusInOrder` (one worker); `NothingTwice`, `DeliveriesSettle`, `BoardSettles`, `CapturesStick` (both) | `CollectedIsCharged` (and `NothingOwed`); `StatusFollowsTable`; `OnceEach`, `DeliveredIsSettled`, `BidsSettled`, `CaptureSticks` |
| `InventoryProofs` | `LockedIsCurrent`, `SalesExact`, `ShelfShown`, `DeletedForGood`, `CountsAddUp`, `TypeCorrect` | `HeldIsCurrent`, `SaleIsExact`, `SoldOutHidden`, `DeletedStays`, `StockAddsUp`, `TypeOK` |
| `AccountsProofs` | `OpenChallenges`, `CodeUses`, `PasswordOnlyByReset`, `WholeAccounts`, `GuessesLimited`, `DeviceStays`, `LimitsKept` | `OpenBounded`, `CodeUsesBounded`, `PasswordByReset`, `AccountsWhole`, `GuessesBounded`, `DeviceKept`, `LimitKept` |
| `CustomerProofs` | `FewDefaults`, `ChargedAsQuoted`, `StoredBillAddsUp`, `CartSynced`, `AddressesStayGone`; `PartsAddUp`, about the arithmetic alone | `DefaultsBounded`, `QuoteIsCharge`, `BillAddsUp`, `CartAsSynced`, `AddressStaysGone` |
| `NotifyProofs` | `ToldOnlyWhatHappened`, `NobodyForgotten`, `SubscribersFollow` | `OnlyWhatHappened`, `EverybodyTold`, `ScreenFollows` |

### Orders

`FreshDashProofs` (from `ConstantsAssumption`). The parts of its `IInv` (`FreshDashInv`):

- `Shape`: which handler can stand at which statement;
- `Stages`: a held row's status has been reached, the pending move leads from it along the table,
  and a request past its save has reached its target;
- `Carrying`: a confirmation is about an assigned order and writes back that very partner, and a
  bidder about to be marked accepted is the one assigned; `BidsOnReady`: bids are for orders that
  have been ready;
- `Owing`: every entry a request still has to record is due to what it has done;
- `EntryRoom`: the entries that exist, together with the requests told that there is none and
  about to insert one, are no more than the workers.

`Stages` is the heart of it: since only `reached` grows, a stale row can bring an old status back
but never one that leads over a stage.

`ContractProofs` maps the variables of `OrderContract` one by one (`Billed`, `Booked`,
`Returned`, ...) and shows that the first state is one of the contract's and that every step is a
step of the contract or a stutter. Five kinds of statement are no stutter: a save gains a stage that
`Stages` says may follow one already gained, and the inserts of an assignment, a payment, an entry
and the return of the stock come after the stage or payment that `IInv` says they are due to.

`SettledProofs` adds hypotheses, each a statement about the constants of the instance:
`ToTheEnd` (`MaxFaults = 0`: no request is cut short) and `OneWorker` (no two requests overlap).
They are what the properties are about, and the runs `overlap` and `one_by_one` are instances.

- To the end, whatever overlaps (`EndsInv`): on delivery, what is owed is recorded or is owed by a
  request that is recording it (`DeliveryPays`), an order ever cancelled has its items back or a
  request that returns them (`CancelReturns`), a captured payment is charged or in the hands of a
  request that charges it or is about to (`CapturePays`, with `PaymentsHeld`: the payment that
  mark_payment_paid holds stays one of its order); and an order that nobody is charging and that has
  no charge is `Uncollected`: neither its row nor *any copy of it that a request holds* says paid.
  That clause about copies is why a stale save cannot produce a paid order without a charge,
  although it can forget a payment.
- One by one (`AloneInv`): `RowCurrent`, the row a request holds is the order's; `Stamps`, the
  assignment was stamped before the order moved; `StockReturns`, an order has been restocked
  exactly when it is cancelled and nobody is about to; `Capturing`, a payment that stands as paid
  is known to its order or is about to be told to it, and a cancellation has marked every payment
  before the order; `Settling`, an acceptance that has not yet rejected the others is the only one.
  `StatusInOrder` needs `RowCurrent` alone and therefore allows requests to be cut short.

### Stock

`InventoryProofs` (from `StockAssumption`): `LockedIsCurrent`, what a request that places an order
has read is what the rows still say; and `SalesExact`, a sale takes of each product exactly its
last line's quantity from what is there, of listed products, while the store is open, and touches
no other product: for any carts, those that name a product several times or ask for nothing
included. `IInv` has `Standing` (how far a request is in its lines, that every row it holds was
found to suffice, that the store of a request about to commit is open) and `Sound` (only what
could be inserted has been sold, and nobody holds a row that does not exist). A step that moves its
own request soundly and disturbs nothing that another has locked keeps it (`AlmostDone`);
`LockProductStep` shows that a row joins a request together with its lock, `LeftIsRow` that a
commit writes only rows it has locked and never below zero, `SaveStep` that the writers without a
transaction wait for the lock. The last line of a product needs `MaxExists` (`Positions`), from
the well-foundedness of the natural numbers.

`ShelfShown` needs no more than that both columns are written by one statement, and that the
requests that write a row of another making have been counted (`ShelfInv`). `DeletedForGood` has
the edit in hand be of a product that stands (`EditInv`). `CountsAddUp` says what the counts are in
the middle of a return (`CountInv`, `Returning`): the lines already put back are in the counts, the
others are not, and the line at hand is added to the count just read; the balance of an order is a
sum over its lines, which for distinct products is the quantity of the only one that names it
(`QuantityIs`, by `SumsFew`).

### Codes and accounts

`AccountsProofs` (from the assumptions of `RateLimit`, `Otp` and `Accounts`). `IInv` has
`Sound(w)`: the challenge a request holds is one of the purpose it was asked for, the account it is
completing is of the role it says, and a request that goes on to set a password has passed a reset
challenge; `Passed`: a challenge that was passed is consumed and stays so; `Whole`: an account is
whole or some request is completing it. The two bounds are their own invariants: inserting a
challenge uses the place of a request that was sending, reading one as open takes a place that a
consumed challenge does not offer.

One by one (`AloneInv`), the attempts that have been saved bound the codes that were compared
(`Judged`), and what the one request has read is what the rows say (`Fresh`). `LimitsKept`
relates a counter, which every request renews, to a window that slides: `Aged` says that a counter
with `ttl` ticks left has let nothing through in its last `Window - ttl` ticks, so that when it expires the
window is empty too; and while it lives it counts at least what the window holds (`LimitInv`), as
does the count that a request has read and not written back (`Admitted`). That the window's sum
loses what is too old when time passes, and gains one when a request is let through, is
`RecentsShifted` and `RecentsOneMore`.

### Customers

`CustomerProofs` (from `CustomerAssumption` and `TaxAssumption`): `FewDefaults`, at most as many
default addresses as requests at a time: clearing leaves none but those that some request has in
hand, and writing one moves it from the requests to the table. `ChargedAsQuoted`: at a tax rate of
5 per cent, `QuoteIsCharge`; `IInv` carries the amounts through the three statements of the
preview and the order, for all prices, fees and coupons. `PartsAddUp`: rounded one by one, the
parts of an order miss its total by a paisa at most, at every tax rate; `StoredBillAddsUp` makes
of it a theorem of the specification: a subtotal is a sum of natural numbers (`SubtotalIs`), a
discount is no more than it unless the coupon is worth more than its minimum or the whole
(`DiscountIs`), and rounding does not lose the fee (`FeeIsPaid`). It needs that a catalogue is
finite, as every table is. `CartSynced`: between two statements of `sync_cart` the cart is to
become what it holds and what still comes of the payload, up to the first entry that clashes
(`Filling`). `AddressesStayGone`: one by one, nobody has a deleted address in hand (`GoneInv`).

### Telling

`NotifyProofs` (from `NotifyAssumption`). For `ToldOnlyWhatHappened`, `Counted` is the argument:
for every user and status, the notifications sent and the requests that still have to send one are
no more than the entries of the log. `Unseen` says that before `create_order` commits nobody but
its own request deals with the order, so that an exception there undoes everything but what has
been pushed and emitted; `Had` that what is logged and emitted the order has been.
`NobodyForgotten` is the converse, for the buyer, for the seller and, of assignment and delivery,
for the partner: notifications and those still to be sent are *as many as* the entries (`Settled`:
a statement changes both sides of that account or neither, `Balanced`). Of a cancellation the
partner hears as long as no two moves of the order have met: then there is none to hear of, for
an order that has been ready is not cancelled any more (`Uncancelled`). A partner becomes one for whom deliveries count at the moment of the assignment;
that the order cannot have been delivered by then is `CarriedFirst`. The assignment itself is told
by the one request that made it (`AssignmentTold`): the second insert fails.
`SubscribersFollow`: as long as no two writers of the order have met, one that has saved a status
and not emitted it is the only one, and the row says what it is about to say (`StatusShown`); a
confirmation writes back the position it read, which nobody has moved meanwhile (`PositionShown`).

### Sums

A total over a set (`MapThenSumSet`) is a recursive function that picks the elements in an order
nobody knows, and induction is out of the provers' reach. `Positions` gets what the proofs need
from the least counterexample instead (`LeastNumber`, from well-foundedness), on the size of the
set or the length of a prefix: such a function exists (`SumsExist`), its values stay in any set
closed under addition (`SumsIn`), over one element at most it is that element (`SumsFew`), any
element may be taken last (`SumsAny`), and over the numbers from 0 to `m` elements may be taken
in turn (`SumsInTurn`), so that shifting drops the last (`SumsShifted`) and one more is one more
(`SumsOneMore`).

### What stays with TLC

Liveness, since neither fairness nor ENABLED is in the prover's reach: `DeliveryIsPaid`,
`CaptureIsCharged`, `CancelReturnsStock`, `EveryoneAnswered`, `LockoutEnds`. Of the first three the
safety half is proved: what is owed is done, or in the hands of a request that is doing it
(`DeliveryPays`, `CapturePays`, `CancelReturns`), so nothing is owed when nobody is busy
(`NothingLeftOwed`). That the request goes on is the fairness that `FairSpec` states.

## Not modelled, and what is left

- Tokens and passwords: issued, checked and blacklisted by single calls into libraries. (Refreshing
  answers with a new access token and the old refresh token stays good, although the settings ask
  for rotation: they are the library view's, which is not used.)
- The partner's online flag orders the candidates of the automatic assignment, which may take
  any partner here, or find none; the read flag of a notification is set by its owner and decides
  nothing.
- Signature checks of payments happen before the actions and their outcome is taken for granted.
- Stores, search, listings, dashboards and serialisers only read; seed data, the admin site and
  migrations are operated by hand or generated.
- The range of display ids: the collision of two is a refused insert (`Fail`), the loop that never
  ends once all 9000 are used is not modelled.

What would come next: abstract specifications of the stock, of the codes and of who is told what,
in the manner of `OrderContract`, and the refinement of each from the invariants above.
