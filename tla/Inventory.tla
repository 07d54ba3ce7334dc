------------------------------ MODULE Inventory -------------------------------
(***************************************************************************)
(* The stock of a store: create_order takes products off the shelf in a    *)
(* transaction that locks their rows, and restock_order_items, the         *)
(* seller's edits and deletions change the same rows without a lock.       *)
(*                                                                         *)
(* PostgreSQL at READ COMMITTED: a locked row is seen and written by its   *)
(* holder alone until the transaction ends; a plain SELECT sees the        *)
(* committed row; a plain UPDATE waits for the row's lock.                 *)
(***************************************************************************)
EXTENDS Integers, Sequences, FiniteSets, FiniteSetsExt

CONSTANTS
    Products,       \* the products of one store
    Store,          \* the row of that store
    Workers,        \* requests that can be served at the same time
    Carts,          \* what an order may ask for: sequences of lines [p, qty]
    Counts,         \* stock counts a seller enters, and starts with
    Starts,         \* the sets of products the store may start with
    Limit,          \* bound of the model: how many requests of each kind, and faults
    MaxRequests,    \* bound of the model: how many requests and faults in all
    None            \* "nobody"

Kinds == {"place", "return", "post", "put", "delete"}
PCs   == {"idle", "lockProduct", "lockStore", "commit", "readItem", "saveItem",
          "insertProduct", "savePut", "saveDelete"}
Line  == [p : Products, qty : Int]
Row   == [count : Nat, shown : BOOLEAN, deleted : BOOLEAN]

VARIABLES
    product,    \* the products table, as committed
    created,    \* the products that have a row; the others read like deleted ones
    storeOpen,  \* stores.is_open
    lock,       \* the transaction that holds each row's lock
    placed,     \* how many orders of each cart are placed and not cancelled
    req,        \* the request each worker is serving
    balance,    \* history: the count each product ought to have
    regular,    \* history: requests ran one by one to their end, of distinct products
    served      \* how many requests of each kind, and how many faults

vars == <<product, created, storeOpen, lock, placed, req, balance, regular, served>>

ASSUME StockAssumption ==
    /\ Store \notin Products /\ None \notin Workers
    /\ \A c \in Carts : c # <<>> /\ c \in Seq(Line)
    /\ Counts \subseteq Nat
    /\ Starts \subseteq SUBSET Products
    /\ Limit \in [Kinds \cup {"fault"} -> Nat]

\* lines: the order's items, or the one product to be changed; rows: the copies
\* of their rows this request holds; counted: the seller entered a stock count.
Idle == [pc |-> "idle", lines |-> <<>>, rows |-> <<>>, counted |-> FALSE]
Request == [pc : PCs, lines : Seq(Line), rows : Seq(Row), counted : BOOLEAN]

Typed ==
    /\ product \in [Products -> Row]
    /\ created \subseteq Products
    /\ storeOpen \in BOOLEAN
    /\ lock \in [Products \cup {Store} -> Workers \cup {None}]
    /\ placed \in [Carts -> Nat]
    /\ req \in [Workers -> Request]
    /\ served \in [Kinds \cup {"fault"} -> Nat]

TypeOK == Typed /\ balance \in [Products -> Int] /\ regular \in BOOLEAN

Listing(n, b) == [count |-> n, shown |-> b, deleted |-> FALSE]
NoRow == [count |-> 0, shown |-> FALSE, deleted |-> TRUE]

Init ==
    /\ created \in Starts
    /\ \E f \in [created -> Counts] :
          product = [p \in Products |-> IF p \in created THEN Listing(f[p], f[p] > 0) ELSE NoRow]
    /\ storeOpen = TRUE
    /\ lock = [r \in Products \cup {Store} |-> None]
    /\ placed = [c \in Carts |-> 0]
    /\ req = [w \in Workers |-> Idle]
    /\ balance = [p \in Products |-> product[p].count]
    /\ regular = TRUE
    /\ served = [k \in Kinds \cup {"fault"} |-> 0]

-----------------------------------------------------------------------------
Quiet == \A w \in Workers : req[w].pc = "idle"

Served == LET n(k) == served[k] IN MapThenSumSet(n, DOMAIN served)

Begin(w, kind, r) == /\ req[w].pc = "idle"
                     /\ served[kind] < Limit[kind] /\ Served < MaxRequests
                     /\ served' = [served EXCEPT ![kind] = @ + 1]
                     /\ req' = [req EXCEPT ![w] = r]
                     /\ regular' = (regular /\ Quiet)

Answer(w) == req' = [req EXCEPT ![w] = Idle]

Free(r, w) == lock[r] \in {None, w}
Release(w) == lock' = [r \in DOMAIN lock |-> IF lock[r] = w THEN None ELSE lock[r]]

\* The line that comes next, and the one whose row was read last.
NextLine(w) == req[w].lines[Len(req[w].rows) + 1]
LastLine(w) == req[w].lines[Len(req[w].rows)]
LastRow(w)  == req[w].rows[Len(req[w].rows)]
AllRead(q)  == Len(q.rows) = Len(q.lines)

LinesOf(c, p)   == {i \in DOMAIN c : c[i].p = p}
Quantity(c, p)  == LET qty(i) == c[i].qty IN MapThenSumSet(qty, LinesOf(c, p))

-----------------------------------------------------------------------------
(* create_order                                                            *)

\* The transaction is rolled back and its locks are let go.
Rollback(w) == Release(w) /\ Answer(w)

PlaceOrder(w) ==
    /\ \E c \in Carts : Begin(w, "place", [Idle EXCEPT !.pc = "lockProduct", !.lines = c])
    /\ UNCHANGED <<product, created, storeOpen, lock, placed, balance>>

\* Faulty variant: a product that is listed can be had in any quantity.
SellableListed(l) == ~product[l.p].deleted

Sellable(l) == ~product[l.p].deleted /\ product[l.p].count >= l.qty

\* Faulty variant: the row is read without waiting for its lock.
ReadProduct(w) ==
    LET l == NextLine(w)
        q == [req[w] EXCEPT !.rows = Append(@, product[l.p])]
    IN
    /\ req[w].pc = "lockProduct"
    /\ \/ /\ Sellable(l)
          /\ req' = [req EXCEPT ![w] = [q EXCEPT !.pc = IF AllRead(q) THEN "lockStore" ELSE @]]
          /\ UNCHANGED lock
       \/ /\ ~Sellable(l)
          /\ Rollback(w)
    /\ UNCHANGED <<product, created, storeOpen, placed, balance, regular, served>>

\* SELECT ... FOR UPDATE of the product of the next line, and its checks.
LockProduct(w) ==
    LET l == NextLine(w)
        q == [req[w] EXCEPT !.rows = Append(@, product[l.p])]
    IN
    /\ req[w].pc = "lockProduct"
    /\ Free(l.p, w)
    /\ \/ /\ Sellable(l)
          /\ lock' = [lock EXCEPT ![l.p] = w]
          /\ req' = [req EXCEPT ![w] = [q EXCEPT !.pc = IF AllRead(q) THEN "lockStore" ELSE @]]
       \/ /\ ~Sellable(l)
          /\ Rollback(w)
    /\ UNCHANGED <<product, created, storeOpen, placed, balance, regular, served>>

\* Faulty variant: a refused order keeps its locks.
LockStoreLeak(w) ==
    /\ req[w].pc = "lockStore"
    /\ Free(Store, w)
    /\ \/ /\ storeOpen
          /\ lock' = [lock EXCEPT ![Store] = w]
          /\ req' = [req EXCEPT ![w].pc = "commit"]
       \/ /\ Answer(w)
          /\ UNCHANGED lock
    /\ UNCHANGED <<product, created, storeOpen, placed, balance, regular, served>>

\* SELECT ... FOR UPDATE of the store.  A coupon may be refused in any case.
LockStore(w) ==
    /\ req[w].pc = "lockStore"
    /\ Free(Store, w)
    /\ \/ /\ storeOpen
          /\ lock' = [lock EXCEPT ![Store] = w]
          /\ req' = [req EXCEPT ![w].pc = "commit"]
       \/ Rollback(w)
    /\ UNCHANGED <<product, created, storeOpen, placed, balance, regular, served>>

\* What the order of w leaves of product p: each line writes the copy it read,
\* and the last line of a product has the last word.
Left(w, p) ==
    LET q == req[w] IN
    IF LinesOf(q.lines, p) = {} THEN product[p]
    ELSE LET i == Max(LinesOf(q.lines, p))
             n == q.rows[i].count - q.lines[i].qty
         IN [product[p] EXCEPT !.count = n, !.shown = n # 0 /\ q.rows[i].shown]

\* No column takes a negative quantity; zero is let through.
Insertable(c) == \A i \in DOMAIN c : c[i].qty >= 0

Distinct(c) == \A i, j \in DOMAIN c : i # j => c[i].p # c[j].p

\* The order, its items and the new stock become visible at once.  (Other
\* requests see none of the writes before: all their rows are locked.)
CommitOrder(w) ==
    LET c == req[w].lines IN
    /\ req[w].pc = "commit"
    /\ \/ /\ Insertable(c)
          /\ product' = [p \in Products |-> Left(w, p)]
          /\ balance' = [p \in Products |-> balance[p] - Quantity(c, p)]
          /\ placed' = [placed EXCEPT ![c] = @ + 1]
          /\ regular' = (regular /\ Distinct(c))
       \/ /\ ~Insertable(c)
          /\ UNCHANGED <<product, balance, placed, regular>>
    /\ Release(w) /\ Answer(w)
    /\ UNCHANGED <<created, storeOpen, served>>

-----------------------------------------------------------------------------
(* restock_order_items                                                     *)

ReturnOrder(w) ==
    /\ \E c \in Carts :
          /\ placed[c] > 0
          /\ placed' = [placed EXCEPT ![c] = @ - 1]
          /\ balance' = [p \in Products |-> balance[p] + Quantity(c, p)]
          /\ Begin(w, "return", [Idle EXCEPT !.pc = "readItem", !.lines = c])
    /\ UNCHANGED <<product, created, storeOpen, lock>>

\* The product of the next item is read, deleted or not.
ReadItem(w) ==
    /\ req[w].pc = "readItem"
    /\ req' = [req EXCEPT ![w].pc = "saveItem", ![w].rows = Append(@, product[NextLine(w).p])]
    /\ UNCHANGED <<product, created, storeOpen, lock, placed, balance, regular, served>>

\* The request goes on with the next item, or is answered.
NextItem(w) == req' = [req EXCEPT ![w] = IF AllRead(@) THEN Idle ELSE [@ EXCEPT !.pc = "readItem"]]

\* Faulty variant: a product that is sold out stays so.
SaveItemHidden(w) ==
    LET l == LastLine(w) IN
    /\ req[w].pc = "saveItem"
    /\ Free(l.p, w)
    /\ product' = [product EXCEPT ![l.p].count = LastRow(w).count + l.qty]
    /\ NextItem(w)
    /\ UNCHANGED <<created, storeOpen, lock, placed, balance, regular, served>>

\* Faulty variant: the first item is put back and the others are forgotten.
SaveItemFirst(w) ==
    LET l == LastLine(w) IN
    /\ req[w].pc = "saveItem"
    /\ Free(l.p, w)
    /\ product' = [product EXCEPT ![l.p].count = LastRow(w).count + l.qty, ![l.p].shown = TRUE]
    /\ Answer(w)
    /\ UNCHANGED <<created, storeOpen, lock, placed, balance, regular, served>>

\* The count that was READ, and the quantity, are written back.
SaveItem(w) ==
    LET l == LastLine(w) IN
    /\ req[w].pc = "saveItem"
    /\ Free(l.p, w)
    /\ product' = [product EXCEPT ![l.p].count = LastRow(w).count + l.qty, ![l.p].shown = TRUE]
    /\ NextItem(w)
    /\ UNCHANGED <<created, storeOpen, lock, placed, balance, regular, served>>

-----------------------------------------------------------------------------
(* The seller's inventory                                                  *)

\* A request about the one product p, of which it holds the row r.
Holding(pc, p, r) == [Idle EXCEPT !.pc = pc, !.lines = <<[p |-> p, qty |-> 1]>>, !.rows = <<r>>]

\* A new product: its key in the store (sku) may be counted out, and another
\* request may then be about to use the same.
VendorPost(w) ==
    /\ \E p \in Products, n \in Counts, listed \in BOOLEAN :
          /\ p \notin created
          /\ Begin(w, "post", Holding("insertProduct", p, Listing(n, listed)))
    /\ UNCHANGED <<product, created, storeOpen, lock, placed, balance>>

\* The second product of one key is refused.  A product with an image is saved
\* once more, with every column.
InsertProduct(w) ==
    LET p == LastLine(w).p IN
    /\ req[w].pc = "insertProduct"
    /\ \/ /\ p \notin created
          /\ created' = created \cup {p}
          /\ product' = [product EXCEPT ![p] = LastRow(w)]
          /\ balance' = [balance EXCEPT ![p] = LastRow(w).count]
          /\ Answer(w) \/ req' = [req EXCEPT ![w].pc = "savePut"]
       \/ /\ p \in created
          /\ Answer(w)
          /\ UNCHANGED <<product, created, balance>>
    /\ UNCHANGED <<storeOpen, lock, placed, regular, served>>

\* Faulty variant: a deleted product can be edited, and is then listed again.
PutRevives(w) ==
    /\ \E p \in created : Begin(w, "put", Holding("savePut", p, [product[p] EXCEPT !.deleted = FALSE]))
    /\ UNCHANGED <<product, created, storeOpen, lock, placed, balance>>

\* A product is read and edited in memory: with a stock count or without, listed
\* as in stock or not.  The two are not made to agree.
VendorPut(w) ==
    /\ \E p \in Products, listed \in BOOLEAN :
          LET r == [product[p] EXCEPT !.shown = listed] IN
          /\ ~product[p].deleted
          /\ \/ Begin(w, "put", Holding("savePut", p, r))
             \/ \E n \in Counts :
                   Begin(w, "put", [Holding("savePut", p, [r EXCEPT !.count = n])
                                      EXCEPT !.counted = TRUE])
    /\ UNCHANGED <<product, created, storeOpen, lock, placed, balance>>

\* product.save(): every column, as this request has it in memory.
SavePut(w) ==
    LET p == LastLine(w).p IN
    /\ req[w].pc = "savePut"
    /\ Free(p, w)
    /\ product' = [product EXCEPT ![p] = LastRow(w)]
    /\ balance' = [balance EXCEPT ![p] = IF req[w].counted THEN LastRow(w).count ELSE @]
    /\ Answer(w)
    /\ UNCHANGED <<created, storeOpen, lock, placed, regular, served>>

VendorDelete(w) ==
    /\ \E p \in Products : /\ ~product[p].deleted
                           /\ Begin(w, "delete", Holding("saveDelete", p, product[p]))
    /\ UNCHANGED <<product, created, storeOpen, lock, placed, balance>>

\* Only is_deleted is written.
SaveDelete(w) ==
    LET p == LastLine(w).p IN
    /\ req[w].pc = "saveDelete"
    /\ Free(p, w)
    /\ product' = [product EXCEPT ![p].deleted = TRUE]
    /\ Answer(w)
    /\ UNCHANGED <<created, storeOpen, lock, placed, balance, regular, served>>

\* The seller opens or closes the store, by what the request asks for.
StoreOpenToggle(w) ==
    /\ req[w].pc = "idle"
    /\ Free(Store, w)
    /\ storeOpen' \in BOOLEAN
    /\ UNCHANGED <<product, created, lock, placed, req, balance, regular, served>>

-----------------------------------------------------------------------------
\* The row that w needs the lock of.
Wanted(w) == CASE req[w].pc = "lockProduct" -> NextLine(w).p
               [] req[w].pc = "lockStore"   -> Store
               [] OTHER                     -> None
Blocks(v, w) == v # w /\ Wanted(w) # None /\ lock[Wanted(w)] = v

\* PostgreSQL finds a cycle of transactions that wait for one another and aborts
\* one of them.
DeadlockVictim(w) ==
    /\ \E S \in SUBSET Workers :
          /\ w \in S
          /\ \A v \in S : (\E u \in S : Blocks(u, v)) /\ (\E u \in S : Blocks(v, u))
    /\ Rollback(w)
    /\ UNCHANGED <<product, created, storeOpen, placed, balance, regular, served>>

\* A request is cut short: a process dies, an insert is refused (two orders drew
\* the same display_id), an exception ends it.  Only create_order is undone.
Fail(w) ==
    /\ req[w].pc # "idle"
    /\ served["fault"] < Limit["fault"] /\ Served < MaxRequests
    /\ served' = [served EXCEPT !["fault"] = @ + 1]
    /\ regular' = FALSE
    /\ Rollback(w)
    /\ UNCHANGED <<product, created, storeOpen, placed, balance>>

Arrive(w) == \/ PlaceOrder(w) \/ ReturnOrder(w)
             \/ VendorPost(w) \/ VendorPut(w) \/ VendorDelete(w) \/ StoreOpenToggle(w)

Step(w) == \/ LockProduct(w) \/ LockStore(w) \/ CommitOrder(w) \/ DeadlockVictim(w)
           \/ ReadItem(w) \/ SaveItem(w) \/ InsertProduct(w) \/ SavePut(w) \/ SaveDelete(w)

Next == \E w \in Workers : Arrive(w) \/ Step(w) \/ Fail(w)

Spec == Init /\ [][Next]_vars

\* The server runs every request on, and the database lets somebody go first.
FairSpec == Spec /\ \A w \in Workers : WF_vars(Step(w))

-----------------------------------------------------------------------------
\* A sale takes what it asks for off what the shelf holds at that moment, only
\* listed products that suffice, and only while the store is open: create_order
\* judged rows it has locked since, so nothing it was told has become stale.  Of
\* a product that is named by several lines it takes the last line's quantity.
SaleIsExact ==
    [][\A c \in Carts : placed'[c] > placed[c] =>
          /\ storeOpen
          /\ \A i \in DOMAIN c : ~product[c[i].p].deleted /\ product[c[i].p].count >= c[i].qty
          /\ \A p \in Products :
                product'[p].count = product[p].count - IF LinesOf(c, p) = {} THEN 0
                                                       ELSE c[Max(LinesOf(c, p))].qty]_vars

Placing == {"lockProduct", "lockStore", "commit"}

Current(w) ==
    /\ req[w].pc \in Placing =>
          \A i \in DOMAIN req[w].rows :
              LET p == req[w].lines[i].p IN lock[p] = w /\ req[w].rows[i] = product[p]
    /\ req[w].pc = "commit" => lock[Store] = w

\* What a request that places an order has read is what the rows still say.
HeldIsCurrent == \A w \in Workers : Current(w)

NeverZero(p) == \A c \in Carts : \A i \in LinesOf(c, p) : c[i].qty # 0

\* As long as no seller has entered or edited a product, one that is in stock is
\* listed as such, and one that is not is not: create_order and restocking write
\* the two columns in one statement, however stale the count may be.  (Except
\* that the return of an order of zero lists a product that is sold out.)
SoldOutHidden ==
    served["put"] = 0 /\ served["post"] = 0 =>
        \A p \in Products :
            /\ product[p].count > 0 => product[p].shown
            /\ served["return"] = 0 \/ NeverZero(p) => (product[p].shown => product[p].count > 0)

\* Every request is answered, although orders lock their products in the order
\* in which the buyer lists them and so can wait for one another in a circle.
EveryoneAnswered == \A w \in Workers : req[w].pc # "idle" ~> req[w].pc = "idle"

\* The count of a product is what the seller entered, less what has been sold,
\* plus what has been returned, and so never more is sold than there is: as long
\* as requests run one by one and no order names a product twice.
StockAddsUp == regular /\ Quiet => \A p \in Products : product[p].count = balance[p]

\* A deleted product is never listed again, when requests are served one by one.
DeletedStays ==
    [][regular => \A p \in created : product[p].deleted => product'[p].deleted]_vars

-----------------------------------------------------------------------------
(* The invariant from which the proofs draw SaleIsExact.                   *)

\* Where w stands in its lines, and what it has judged of the rows it holds.
Standing(w) ==
    LET q == req[w] IN
    /\ Len(q.rows) <= Len(q.lines)
    /\ q.pc \in {"lockProduct", "readItem"} => Len(q.rows) < Len(q.lines)
    /\ q.pc \in {"lockStore", "commit"} => AllRead(q)
    /\ q.pc \in {"saveItem", "insertProduct", "savePut", "saveDelete"} => q.rows # <<>>
    /\ q.pc \in {"readItem", "saveItem"} => Insertable(q.lines)
    /\ q.pc = "savePut" => LastLine(w).p \in created
    /\ q.pc \in Placing =>
          /\ q.lines \in Carts
          /\ \A i \in DOMAIN q.rows : ~q.rows[i].deleted /\ q.rows[i].count >= q.lines[i].qty
    /\ q.pc = "commit" => storeOpen

\* What has been sold could be inserted, and nobody holds a row that is not there.
Sound ==
    /\ \A c \in Carts : placed[c] > 0 => Insertable(c)
    /\ \A p \in Products \ created : product[p].deleted /\ lock[p] = None

\* Every request stands where its program counter says, on rows that are current.
IInv == Typed /\ Sound /\ \A w \in Workers : Standing(w) /\ Current(w)

\* What sort of request writes a row of its own making has been counted.
Accounted(w) ==
    /\ req[w].pc \in {"readItem", "saveItem"} => req[w].lines \in Carts /\ served["return"] > 0
    /\ req[w].pc \in {"insertProduct", "savePut"} => served["put"] > 0 \/ served["post"] > 0

\* What the shelf shows, and why: with IInv, the invariant behind SoldOutHidden.
ShelfInv == SoldOutHidden /\ \A w \in Workers : Accounted(w)
=============================================================================
