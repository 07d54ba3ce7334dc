--------------------------- MODULE InventoryProofs ----------------------------
(***************************************************************************)
(* A sale is exact, for every number of products, carts and requests: the  *)
(* locks of an order keep every other writer away from the rows it has     *)
(* judged.  The proof goes action by action; what an action must show is   *)
(* that it moves its own request soundly and disturbs no row that another  *)
(* request holds the lock of (AlmostDone).  The parts that follow are      *)
(* about what is shown on the shelf, and, when requests are served one by  *)
(* one, deleted products and the count of the stock.                       *)
(***************************************************************************)
EXTENDS Inventory, Positions

-----------------------------------------------------------------------------
\* Nothing that another request has locked changes, nor does that request.
Undisturbed(w) ==
    /\ created \subseteq created'
    /\ \A v \in Workers \ {w} :
          /\ req'[v] = req[v]
          /\ \A p \in Products : lock[p] = v => lock'[p] = v /\ product'[p] = product[p]
          /\ lock[Store] = v => lock'[Store] = v /\ storeOpen' = storeOpen

\* A step keeps the invariant if it keeps the types, moves its own request
\* soundly and leaves alone what others have locked.
LEMMA AlmostDone ==
    ASSUME IInv, NEW w \in Workers, Typed', Sound', Standing(w)', Current(w)', Undisturbed(w)
    PROVE  IInv'
  <1>1. SUFFICES ASSUME NEW v \in Workers \ {w}
                 PROVE  Standing(v)' /\ Current(v)'
    BY DEF IInv
  <1>2. Standing(v) /\ Current(v) /\ req[v] \in Request
    BY DEF IInv, Typed
  <1>3. req'[v] = req[v]
    BY DEF Undisturbed
  <1>4. Current(v)'
    <2>1. ASSUME req[v].pc \in Placing, NEW i \in DOMAIN req[v].rows
          PROVE  LET p == req[v].lines[i].p IN lock'[p] = v /\ req[v].rows[i] = product'[p]
      <3>1. i \in DOMAIN req[v].lines /\ req[v].lines[i].p \in Products
        <4>1. req[v].lines \in Seq(Line) /\ req[v].rows \in Seq(Row)
          BY <1>2 DEF Request
        <4>2. Len(req[v].rows) <= Len(req[v].lines)
          BY <1>2 DEF Standing
        <4>3. req[v].lines[i] \in Line
          BY <2>1, <4>1, <4>2
        <4>4. QED
          BY <2>1, <4>1, <4>2, <4>3 DEF Line
      <3>2. QED
        BY <1>2, <2>1, <3>1 DEF Current, Undisturbed
    <2>2. req[v].pc = "commit" => lock'[Store] = v
      BY <1>2 DEF Current, Undisturbed
    <2>3. QED
      BY <1>3, <2>1, <2>2 DEF Current
  <1>5. Standing(v)'
    <2>1. req[v].pc = "commit" => storeOpen'
      BY <1>2 DEF Standing, Current, Undisturbed
    <2>2. req[v].pc = "savePut" => LastLine(v)'.p \in created'
      BY <1>2, <1>3 DEF Standing, LastLine, Undisturbed
    <2>3. QED
      BY <1>2, <1>3, <2>1, <2>2 DEF Standing, AllRead
  <1>6. QED
    BY <1>4, <1>5

\* Init: every worker is idle, nothing is locked.
LEMMA InitIInv == Init => IInv
  <1> SUFFICES ASSUME Init PROVE IInv
    OBVIOUS
  <1>1. Typed
    <2>1. Counts \subseteq Nat /\ created \subseteq Products
      BY StockAssumption DEF Init
    <2>2. \A n \in Nat : Listing(n, n > 0) \in Row
      <3>1. \A n \in Nat : (n > 0) \in BOOLEAN
        OBVIOUS
      <3>2. QED
        BY <3>1, Zenon DEF Listing, Row
    <2>3. product \in [Products -> Row]
      <3>1. PICK f \in [created -> Counts] :
               product = [p \in Products |-> IF p \in created THEN Listing(f[p], f[p] > 0) ELSE NoRow]
        BY DEF Init
      <3>2. \A p \in created : f[p] \in Nat
        BY <2>1, <3>1
      <3>3. NoRow \in Row
        BY DEF NoRow, Row
      <3>4. QED
        BY <2>2, <3>1, <3>2, <3>3
    <2>4. Idle \in Request
      BY DEF Request, Idle, PCs
    <2>5. QED
      BY <2>1, <2>3, <2>4 DEF Init, Typed
  <1>2. ASSUME NEW w \in Workers
        PROVE  Standing(w) /\ Current(w)
    BY DEF Init, Idle, Standing, Current, Placing
  <1>3. Sound
    BY DEF Init, NoRow, Sound
  <1>4. QED
    BY <1>1, <1>2, <1>3 DEF IInv

\* What the invariant says of one request.
LEMMA OfRequest ==
    ASSUME IInv, NEW w \in Workers
    PROVE  /\ Typed /\ Sound /\ Standing(w) /\ Current(w)
           /\ req[w] \in Request
           /\ req[w].lines \in Seq(Line) /\ req[w].rows \in Seq(Row)
           /\ Len(req[w].lines) \in Nat /\ Len(req[w].rows) \in Nat
           /\ \A i \in DOMAIN req[w].rows : i \in DOMAIN req[w].lines
           /\ \A i \in DOMAIN req[w].lines : req[w].lines[i] \in Line
           /\ \A i \in DOMAIN req[w].rows : req[w].rows[i] \in Row
  <1>1. Typed /\ Sound /\ Standing(w) /\ Current(w) /\ req[w] \in Request
    BY DEF IInv, Typed
  <1>2. req[w].lines \in Seq(Line) /\ req[w].rows \in Seq(Row)
    BY <1>1 DEF Request
  <1>3. Len(req[w].rows) <= Len(req[w].lines)
    BY <1>1 DEF Standing
  <1>4. QED
    BY <1>1, <1>2, <1>3

-----------------------------------------------------------------------------
(* One lemma for each kind of step.                                        *)

\* A request that is let go, with its locks, leaves the invariant alone.
LEMMA RollbackStep ==
    ASSUME IInv, NEW w \in Workers, Rollback(w), served' \in [Kinds \cup {"fault"} -> Nat],
           UNCHANGED <<product, created, storeOpen, placed>>
    PROVE  IInv'
  <1>1. Idle \in Request /\ Typed /\ Sound
    BY DEF Idle, Request, PCs, IInv
  <1>2. lock' = [r \in DOMAIN lock |-> IF lock[r] = w THEN None ELSE lock[r]]
        /\ req' = [req EXCEPT ![w] = Idle]
    BY DEF Rollback, Release, Answer
  <1>3. Typed'
    BY <1>1, <1>2 DEF Typed
  <1>4. req'[w] = Idle
    BY <1>1, <1>2 DEF Typed
  <1>5. Standing(w)' /\ Current(w)'
    BY <1>4 DEF Standing, Current, Idle, Placing
  <1>6. Undisturbed(w)
    BY <1>1, <1>2 DEF Undisturbed, Typed
  <1>7. Sound'
    BY <1>1, <1>2 DEF Sound, Typed
  <1>8. QED
    BY <1>3, <1>5, <1>6, <1>7, AlmostDone

\* A worker takes on a request that holds no row yet, or one that it does not lock.
LEMMA BeginStep ==
    ASSUME IInv, NEW w \in Workers, NEW kind \in Kinds, NEW q \in Request, Begin(w, kind, q),
           placed' \in [Carts -> Nat], \A c \in Carts : placed'[c] > 0 => placed[c] > 0,
           UNCHANGED <<product, created, storeOpen, lock>>,
           \/ /\ q.pc \in {"lockProduct", "readItem"} /\ q.rows = <<>> /\ q.lines \in Carts
              /\ q.pc = "readItem" => Insertable(q.lines)
           \/ /\ q.pc \in {"insertProduct", "savePut", "saveDelete"}
              /\ Len(q.rows) = 1 /\ Len(q.lines) = 1
              /\ q.pc = "savePut" => q.lines[1].p \in created
    PROVE  IInv'
  <1>1. Typed /\ Sound
    BY DEF IInv
  <1>2. req'[w] = q /\ req' = [req EXCEPT ![w] = q] /\ served' = [served EXCEPT ![kind] = @ + 1]
    BY <1>1 DEF Begin, Typed
  <1>3. Typed'
    BY <1>1, <1>2 DEF Typed
  <1>4. Standing(w)'
    <2>1. q.lines \in Carts => Len(q.lines) > 0
      BY StockAssumption
    <2>2. Len(q.rows) \in Nat /\ (q.rows = <<>> <=> Len(q.rows) = 0)
      BY DEF Request
    <2>3. CASE /\ q.pc \in {"lockProduct", "readItem"} /\ q.rows = <<>> /\ q.lines \in Carts
               /\ q.pc = "readItem" => Insertable(q.lines)
      <3>1. Len(q.rows) = 0 /\ DOMAIN q.rows = {} /\ Len(q.lines) > 0
        BY <2>1, <2>3
      <3>2. QED
        BY <1>2, <2>3, <3>1 DEF Standing, Placing
    <2>4. CASE /\ q.pc \in {"insertProduct", "savePut", "saveDelete"}
               /\ Len(q.rows) = 1 /\ Len(q.lines) = 1
               /\ q.pc = "savePut" => q.lines[1].p \in created
      BY <1>2, <2>2, <2>4 DEF Standing, Placing, LastLine
    <2>5. QED
      BY <2>3, <2>4
  <1>5. Current(w)'
    BY <1>2 DEF Current, Placing
  <1>6. Undisturbed(w)
    BY <1>1, <1>2 DEF Undisturbed, Typed
  <1>7. Sound'
    BY <1>1 DEF Sound
  <1>8. QED
    BY <1>3, <1>4, <1>5, <1>6, <1>7, AlmostDone

\* The row of the next line is locked, copied and found to suffice.
LEMMA LockProductStep ==
    ASSUME IInv, NEW w \in Workers, LockProduct(w)
    PROVE  IInv'
  <1> DEFINE l == NextLine(w)
             q == [req[w] EXCEPT !.rows = Append(@, product[l.p])]
             q1 == [q EXCEPT !.pc = IF AllRead(q) THEN "lockStore" ELSE @]
  <1>1. Typed /\ served' \in [Kinds \cup {"fault"} -> Nat]
        /\ UNCHANGED <<product, created, storeOpen, placed>> /\ Sound
    BY DEF IInv, Typed, LockProduct
  <1>2. CASE Rollback(w)
    BY <1>1, <1>2, RollbackStep
  <1>3. CASE /\ Free(l.p, w) /\ Sellable(l)
             /\ lock' = [lock EXCEPT ![l.p] = w] /\ req' = [req EXCEPT ![w] = q1]
    <2> DEFINE old == req[w]
               n == Len(old.rows)
    <2>1. /\ old.pc = "lockProduct" /\ old.lines \in Seq(Line) /\ old.rows \in Seq(Row)
          /\ n \in Nat /\ Len(old.lines) \in Nat /\ n < Len(old.lines)
          /\ old \in Request
      BY OfRequest DEF LockProduct, Standing
    <2>2. l = old.lines[n + 1] /\ l \in Line /\ l.p \in Products /\ product[l.p] \in Row
      <3>1. l = old.lines[n + 1]
        BY DEF NextLine
      <3>2. old.lines[n + 1] \in Line
        BY <2>1
      <3>3. QED
        BY <1>1, <3>1, <3>2 DEF Typed, Line
    <2>3. /\ Append(old.rows, product[l.p]) \in Seq(Row)
          /\ Len(Append(old.rows, product[l.p])) = n + 1
          /\ DOMAIN Append(old.rows, product[l.p]) = 1..(n + 1)
          /\ Append(old.rows, product[l.p])[n + 1] = product[l.p]
          /\ \A i \in 1..n : Append(old.rows, product[l.p])[i] = old.rows[i]
      BY <2>1, <2>2
    <2>4. /\ q1.lines = old.lines /\ q1.rows = Append(old.rows, product[l.p])
          /\ q1.pc = IF n + 1 = Len(old.lines) THEN "lockStore" ELSE "lockProduct"
          /\ q1 \in Request
      <3>1. /\ q.lines = old.lines /\ q.rows = Append(old.rows, product[l.p])
            /\ q.pc = "lockProduct" /\ q \in Request
        <4> HIDE DEF l
        <4> QED BY <2>1, <2>3 DEF Request
      <3>2. AllRead(q) <=> n + 1 = Len(old.lines)
        <4> HIDE DEF l, q
        <4> QED BY <2>3, <3>1 DEF AllRead
      <3>3. QED
        <4> HIDE DEF l, q
        <4> QED BY <3>1, <3>2 DEF Request, PCs
    <2> HIDE DEF l, q, q1
    <2>5. req'[w] = q1 /\ Typed'
      BY <1>1, <1>3, <2>2, <2>4 DEF Typed
    <2>6. Current(w)'
      <3>1. ASSUME NEW i \in 1..(n + 1)
            PROVE  lock'[old.lines[i].p] = w /\ q1.rows[i] = product[old.lines[i].p]
        <4>1. CASE i = n + 1
          BY <1>1, <1>3, <2>2, <2>3, <2>4, <4>1 DEF Typed
        <4>2. CASE i \in 1..n
          <5>1. lock[old.lines[i].p] = w /\ old.rows[i] = product[old.lines[i].p]
            BY <2>1, <4>2, OfRequest DEF Current, Placing
          <5>2. q1.rows[i] = old.rows[i]
            BY <2>3, <2>4, <4>2
          <5>3. old.lines[i].p \in Products
            BY <2>1, <4>2, OfRequest DEF Line
          <5>4. lock'[old.lines[i].p] = w
            BY <1>1, <1>3, <5>1, <5>3 DEF Typed
          <5>5. QED
            BY <5>1, <5>2, <5>4
        <4>3. QED
          BY <2>1, <4>1, <4>2
      <3>2. q1.pc # "commit"
        BY <2>4
      <3>3. QED
        BY <1>1, <2>3, <2>4, <2>5, <3>1, <3>2 DEF Current
    <2>7. Standing(w)'
      <3>1. old.lines \in Carts
            /\ \A i \in 1..n : ~old.rows[i].deleted /\ old.rows[i].count >= old.lines[i].qty
        BY <2>1, OfRequest DEF Standing, Placing
      <3>2. \A i \in 1..(n + 1) : ~q1.rows[i].deleted /\ q1.rows[i].count >= old.lines[i].qty
        <4>1. ~product[l.p].deleted /\ product[l.p].count >= l.qty
          BY <1>3 DEF Sellable
        <4>2. q1.rows[n + 1] = product[l.p] /\ \A i \in 1..n : q1.rows[i] = old.rows[i]
          BY <2>3, <2>4
        <4>3. \A i \in 1..(n + 1) : i = n + 1 \/ i \in 1..n
          BY <2>1
        <4>4. QED
          BY <2>2, <3>1, <4>1, <4>2, <4>3
      <3>3. QED
        <4>1. DOMAIN q1.rows = 1..(n + 1) /\ Len(q1.rows) = n + 1 /\ q1.lines = old.lines
          BY <2>3, <2>4
        <4>2. CASE n + 1 = Len(old.lines)
          <5>1. q1.pc = "lockStore"
            BY <2>4, <4>2
          <5>2. QED
            BY <2>5, <3>1, <3>2, <4>1, <4>2, <5>1 DEF Standing, AllRead, Placing
        <4>3. CASE n + 1 # Len(old.lines)
          <5>1. q1.pc = "lockProduct" /\ n + 1 < Len(old.lines)
            BY <2>1, <2>4, <4>3
          <5>2. QED
            BY <2>1, <2>5, <3>1, <3>2, <4>1, <4>3, <5>1 DEF Standing, AllRead, Placing
        <4>4. QED
          BY <4>2, <4>3
    <2>8. Undisturbed(w)
      BY <1>1, <1>3, <2>2, StockAssumption DEF Undisturbed, Typed, Free
    <2>9. Sound'
      <3>1. l.p \in created
        BY <1>1, <1>3, <2>2 DEF Sellable, Sound
      <3>2. QED
        BY <1>1, <1>3, <2>2, <3>1 DEF Sound, Typed
    <2>10. QED
      BY <2>5, <2>6, <2>7, <2>8, <2>9, AlmostDone
  <1>4. QED
    BY <1>2, <1>3 DEF LockProduct

\* The store's row is locked and found open.
LEMMA LockStoreStep ==
    ASSUME IInv, NEW w \in Workers, LockStore(w)
    PROVE  IInv'
  <1>1. Typed /\ served' \in [Kinds \cup {"fault"} -> Nat]
        /\ UNCHANGED <<product, created, storeOpen, placed>> /\ Sound
    BY DEF IInv, Typed, LockStore
  <1>2. CASE Rollback(w)
    BY <1>1, <1>2, RollbackStep
  <1>3. CASE /\ Free(Store, w) /\ storeOpen
             /\ lock' = [lock EXCEPT ![Store] = w] /\ req' = [req EXCEPT ![w].pc = "commit"]
    <2> DEFINE old == req[w]
    <2>1. old.pc = "lockStore" /\ old \in Request /\ Standing(w) /\ Current(w)
      BY OfRequest DEF LockStore
    <2>2. /\ req'[w].pc = "commit" /\ req'[w].lines = old.lines /\ req'[w].rows = old.rows
          /\ req'[w] \in Request
      BY <1>1, <1>3, <2>1 DEF Typed, Request, PCs
    <2>3. Typed'
      BY <1>1, <1>3, <2>2 DEF Typed
    <2>4. Standing(w)'
      BY <1>1, <1>3, <2>1, <2>2 DEF Standing, AllRead, Placing
    <2>5. Current(w)'
      <3>1. \A i \in DOMAIN old.rows :
               lock[old.lines[i].p] = w /\ old.rows[i] = product[old.lines[i].p]
        BY <2>1 DEF Current, Placing
      <3>2. \A i \in DOMAIN old.rows : old.lines[i].p \in Products
        BY OfRequest DEF Line
      <3>3. lock'[Store] = w /\ \A p \in Products : lock[p] = w => lock'[p] = w
        BY <1>1, <1>3 DEF Typed
      <3>4. QED
        BY <1>1, <2>2, <3>1, <3>2, <3>3 DEF Current
    <2>6. Undisturbed(w)
      BY <1>1, <1>3, StockAssumption DEF Undisturbed, Typed, Free
    <2>7. Sound'
      BY <1>1, <1>3, StockAssumption DEF Sound, Typed
    <2>8. QED
      BY <2>3, <2>4, <2>5, <2>6, <2>7, AlmostDone
  <1>4. QED
    BY <1>2, <1>3 DEF LockStore

\* What the order of w leaves of a product is a row, and leaves alone what is
\* not in the order.
LEMMA LeftIsRow ==
    ASSUME IInv, NEW w \in Workers, req[w].pc = "commit", NEW p \in Products
    PROVE  /\ Left(w, p) \in Row /\ Left(w, p).deleted = product[p].deleted
           /\ LinesOf(req[w].lines, p) = {} => Left(w, p) = product[p]
           /\ \A v \in Workers \ {w} : lock[p] = v => Left(w, p) = product[p]
           /\ LinesOf(req[w].lines, p) # {} =>
                 Left(w, p).count =
                   product[p].count - req[w].lines[Max(LinesOf(req[w].lines, p))].qty
  <1> DEFINE q == req[w]
             i == Max(LinesOf(q.lines, p))
             n == q.rows[i].count - q.lines[i].qty
  <1>1. /\ Typed /\ product[p] \in Row
        /\ DOMAIN q.lines = 1..Len(q.lines) /\ DOMAIN q.rows = DOMAIN q.lines
        /\ Len(q.lines) \in Nat
    <2>1. Typed /\ Len(q.rows) = Len(q.lines)
      BY OfRequest DEF Standing, AllRead
    <2>2. q.lines \in Seq(Line) /\ q.rows \in Seq(Row)
      BY OfRequest
    <2>3. QED
      BY <2>1, <2>2 DEF Typed
  <1>2. CASE LinesOf(q.lines, p) = {}
    BY <1>1, <1>2 DEF Left
  <1>3. CASE LinesOf(q.lines, p) # {}
    <2>1. LinesOf(q.lines, p) \in SUBSET (1..Len(q.lines))
      BY <1>1 DEF LinesOf
    <2>2. i \in LinesOf(q.lines, p)
      BY <1>1, <1>3, <2>1, MaxExists
    <2>3. i \in DOMAIN q.rows /\ i \in DOMAIN q.lines /\ q.lines[i].p = p
      BY <1>1, <2>2 DEF LinesOf
    <2>4. lock[p] = w /\ q.rows[i] = product[p]
      BY <2>3, OfRequest DEF Current, Placing
    <2>5. q.lines[i] \in Line /\ q.rows[i].count >= q.lines[i].qty
      BY <2>3, OfRequest DEF Standing, Placing
    <2>6. n = product[p].count - q.lines[i].qty /\ n \in Nat
      BY <1>1, <2>4, <2>5 DEF Row, Line
    <2>7. Left(w, p) = [product[p] EXCEPT !.count = n, !.shown = n # 0 /\ q.rows[i].shown]
      BY <1>3 DEF Left
    <2>8. (n # 0 /\ q.rows[i].shown) \in BOOLEAN
      OBVIOUS
    <2> HIDE DEF n, i
    <2>9. Left(w, p) \in Row /\ Left(w, p).count = n /\ Left(w, p).deleted = product[p].deleted
      BY <1>1, <2>6, <2>7, <2>8 DEF Row
    <2>10. \A v \in Workers \ {w} : lock[p] # v
      BY <2>4
    <2>11. Left(w, p).count = product[p].count - q.lines[Max(LinesOf(q.lines, p))].qty
      BY <2>6, <2>9 DEF i
    <2>12. QED
      BY <1>3, <2>9, <2>10, <2>11
  <1>4. QED
    BY <1>2, <1>3

\* The sale becomes visible.
LEMMA CommitOrderStep ==
    ASSUME IInv, NEW w \in Workers, CommitOrder(w)
    PROVE  IInv'
  <1>1. /\ Typed /\ Sound /\ req[w].pc = "commit" /\ req[w].lines \in Carts
        /\ Idle \in Request
    BY OfRequest DEF CommitOrder, Standing, Placing, Idle, Request, PCs
  <1>2. CASE UNCHANGED <<product, placed>>
    <2>1. Rollback(w) /\ served' \in [Kinds \cup {"fault"} -> Nat]
      BY <1>1 DEF CommitOrder, Rollback, Typed
    <2>2. UNCHANGED <<product, created, storeOpen, placed>>
      BY <1>2 DEF CommitOrder
    <2>3. QED
      BY <2>1, <2>2, RollbackStep
  <1>3. CASE /\ Insertable(req[w].lines)
             /\ product' = [p \in Products |-> Left(w, p)]
             /\ placed' = [placed EXCEPT ![req[w].lines] = @ + 1]
    <2>1. /\ UNCHANGED <<created, storeOpen, served>>
          /\ lock' = [r \in DOMAIN lock |-> IF lock[r] = w THEN None ELSE lock[r]]
          /\ req' = [req EXCEPT ![w] = Idle]
      BY DEF CommitOrder, Release, Answer
    <2>2. product' \in [Products -> Row]
      BY <1>1, <1>3, LeftIsRow
    <2>3. Typed'
      BY <1>1, <1>3, <2>1, <2>2 DEF Typed
    <2>4. req'[w] = Idle
      BY <1>1, <2>1 DEF Typed
    <2>5. Standing(w)' /\ Current(w)'
      BY <2>4 DEF Standing, Current, Idle, Placing
    <2>6. \A p \in Products : \A v \in Workers \ {w} : lock[p] = v => product'[p] = product[p]
      BY <1>1, <1>3, LeftIsRow
    <2>7. Undisturbed(w)
      BY <1>1, <1>3, <2>1, <2>6 DEF Undisturbed, Typed
    <2>8. Sound'
      <3>1. \A p \in Products : product'[p].deleted = product[p].deleted
        BY <1>1, <1>3, LeftIsRow
      <3>2. \A c \in Carts : placed'[c] > 0 => placed[c] > 0 \/ c = req[w].lines
        BY <1>1, <1>3 DEF Typed
      <3>3. QED
        BY <1>1, <1>3, <2>1, <3>1, <3>2 DEF Sound, Typed
    <2>9. QED
      BY <2>3, <2>5, <2>7, <2>8, AlmostDone
  <1>4. QED
    BY <1>2, <1>3 DEF CommitOrder

\* A request that restocks, edits or deletes writes a row that nobody else has
\* locked, and goes on to a request that places no order.
LEMMA SaveStep ==
    ASSUME IInv, NEW w \in Workers, NEW p \in Products, Free(p, w), NEW r \in Row,
           p \in created \/ r.deleted, product' = [product EXCEPT ![p] = r],
           NEW q \in Request, req' = [req EXCEPT ![w] = q],
           q.pc \in {"idle", "readItem"}, Len(q.rows) <= Len(q.lines),
           q.pc = "readItem" => Len(q.rows) < Len(q.lines) /\ Insertable(q.lines),
           UNCHANGED <<created, storeOpen, lock, placed, served>>
    PROVE  IInv'
  <1>1. Typed /\ Sound
    BY DEF IInv
  <1>2. req'[w] = q
    BY <1>1 DEF Typed
  <1>3. Typed'
    BY <1>1 DEF Typed
  <1>4. Standing(w)' /\ Current(w)'
    BY <1>2 DEF Standing, Current, Placing
  <1>5. Undisturbed(w)
    BY <1>1, StockAssumption DEF Undisturbed, Typed, Free
  <1>6. Sound'
    BY <1>1 DEF Sound, Typed
  <1>7. QED
    BY <1>3, <1>4, <1>5, <1>6, AlmostDone

\* The product of the next item is read, without its lock.
LEMMA ReadItemStep ==
    ASSUME IInv, NEW w \in Workers, ReadItem(w)
    PROVE  IInv'
  <1> DEFINE old == req[w]
             row == product[NextLine(w).p]
             n == Len(old.rows)
  <1>1. /\ Typed /\ old.lines \in Seq(Line) /\ old.rows \in Seq(Row) /\ old \in Request
        /\ n \in Nat /\ Len(old.lines) \in Nat /\ n < Len(old.lines)
        /\ Sound /\ Insertable(old.lines)
    BY OfRequest DEF ReadItem, Standing
  <1>2. row \in Row
    <2>1. NextLine(w) = old.lines[n + 1]
      BY DEF NextLine
    <2>2. old.lines[n + 1] \in Line
      BY <1>1
    <2>3. QED
      BY <1>1, <2>1, <2>2 DEF Typed, Line
  <1>3. req' = [req EXCEPT ![w].pc = "saveItem", ![w].rows = Append(@, row)]
        /\ UNCHANGED <<product, created, storeOpen, lock, placed, served>>
    BY DEF ReadItem
  <1> HIDE DEF row
  <1>4. Append(old.rows, row) \in Seq(Row) /\ Len(Append(old.rows, row)) = n + 1
    BY <1>1, <1>2
  <1>5. /\ req'[w].pc = "saveItem" /\ req'[w].lines = old.lines
        /\ req'[w].rows = Append(old.rows, row) /\ req'[w] \in Request
    BY <1>1, <1>3, <1>4 DEF Typed, Request, PCs
  <1>6. Typed'
    BY <1>1, <1>3, <1>5 DEF Typed
  <1>7. Standing(w)' /\ Current(w)'
    <2>1. Append(old.rows, row) # <<>>
      BY <1>1, <1>4
    <2>2. QED
      BY <1>1, <1>4, <1>5, <2>1 DEF Standing, Current, Placing
  <1>8. Undisturbed(w)
    BY <1>1, <1>3 DEF Undisturbed, Typed
  <1>9. Sound'
    BY <1>1, <1>3 DEF Sound
  <1>10. QED
    BY <1>6, <1>7, <1>8, <1>9, AlmostDone

\* What a request that saves a row holds.
LEMMA OfSaver ==
    ASSUME IInv, NEW w \in Workers, req[w].pc \in {"saveItem", "insertProduct", "savePut", "saveDelete"}
    PROVE  LastLine(w) \in Line /\ LastRow(w) \in Row
  <1>1. /\ req[w].lines \in Seq(Line) /\ req[w].rows \in Seq(Row) /\ req[w].rows # <<>>
        /\ Len(req[w].rows) <= Len(req[w].lines)
    BY OfRequest DEF Standing
  <1>2. Len(req[w].rows) \in DOMAIN req[w].lines /\ Len(req[w].rows) \in DOMAIN req[w].rows
    BY <1>1
  <1>3. QED
    BY <1>1, <1>2 DEF LastLine, LastRow

\* The count that was read is raised and written back.
LEMMA SaveItemStep ==
    ASSUME IInv, NEW w \in Workers, SaveItem(w)
    PROVE  IInv'
  <1> DEFINE l == LastLine(w)
             r == [product[l.p] EXCEPT !.count = LastRow(w).count + l.qty, !.shown = TRUE]
             q == IF AllRead(req[w]) THEN Idle ELSE [req[w] EXCEPT !.pc = "readItem"]
  <1>1. /\ Typed /\ req[w] \in Request /\ req[w].pc = "saveItem"
        /\ Len(req[w].rows) \in Nat /\ Len(req[w].lines) \in Nat
        /\ Len(req[w].rows) <= Len(req[w].lines)
        /\ Sound /\ Insertable(req[w].lines)
    BY OfRequest DEF SaveItem, Standing
  <1>2. l \in Line /\ LastRow(w) \in Row /\ l.qty >= 0
    <2>1. req[w].rows # <<>> /\ req[w].rows \in Seq(Row) /\ req[w].lines \in Seq(Line)
      BY <1>1, OfRequest DEF Standing
    <2>2. Len(req[w].rows) \in DOMAIN req[w].lines
      BY <1>1, <2>1
    <2>3. QED
      BY <1>1, <2>2, OfSaver DEF LastLine, Insertable
  <1>3. r \in Row /\ l.p \in Products /\ (l.p \in created \/ r.deleted)
    <2>1. /\ l.p \in Products /\ product[l.p] \in Row
          /\ LastRow(w).count + l.qty \in Nat
          /\ l.p \in created \/ product[l.p].deleted
      BY <1>1, <1>2 DEF Typed, Line, Row, Sound
    <2> HIDE DEF l
    <2>2. QED
      BY <2>1 DEF Row
  <1>4. product' = [product EXCEPT ![l.p] = r] /\ req' = [req EXCEPT ![w] = q]
        /\ Free(l.p, w) /\ UNCHANGED <<created, storeOpen, lock, placed, served>>
    BY <1>1, <1>3 DEF SaveItem, NextItem, Typed
  <1>5. /\ q \in Request /\ q.pc \in {"idle", "readItem"} /\ Len(q.rows) <= Len(q.lines)
        /\ q.pc = "readItem" => Len(q.rows) < Len(q.lines) /\ Insertable(q.lines)
    <2>1. CASE AllRead(req[w])
      BY <2>1 DEF Idle, Request, PCs
    <2>2. CASE ~AllRead(req[w])
      <3>1. /\ q.pc = "readItem" /\ q.rows = req[w].rows /\ q.lines = req[w].lines
            /\ q \in Request
        BY <1>1, <2>2 DEF Request, PCs
      <3>2. Len(req[w].rows) < Len(req[w].lines)
        BY <1>1, <2>2 DEF AllRead
      <3>3. QED
        BY <1>1, <3>1, <3>2
    <2>3. QED
      BY <2>1, <2>2
  <1> HIDE DEF l, r, q
  <1>6. QED
    BY <1>3, <1>4, <1>5, SaveStep

\* Every column of the product is written as the seller's request has it.
LEMMA SavePutStep ==
    ASSUME IInv, NEW w \in Workers, SavePut(w)
    PROVE  IInv'
  <1>1. LastLine(w) \in Line /\ LastRow(w) \in Row
    BY OfSaver DEF SavePut
  <1>2. LastLine(w).p \in Products /\ Idle \in Request /\ LastLine(w).p \in created
    BY <1>1, OfRequest DEF SavePut, Standing, Line, Idle, Request, PCs
  <1>3. /\ product' = [product EXCEPT ![LastLine(w).p] = LastRow(w)]
        /\ req' = [req EXCEPT ![w] = Idle] /\ Free(LastLine(w).p, w)
        /\ UNCHANGED <<created, storeOpen, lock, placed, served>>
    BY DEF SavePut, Answer
  <1>4. Idle.pc = "idle" /\ Len(Idle.rows) <= Len(Idle.lines)
    BY DEF Idle
  <1>5. QED
    BY <1>1, <1>2, <1>3, <1>4, SaveStep

\* Only the mark of deletion is written.
LEMMA SaveDeleteStep ==
    ASSUME IInv, NEW w \in Workers, SaveDelete(w)
    PROVE  IInv'
  <1> DEFINE p == LastLine(w).p
             r == [product[p] EXCEPT !.deleted = TRUE]
  <1>1. LastLine(w) \in Line
    BY OfSaver DEF SaveDelete
  <1>2. p \in Products /\ Idle \in Request
    BY <1>1 DEF Line, Idle, Request, PCs
  <1>3. product[p] \in Row /\ Typed
    BY <1>2 DEF IInv, Typed
  <1>4. product' = [product EXCEPT ![p] = r] /\ req' = [req EXCEPT ![w] = Idle] /\ Free(p, w)
        /\ UNCHANGED <<created, storeOpen, lock, placed, served>>
    BY DEF SaveDelete, Answer
  <1>5. Idle.pc = "idle" /\ Len(Idle.rows) <= Len(Idle.lines)
    BY DEF Idle
  <1> HIDE DEF p
  <1>6. r \in Row /\ r.deleted
    BY <1>3 DEF Row
  <1>7. QED
    BY <1>2, <1>4, <1>5, <1>6, SaveStep

\* A product gets its row, which nobody can have locked before.
LEMMA InsertProductStep ==
    ASSUME IInv, NEW w \in Workers, InsertProduct(w)
    PROVE  IInv'
  <1> DEFINE p == LastLine(w).p
  <1>1. /\ Typed /\ Sound /\ req[w] \in Request /\ Standing(w)
        /\ p \in Products /\ LastRow(w) \in Row
        /\ req[w].pc = "insertProduct"
        /\ Idle \in Request
    <2>1. req[w].pc = "insertProduct"
      BY DEF InsertProduct
    <2>2. LastLine(w) \in Line /\ LastRow(w) \in Row
      BY <2>1, OfSaver
    <2>3. Idle \in Request
      BY DEF Idle, Request, PCs
    <2>4. p \in Products
      BY <2>2 DEF Line
    <2>5. QED
      BY <2>1, <2>2, <2>3, <2>4, OfRequest
  <1>2. PICK q \in Request :
           /\ req' = [req EXCEPT ![w] = q]
           /\ \/ q = Idle
              \/ q = [req[w] EXCEPT !.pc = "savePut"] /\ p \in created'
    <2>1. [req[w] EXCEPT !.pc = "savePut"] \in Request
      BY <1>1 DEF Request, PCs
    <2>2. CASE Answer(w)
      BY <1>1, <2>2 DEF Answer
    <2>3. CASE req' = [req EXCEPT ![w].pc = "savePut"] /\ p \in created'
      BY <1>1, <2>1, <2>3 DEF Typed
    <2>4. QED
      BY <2>2, <2>3 DEF InsertProduct
  <1>3. /\ created \subseteq created' /\ created' \subseteq Products
        /\ UNCHANGED <<storeOpen, lock, placed, served>>
        /\ \/ UNCHANGED <<product, created>>
           \/ /\ p \notin created /\ created' = created \cup {p}
              /\ product' = [product EXCEPT ![p] = LastRow(w)]
    BY <1>1 DEF InsertProduct, Typed
  <1> HIDE DEF p
  <1>4. Typed' /\ req'[w] = q
    BY <1>1, <1>2, <1>3 DEF Typed
  <1>5. Sound'
    BY <1>1, <1>3 DEF Sound, Typed
  <1>6. Standing(w)' /\ Current(w)'
    <2>1. CASE q = Idle
      BY <1>4, <2>1 DEF Standing, Current, Idle, Placing
    <2>2. CASE q = [req[w] EXCEPT !.pc = "savePut"] /\ p \in created'
      <3>1. q.pc = "savePut" /\ q.lines = req[w].lines /\ q.rows = req[w].rows
        BY <1>1, <2>2 DEF Request
      <3>2. LastLine(w)'.p \in created'
        BY <1>4, <2>2, <3>1 DEF LastLine, p
      <3>3. QED
        BY <1>1, <1>4, <3>1, <3>2 DEF Standing, Current, Placing
    <2>3. QED
      BY <1>2, <2>1, <2>2
  <1>7. Undisturbed(w)
    <2>1. \A v \in Workers \ {w} : req'[v] = req[v]
      BY <1>1, <1>2 DEF Typed
    <2>2. p \notin created => lock[p] \notin Workers
      BY <1>1, StockAssumption DEF Sound
    <2>3. QED
      BY <1>1, <1>3, <2>1, <2>2 DEF Undisturbed, Typed
  <1>8. QED
    BY <1>4, <1>5, <1>6, <1>7, AlmostDone

\* The seller's toggle waits for the store's lock too.
LEMMA ToggleStep ==
    ASSUME IInv, NEW w \in Workers, StoreOpenToggle(w)
    PROVE  IInv'
  <1>1. /\ Typed /\ Sound /\ req[w].pc = "idle" /\ Standing(w) /\ Free(Store, w)
        /\ storeOpen' \in BOOLEAN /\ UNCHANGED <<product, created, lock, placed, req, served>>
    BY OfRequest DEF StoreOpenToggle
  <1>2. Typed'
    BY <1>1 DEF Typed
  <1>3. Standing(w)' /\ Current(w)'
    BY <1>1 DEF Standing, Current, AllRead, Placing
  <1>4. Undisturbed(w)
    BY <1>1, StockAssumption DEF Undisturbed, Typed, Free
  <1>5. Sound'
    BY <1>1 DEF Sound
  <1>6. QED
    BY <1>2, <1>3, <1>4, <1>5, AlmostDone

\* A worker takes on a new request.
LEMMA ArriveStep ==
    ASSUME IInv, NEW w \in Workers, Arrive(w)
    PROVE  IInv'
  <1>1. Typed /\ Sound
    BY DEF IInv
  <1>2. \A c \in Carts : c \in Seq(Line)
    BY StockAssumption
  <1>3. ASSUME NEW c \in Carts, NEW pc \in {"lockProduct", "readItem"}
        PROVE  LET q == [Idle EXCEPT !.pc = pc, !.lines = c]
               IN  q \in Request /\ q.pc = pc /\ q.rows = <<>> /\ q.lines = c
    <2>1. Idle \in Request /\ Idle.rows = <<>>
      BY DEF Idle, Request, PCs
    <2>2. c \in Seq(Line) /\ pc \in PCs
      BY <1>2 DEF PCs
    <2>3. QED
      BY <2>1, <2>2 DEF Request
  <1>4. ASSUME NEW pc \in {"insertProduct", "savePut", "saveDelete"}, NEW p \in Products, NEW r \in Row
        PROVE  LET q == Holding(pc, p, r)
               IN  q \in Request /\ q.pc = pc /\ Len(q.rows) = 1 /\ Len(q.lines) = 1 /\ q.lines[1].p = p
    <2>1. [p |-> p, qty |-> 1] \in Line
      BY DEF Line
    <2>2. <<[p |-> p, qty |-> 1]>> \in Seq(Line) /\ <<r>> \in Seq(Row)
      BY <2>1
    <2>3. QED
      BY <2>2 DEF Holding, Idle, Request, PCs
  <1>5. CASE PlaceOrder(w)
    <2>1. PICK c \in Carts :
             Begin(w, "place", [Idle EXCEPT !.pc = "lockProduct", !.lines = c])
      BY <1>5 DEF PlaceOrder
    <2>2. placed' \in [Carts -> Nat] /\ UNCHANGED <<placed, product, created, storeOpen, lock>>
      BY <1>1, <1>5 DEF PlaceOrder, Typed
    <2>3. "place" \in Kinds
      BY DEF Kinds
    <2> DEFINE q == [Idle EXCEPT !.pc = "lockProduct", !.lines = c]
    <2>4. q \in Request /\ q.pc = "lockProduct" /\ q.rows = <<>> /\ q.lines = c
      BY <1>3
    <2> HIDE DEF q
    <2>5. Begin(w, "place", q)
      BY <2>1 DEF q
    <2>6. QED
      BY <2>2, <2>3, <2>4, <2>5, BeginStep
  <1>6. CASE ReturnOrder(w)
    <2>1. PICK c \in Carts :
             /\ placed[c] > 0
             /\ placed' = [placed EXCEPT ![c] = @ - 1]
             /\ Begin(w, "return", [Idle EXCEPT !.pc = "readItem", !.lines = c])
      BY <1>6 DEF ReturnOrder
    <2>2. /\ placed' \in [Carts -> Nat] /\ \A d \in Carts : placed'[d] > 0 => placed[d] > 0
          /\ UNCHANGED <<product, created, storeOpen, lock>> /\ Insertable(c)
      <3>1. placed[c] \in Nat /\ placed[c] > 0
        BY <1>1, <2>1 DEF Typed
      <3>2. placed[c] - 1 \in Nat
        BY <3>1
      <3>3. QED
        BY <1>1, <1>6, <2>1, <3>1, <3>2 DEF ReturnOrder, Typed, Sound
    <2>3. "return" \in Kinds
      BY DEF Kinds
    <2> DEFINE q == [Idle EXCEPT !.pc = "readItem", !.lines = c]
    <2>4. q \in Request /\ q.pc = "readItem" /\ q.rows = <<>> /\ q.lines = c
      BY <1>3
    <2> HIDE DEF q
    <2>5. Begin(w, "return", q)
      BY <2>1 DEF q
    <2>6. QED
      BY <2>2, <2>3, <2>4, <2>5, BeginStep
  <1>7. CASE VendorPut(w)
    <2>1. PICK p \in Products, listed \in BOOLEAN :
             LET r == [product[p] EXCEPT !.shown = listed] IN
             /\ ~product[p].deleted
             /\ \/ Begin(w, "put", Holding("savePut", p, r))
                \/ \E n \in Counts :
                      Begin(w, "put", [Holding("savePut", p, [r EXCEPT !.count = n])
                                         EXCEPT !.counted = TRUE])
      BY <1>7 DEF VendorPut
    <2> DEFINE r == [product[p] EXCEPT !.shown = listed]
    <2>2. /\ placed' \in [Carts -> Nat] /\ UNCHANGED <<placed, product, created, storeOpen, lock>>
          /\ "put" \in Kinds /\ p \in created
      BY <1>1, <1>7, <2>1 DEF VendorPut, Typed, Kinds, Sound
    <2>3. r \in Row
      <3>1. product[p] \in Row
        BY <1>1 DEF Typed
      <3>2. QED
        BY <3>1 DEF Row
    <2>4. CASE Begin(w, "put", Holding("savePut", p, r))
      <3> HIDE DEF r
      <3>1. QED
        BY <1>4, <2>2, <2>3, <2>4, BeginStep
    <2>5. ASSUME NEW n \in Counts,
                 Begin(w, "put", [Holding("savePut", p, [r EXCEPT !.count = n])
                                    EXCEPT !.counted = TRUE])
          PROVE  IInv'
      <3> DEFINE h == Holding("savePut", p, [r EXCEPT !.count = n])
                 q == [h EXCEPT !.counted = TRUE]
      <3>1. [r EXCEPT !.count = n] \in Row
        <4>1. n \in Nat
          BY StockAssumption
        <4> HIDE DEF r
        <4>2. QED
          BY <2>3, <4>1 DEF Row
      <3> HIDE DEF r
      <3>2. h \in Request /\ h.pc = "savePut" /\ Len(h.rows) = 1 /\ Len(h.lines) = 1 /\ h.lines[1].p = p
        BY <1>4, <3>1
      <3>3. Begin(w, "put", q)
        BY <2>5
      <3> HIDE DEF h
      <3>4. q \in Request /\ q.pc = "savePut" /\ Len(q.rows) = 1 /\ Len(q.lines) = 1 /\ q.lines[1].p = p
        BY <3>2 DEF Request
      <3> HIDE DEF q
      <3>5. QED
        BY <2>2, <3>3, <3>4, BeginStep
    <2>6. QED
      BY <2>1, <2>4, <2>5
  <1>8. CASE VendorDelete(w)
    <2>1. PICK p \in Products : Begin(w, "delete", Holding("saveDelete", p, product[p]))
      BY <1>8 DEF VendorDelete
    <2>2. /\ placed' \in [Carts -> Nat] /\ UNCHANGED <<placed, product, created, storeOpen, lock>>
          /\ "delete" \in Kinds /\ product[p] \in Row
      BY <1>1, <1>8 DEF VendorDelete, Typed, Kinds
    <2>3. QED
      BY <1>4, <2>1, <2>2, BeginStep
  <1>9. CASE VendorPost(w)
    <2>1. PICK p \in Products, n \in Counts, listed \in BOOLEAN :
             Begin(w, "post", Holding("insertProduct", p, Listing(n, listed)))
      BY <1>9 DEF VendorPost
    <2>2. /\ placed' \in [Carts -> Nat] /\ UNCHANGED <<placed, product, created, storeOpen, lock>>
          /\ "post" \in Kinds
      BY <1>1, <1>9 DEF VendorPost, Typed, Kinds
    <2>3. Listing(n, listed) \in Row
      <3>1. n \in Nat
        BY StockAssumption
      <3>2. QED
        BY <3>1 DEF Listing, Row
    <2>4. QED
      BY <1>4, <2>1, <2>2, <2>3, BeginStep
  <1>10. QED
    BY <1>5, <1>6, <1>7, <1>8, <1>9, ToggleStep DEF Arrive

-----------------------------------------------------------------------------
\* Every step keeps the invariant.
LEMMA InductiveStep == IInv /\ [Next]_vars => IInv'
  <1> SUFFICES ASSUME IInv, [Next]_vars PROVE IInv'
    OBVIOUS
  <1>1. CASE UNCHANGED vars
    BY <1>1 DEF IInv, Typed, Sound, Standing, Current, AllRead, LastLine, vars
  <1>2. ASSUME NEW w \in Workers, Arrive(w) PROVE IInv'
    BY <1>2, ArriveStep
  <1>3. ASSUME NEW w \in Workers, Step(w) PROVE IInv'
    <2>1. CASE DeadlockVictim(w)
      <3>1. served' \in [Kinds \cup {"fault"} -> Nat]
        BY <2>1 DEF DeadlockVictim, IInv, Typed
      <3>2. QED
        BY <2>1, <3>1, RollbackStep DEF DeadlockVictim
    <2>2. QED
      BY <1>3, <2>1, LockProductStep, LockStoreStep, CommitOrderStep, ReadItemStep,
         SaveItemStep, SavePutStep, SaveDeleteStep, InsertProductStep DEF Step
  <1>4. ASSUME NEW w \in Workers, Fail(w) PROVE IInv'
    <2>1. served' \in [Kinds \cup {"fault"} -> Nat]
      <3>1. served["fault"] + 1 \in Nat /\ served \in [Kinds \cup {"fault"} -> Nat]
        BY DEF IInv, Typed
      <3>2. QED
        BY <1>4, <3>1 DEF Fail
    <2>2. QED
      BY <1>4, <2>1, RollbackStep DEF Fail
  <1>5. QED
    BY <1>1, <1>2, <1>3, <1>4 DEF Next

\* For every number of products, carts and requests: what a request that places an
\* order has read under its locks is what the rows still say when it commits.
THEOREM LockedIsCurrent == Spec => []HeldIsCurrent
  <1>1. IInv => HeldIsCurrent
    BY DEF IInv, HeldIsCurrent
  <1>2. QED
    BY <1>1, InitIInv, InductiveStep, PTL DEF Spec

\* What SaleIsExact says of one step.
ExactSale ==
    \A c \in Carts : placed'[c] > placed[c] =>
       /\ storeOpen
       /\ \A i \in DOMAIN c : ~product[c[i].p].deleted /\ product[c[i].p].count >= c[i].qty
       /\ \A p \in Products :
             product'[p].count = product[p].count - IF LinesOf(c, p) = {} THEN 0
                                                    ELSE c[Max(LinesOf(c, p))].qty

\* Only create_order's commit places an order, and it judged rows it has locked.
LEMMA SaleStep ==
    ASSUME IInv, Next
    PROVE  ExactSale
  <1> SUFFICES ASSUME NEW c \in Carts, placed'[c] > placed[c]
               PROVE  /\ storeOpen
                      /\ \A i \in DOMAIN c : /\ ~product[c[i].p].deleted
                                             /\ product[c[i].p].count >= c[i].qty
                      /\ \A p \in Products :
                            product'[p].count = product[p].count -
                               IF LinesOf(c, p) = {} THEN 0 ELSE c[Max(LinesOf(c, p))].qty
    BY DEF ExactSale
  <1>1. Typed /\ placed[c] \in Nat
    BY DEF IInv, Typed
  <1>2. PICK w \in Workers : CommitOrder(w)
    <2>1. ~UNCHANGED placed
      BY <1>1
    <2>2. ASSUME NEW w \in Workers, ReturnOrder(w) PROVE FALSE
      <3>1. PICK d \in Carts : placed' = [placed EXCEPT ![d] = @ - 1]
        BY <2>2 DEF ReturnOrder
      <3>2. placed[d] \in Nat /\ placed'[c] = IF c = d THEN placed[c] - 1 ELSE placed[c]
        BY <1>1, <3>1 DEF Typed
      <3>3. QED
        BY <1>1, <3>2
    <2>3. QED
      BY <2>1, <2>2 DEF Next, Arrive, Step, Fail, PlaceOrder, VendorPost, VendorPut,
         VendorDelete, StoreOpenToggle, LockProduct, LockStore, DeadlockVictim, ReadItem,
         SaveItem, InsertProduct, SavePut, SaveDelete
  <1>3. /\ req[w].pc = "commit" /\ product' = [p \in Products |-> Left(w, p)]
        /\ placed' = [placed EXCEPT ![req[w].lines] = @ + 1]
    <2>1. ~UNCHANGED placed
      BY <1>1
    <2>2. QED
      BY <1>2, <2>1 DEF CommitOrder
  <1>4. c = req[w].lines
    BY <1>1, <1>3 DEF Typed
  <1>5. storeOpen
    BY <1>3, OfRequest DEF Standing
  <1>6. ASSUME NEW i \in DOMAIN c
        PROVE  ~product[c[i].p].deleted /\ product[c[i].p].count >= c[i].qty
    <2>1. i \in DOMAIN req[w].rows
      <3>1. Len(req[w].rows) = Len(c)
        BY <1>3, <1>4, OfRequest DEF Standing, AllRead
      <3>2. req[w].rows \in Seq(Row) /\ c \in Seq(Line)
        BY <1>4, OfRequest
      <3>3. QED
        BY <3>1, <3>2
    <2>2. QED
      BY <1>3, <1>4, <2>1, OfRequest DEF Current, Standing, Placing
  <1>7. ASSUME NEW p \in Products
        PROVE  product'[p].count = product[p].count -
                  IF LinesOf(c, p) = {} THEN 0 ELSE c[Max(LinesOf(c, p))].qty
    <2>1. CASE LinesOf(c, p) = {}
      <3>1. product'[p] = product[p] /\ product[p].count \in Nat
        BY <1>1, <1>3, <1>4, <2>1, LeftIsRow DEF Typed, Row
      <3>2. QED
        BY <2>1, <3>1
    <2>2. CASE LinesOf(c, p) # {}
      BY <1>3, <1>4, <2>2, LeftIsRow
    <2>3. QED
      BY <2>1, <2>2
  <1>8. QED
    BY <1>5, <1>6, <1>7

\* For every number of products, carts and requests: a sale finds every line
\* listed and in sufficient stock, while the store is open, and takes of each
\* product what its last line asks for and of no other product anything.
THEOREM SalesExact == Spec => SaleIsExact
  <1>1. IInv /\ [Next]_vars => [ExactSale]_vars
    BY SaleStep
  <1>2. Spec => [][ExactSale]_vars
    BY <1>1, InitIInv, InductiveStep, PTL DEF Spec
  <1>3. QED
    BY <1>2 DEF SaleIsExact, ExactSale

-----------------------------------------------------------------------------
(* What the shelf shows                                                    *)

\* Requests are only ever counted up, and only a commit, a restocked item, a new
\* product, an edit or a deletion writes the shelf.
LEMMA ShelfFrame ==
    ASSUME IInv, Next
    PROVE  /\ \A k \in Kinds : served[k] \in Nat /\ served'[k] \in Nat /\ served'[k] >= served[k]
           /\ \/ UNCHANGED product
              \/ \E w \in Workers : \/ CommitOrder(w) \/ SaveItem(w) \/ InsertProduct(w)
                                    \/ SavePut(w) \/ SaveDelete(w)
  <1>1. served \in [Kinds \cup {"fault"} -> Nat]
    BY DEF IInv, Typed
  <1>2. ASSUME NEW kind \in Kinds \cup {"fault"}, served' = [served EXCEPT ![kind] = @ + 1],
               NEW k \in Kinds
        PROVE  served'[k] \in Nat /\ served'[k] >= served[k]
    BY <1>1, <1>2
  <1>3. ASSUME NEW w \in Workers, Arrive(w)
        PROVE  UNCHANGED product
                /\ (UNCHANGED served \/ \E k \in Kinds : served' = [served EXCEPT ![k] = @ + 1])
    BY <1>3 DEF Arrive, PlaceOrder, ReturnOrder, VendorPost, VendorPut, VendorDelete,
       StoreOpenToggle, Begin, Kinds
  <1>4. ASSUME NEW w \in Workers, Step(w)
        PROVE  /\ UNCHANGED served
               /\ \/ UNCHANGED product
                  \/ CommitOrder(w) \/ SaveItem(w) \/ InsertProduct(w) \/ SavePut(w) \/ SaveDelete(w)
    BY <1>4 DEF Step, LockProduct, LockStore, CommitOrder, DeadlockVictim, ReadItem,
       SaveItem, InsertProduct, SavePut, SaveDelete
  <1>5. ASSUME NEW w \in Workers, Fail(w)
        PROVE  UNCHANGED product /\ served' = [served EXCEPT !["fault"] = @ + 1]
    BY <1>5 DEF Fail
  <1>6. PICK w \in Workers : Arrive(w) \/ Step(w) \/ Fail(w)
    BY DEF Next
  <1>7. CASE Arrive(w)
    BY <1>1, <1>2, <1>3, <1>7
  <1>8. CASE Step(w)
    BY <1>1, <1>4, <1>8
  <1>9. CASE Fail(w)
    BY <1>1, <1>2, <1>5, <1>9
  <1>10. QED
    BY <1>6, <1>7, <1>8, <1>9

\* Which requests a step leaves alone.
LEMMA OthersWait ==
    ASSUME IInv, NEW w \in Workers, Arrive(w) \/ Step(w) \/ Fail(w), NEW v \in Workers \ {w}
    PROVE  req'[v] = req[v]
  BY DEF Arrive, PlaceOrder, ReturnOrder, VendorPost, VendorPut, VendorDelete,
     StoreOpenToggle, Begin, Step, LockProduct, LockStore, CommitOrder, DeadlockVictim, ReadItem,
     SaveItem, NextItem, InsertProduct, SavePut, SaveDelete, Fail, Rollback, Answer, IInv, Typed

\* What a request goes on to.
LEMMA GoesOnTo ==
    ASSUME IInv, NEW w \in Workers, Step(w) \/ Fail(w)
    PROVE  \/ req'[w].pc \in {"idle", "lockProduct", "lockStore", "commit"}
           \/ /\ UNCHANGED served /\ req'[w].lines = req[w].lines
              /\ \/ req[w].pc = "readItem" /\ req'[w].pc = "saveItem"
                 \/ req[w].pc = "saveItem" /\ req'[w].pc = "readItem"
                 \/ InsertProduct(w) /\ req'[w].pc = "savePut" /\ req'[w].rows = req[w].rows
  <1>1. Typed /\ req[w] \in Request
    BY DEF IInv, Typed
  <1>2. CASE req' = [req EXCEPT ![w] = Idle]
    BY <1>1, <1>2 DEF Idle, Typed
  <1>3. CASE LockProduct(w) /\ ~Rollback(w)
    <2> DEFINE r == Append(req[w].rows, product[NextLine(w).p])
               q == [req[w] EXCEPT !.rows = r]
               s == IF AllRead(q) THEN "lockStore" ELSE q.pc
    <2>1. req'[w] = [q EXCEPT !.pc = s] /\ req[w].pc = "lockProduct"
      BY <1>1, <1>3 DEF LockProduct, Typed
    <2> HIDE DEF r
    <2>2. q.pc = req[w].pc /\ [q EXCEPT !.pc = s].pc = s
      BY <1>1 DEF Request
    <2> HIDE DEF q
    <2>3. QED
      BY <2>1, <2>2
  <1>4. CASE LockStore(w) /\ ~Rollback(w)
    BY <1>1, <1>4 DEF LockStore, Typed, Request
  <1>5. CASE ReadItem(w)
    BY <1>1, <1>5 DEF ReadItem, Typed, Request
  <1>6. CASE SaveItem(w) /\ ~AllRead(req[w])
    <2>1. /\ req[w].pc = "saveItem" /\ req'[w] = [req[w] EXCEPT !.pc = "readItem"]
          /\ served' = served
      BY <1>1, <1>6 DEF SaveItem, NextItem, Typed
    <2>2. req'[w].pc = "readItem" /\ req'[w].lines = req[w].lines
      BY <1>1, <2>1 DEF Request
    <2>3. QED
      BY <2>1, <2>2
  <1>7. CASE InsertProduct(w) /\ ~Answer(w)
    <2>1. req' = [req EXCEPT ![w].pc = "savePut"] /\ UNCHANGED served
      BY <1>7 DEF InsertProduct
    <2>2. QED
      BY <1>1, <1>7, <2>1 DEF Typed, Request
  <1>8. \/ req' = [req EXCEPT ![w] = Idle]
        \/ LockProduct(w) /\ ~Rollback(w)
        \/ LockStore(w) /\ ~Rollback(w)
        \/ ReadItem(w)
        \/ SaveItem(w) /\ ~AllRead(req[w])
        \/ InsertProduct(w) /\ ~Answer(w)
    BY DEF Step, CommitOrder, DeadlockVictim, SavePut, SaveDelete, SaveItem, NextItem, Fail,
       Rollback, Answer
  <1>9. QED
    BY <1>2, <1>3, <1>4, <1>5, <1>6, <1>7, <1>8

\* A request that writes a row of its own making has been counted when it began.
LEMMA AccountedStep ==
    ASSUME IInv, Next, \A v \in Workers : Accounted(v), NEW v \in Workers
    PROVE  Accounted(v)'
  <1>1. /\ Typed /\ req[v] \in Request /\ Accounted(v)
        /\ \A k \in Kinds : served[k] \in Nat /\ served'[k] \in Nat /\ served'[k] >= served[k]
        /\ served \in [Kinds \cup {"fault"} -> Nat] /\ {"return", "put", "post"} \subseteq Kinds
    BY ShelfFrame DEF IInv, Typed, Kinds
  <1>2. PICK w \in Workers : Arrive(w) \/ Step(w) \/ Fail(w)
    BY DEF Next
  <1>3. CASE req'[v].pc = req[v].pc /\ req'[v].lines = req[v].lines
    BY <1>1, <1>3 DEF Accounted
  <1>4. CASE req'[v].pc \notin {"readItem", "saveItem", "insertProduct", "savePut"}
    BY <1>4 DEF Accounted
  <1>5. CASE v # w
    BY <1>2, <1>3, <1>5, OthersWait
  <1>6. CASE v = w /\ Arrive(w)
    <2>1. CASE PlaceOrder(w)
      <3>1. req'[w].pc = "lockProduct"
        BY <1>1, <2>1 DEF PlaceOrder, Begin, Typed, Idle
      <3>2. QED
        BY <1>4, <1>6, <3>1
    <2>2. CASE ReturnOrder(w)
      <3>1. PICK c \in Carts : Begin(w, "return", [Idle EXCEPT !.pc = "readItem", !.lines = c])
        BY <2>2 DEF ReturnOrder
      <3>2. req'[w] = [Idle EXCEPT !.pc = "readItem", !.lines = c] /\ served'["return"] = served["return"] + 1
        BY <1>1, <3>1 DEF Begin, Typed
      <3>3. req'[w].pc = "readItem" /\ req'[w].lines = c
        BY <3>2 DEF Idle
      <3>4. QED
        BY <1>1, <1>6, <3>2, <3>3 DEF Accounted
    <2>3. CASE VendorPost(w)
      <3>1. req'[w].pc = "insertProduct" /\ served'["post"] = served["post"] + 1
        BY <1>1, <2>3 DEF VendorPost, Begin, Holding, Idle, Typed
      <3>2. QED
        BY <1>1, <1>6, <3>1 DEF Accounted
    <2>4. CASE VendorPut(w)
      <3>1. PICK q : q.pc = "savePut" /\ Begin(w, "put", q)
        BY <2>4 DEF VendorPut, Holding, Idle
      <3>2. req'[w].pc = "savePut" /\ served'["put"] = served["put"] + 1
        BY <1>1, <3>1 DEF Begin, Typed
      <3>3. QED
        BY <1>1, <1>6, <3>2 DEF Accounted
    <2>5. CASE VendorDelete(w)
      <3>1. req'[w].pc = "saveDelete"
        BY <1>1, <2>5 DEF VendorDelete, Begin, Holding, Idle, Typed
      <3>2. QED
        BY <1>4, <1>6, <3>1
    <2>6. CASE StoreOpenToggle(w)
      BY <1>3, <2>6 DEF StoreOpenToggle
    <2>7. QED
      BY <1>6, <2>1, <2>2, <2>3, <2>4, <2>5, <2>6 DEF Arrive
  <1>7. CASE v = w /\ (Step(w) \/ Fail(w))
    <2>1. CASE req'[w].pc \notin {"readItem", "saveItem", "insertProduct", "savePut"}
      BY <1>4, <1>7, <2>1
    <2>2. CASE /\ UNCHANGED served /\ req'[w].lines = req[w].lines
               /\ \/ req[w].pc = "readItem" /\ req'[w].pc = "saveItem"
                  \/ req[w].pc = "saveItem" /\ req'[w].pc = "readItem"
                  \/ InsertProduct(w) /\ req'[w].pc = "savePut" /\ req'[w].rows = req[w].rows
      BY <1>1, <1>7, <2>2 DEF Accounted, InsertProduct
    <2>3. QED
      BY <1>7, <2>1, <2>2, GoesOnTo
  <1>8. QED
    BY <1>2, <1>5, <1>6, <1>7

\* What the shelf says of one product, as long as nobody has edited one.
Honest(p) ==
    /\ product[p].count > 0 => product[p].shown
    /\ served["return"] = 0 \/ NeverZero(p) => (product[p].shown => product[p].count > 0)

LEMMA ShelfInit == Init => ShelfInv
  <1> SUFFICES ASSUME Init PROVE ShelfInv
    OBVIOUS
  <1>1. \A w \in Workers : Accounted(w)
    BY DEF Init, Accounted, Idle
  <1>2. ASSUME NEW p \in Products PROVE Honest(p)
    <2>1. PICK f \in [created -> Counts] :
             product = [q \in Products |-> IF q \in created THEN Listing(f[q], f[q] > 0) ELSE NoRow]
      BY DEF Init
    <2>2. CASE p \in created
      <3>1. product[p].count = f[p] /\ (product[p].shown <=> f[p] > 0)
        BY <2>1, <2>2, Zenon DEF Listing
      <3>2. QED
        BY <3>1 DEF Honest
    <2>3. CASE p \notin created
      <3>1. product[p] = NoRow
        BY <2>1, <2>3
      <3>2. product[p].count = 0 /\ ~product[p].shown
        BY <3>1 DEF NoRow
      <3>3. QED
        BY <3>2 DEF Honest
    <2>4. QED
      BY <2>2, <2>3
  <1>3. QED
    BY <1>1, <1>2 DEF ShelfInv, SoldOutHidden, Honest

\* A sale hides what it sells out: the copy it writes back is what the row says.
LEMMA CommitHonest ==
    ASSUME IInv, NEW w \in Workers, CommitOrder(w), NEW p \in Products, Honest(p)
    PROVE  Honest(p)'
  <1>1. Typed /\ served' = served /\ req[w].pc = "commit" /\ product[p] \in Row
    BY DEF CommitOrder, IInv, Typed
  <1> DEFINE c == req[w].lines
             i == Max(LinesOf(c, p))
             n == req[w].rows[i].count - c[i].qty
             s == n # 0 /\ req[w].rows[i].shown
  <1>2. CASE product'[p] = product[p]
    BY <1>1, <1>2 DEF Honest, NeverZero, LinesOf
  <1>3. CASE /\ Insertable(c) /\ LinesOf(c, p) # {}
             /\ product' = [r \in Products |-> Left(w, r)]
    <2>1. /\ DOMAIN c = 1 .. Len(c) /\ Len(c) \in Nat /\ DOMAIN req[w].rows = DOMAIN c
      <3>1. Len(req[w].rows) = Len(c) /\ c \in Seq(Line) /\ req[w].rows \in Seq(Row)
        BY <1>1, OfRequest DEF Standing, AllRead
      <3>2. QED
        BY <3>1
    <2>2. i \in LinesOf(c, p)
      <3>1. LinesOf(c, p) \in SUBSET (1 .. Len(c))
        BY <2>1 DEF LinesOf
      <3>2. QED
        BY <1>3, <2>1, <3>1, MaxExists
    <2>3. i \in DOMAIN c /\ c[i].p = p /\ c[i].qty \in Int /\ c[i].qty >= 0
      BY <1>3, <2>2, OfRequest DEF LinesOf, Line, Insertable
    <2>4. req[w].rows[i] = product[p] /\ product[p].count >= c[i].qty
      BY <1>1, <2>1, <2>3, OfRequest DEF Current, Standing, Placing
    <2>5. product'[p] = [product[p] EXCEPT !.count = n, !.shown = s]
      BY <1>3 DEF Left
    <2>6. n = product[p].count - c[i].qty /\ n >= 0 /\ n \in Nat /\ (s <=> n # 0 /\ product[p].shown)
      BY <1>1, <2>3, <2>4 DEF Row
    <2> HIDE DEF n, s
    <2>7. product'[p].count = n /\ product'[p].shown = s
      BY <1>1, <2>5 DEF Row
    <2>8. product[p].count \in Nat /\ (n > 0 => product[p].count > 0)
      BY <1>1, <2>3, <2>6 DEF Row
    <2>9. QED
      BY <2>6, <2>7, <2>8 DEF Honest
  <1>4. CASE LinesOf(c, p) = {} /\ product' = [r \in Products |-> Left(w, r)]
    BY <1>2, <1>4 DEF Left
  <1>5. QED
    BY <1>2, <1>3, <1>4 DEF CommitOrder

\* What is put back is listed, and is more than nothing unless nothing was bought.
LEMMA SaveItemHonest ==
    ASSUME IInv, NEW w \in Workers, Accounted(w), SaveItem(w), NEW p \in Products, Honest(p)
    PROVE  Honest(p)'
  <1> DEFINE l == LastLine(w)
             n == LastRow(w).count + l.qty
             k == Len(req[w].rows)
  <1>1. /\ Typed /\ served' = served /\ product[p] \in Row
        /\ req[w].pc = "saveItem" /\ req[w].lines \in Carts /\ served["return"] > 0
        /\ product' = [product EXCEPT ![l.p].count = n, ![l.p].shown = TRUE]
        /\ l \in Line /\ LastRow(w) \in Row
    BY OfSaver DEF SaveItem, IInv, Typed, Accounted
  <1>2. CASE p # l.p
    <2>1. product'[p] = product[p]
      BY <1>1, <1>2 DEF Typed
    <2>2. QED
      BY <1>1, <2>1 DEF Honest, NeverZero, LinesOf
  <1>3. CASE p = l.p
    <2>1. k \in DOMAIN req[w].lines /\ Insertable(req[w].lines)
      <3>1. /\ req[w].rows # <<>> /\ req[w].rows \in Seq(Row) /\ req[w].lines \in Seq(Line)
            /\ k <= Len(req[w].lines) /\ Insertable(req[w].lines)
        BY <1>1, OfRequest DEF Standing
      <3>2. QED
        BY <3>1
    <2>2. l = req[w].lines[k] /\ l.qty >= 0 /\ l.qty \in Int /\ LastRow(w).count \in Nat
      BY <1>1, <2>1 DEF LastLine, Insertable, Line, Row
    <2>3. NeverZero(p) => l.qty # 0
      BY <1>1, <1>3, <2>1, <2>2 DEF NeverZero, LinesOf
    <2>4. NeverZero(p) => n > 0
      BY <2>2, <2>3
    <2> HIDE DEF n, l
    <2>5. product'[p].count = n /\ product'[p].shown
      BY <1>1, <1>3 DEF Typed, Row
    <2>6. served["return"] # 0 /\ NeverZero(p)' = NeverZero(p)
      <3>1. served["return"] \in Nat
        BY <1>1 DEF Typed, Kinds
      <3>2. QED
        BY <1>1, <3>1 DEF NeverZero, LinesOf
    <2>7. QED
      BY <1>1, <2>4, <2>5, <2>6 DEF Honest
  <1>4. QED
    BY <1>2, <1>3

LEMMA ShelfStep == IInv /\ ShelfInv /\ [Next]_vars => ShelfInv'
  <1> SUFFICES ASSUME IInv, ShelfInv, [Next]_vars PROVE ShelfInv'
    OBVIOUS
  <1>1. CASE UNCHANGED vars
    BY <1>1 DEF ShelfInv, SoldOutHidden, Accounted, NeverZero, LinesOf, vars
  <1>2. CASE Next
    <2>1. \A w \in Workers : Accounted(w)'
      BY <1>2, AccountedStep DEF ShelfInv
    <2>2. ASSUME served'["put"] = 0, served'["post"] = 0, NEW p \in Products
          PROVE  Honest(p)'
      <3>1. /\ \A k \in Kinds : served[k] \in Nat /\ served'[k] \in Nat /\ served'[k] >= served[k]
            /\ {"put", "post", "return"} \subseteq Kinds
        BY <1>2, ShelfFrame DEF Kinds
      <3>2. served["put"] = 0 /\ served["post"] = 0 /\ Honest(p)
        BY <2>2, <3>1 DEF ShelfInv, SoldOutHidden, Honest
      <3>3. CASE product'[p].count = product[p].count /\ product'[p].shown = product[p].shown
        <4>1. served'["return"] = 0 => served["return"] = 0
          BY <3>1
        <4>2. NeverZero(p)' = NeverZero(p)
          BY DEF NeverZero, LinesOf
        <4>3. QED
          BY <3>2, <3>3, <4>1, <4>2 DEF Honest
      <3>4. ASSUME NEW w \in Workers, CommitOrder(w) PROVE Honest(p)'
        BY <3>2, <3>4, CommitHonest
      <3>5. ASSUME NEW w \in Workers, SaveItem(w) PROVE Honest(p)'
        BY <3>2, <3>5, SaveItemHonest DEF ShelfInv
      <3>6. ASSUME NEW w \in Workers, InsertProduct(w) \/ SavePut(w) PROVE FALSE
        BY <3>2, <3>6 DEF ShelfInv, Accounted, InsertProduct, SavePut
      <3>7. ASSUME NEW w \in Workers, SaveDelete(w) PROVE Honest(p)'
        <4> DEFINE q == LastLine(w).p
        <4>1. product' = [product EXCEPT ![q].deleted = TRUE] /\ product \in [Products -> Row]
          BY <3>7 DEF SaveDelete, IInv, Typed
        <4> HIDE DEF q
        <4>2. product'[p].count = product[p].count /\ product'[p].shown = product[p].shown
          BY <4>1 DEF Row
        <4>3. QED
          BY <3>3, <4>2
      <3>8. QED
        BY <1>2, <3>3, <3>4, <3>5, <3>6, <3>7, ShelfFrame
    <2>3. SoldOutHidden'
      BY <2>2 DEF SoldOutHidden, Honest
    <2>4. QED
      BY <2>1, <2>3 DEF ShelfInv
  <1>3. QED
    BY <1>1, <1>2

\* For every number of products, carts and requests, whatever overlaps or is cut
\* short: as long as no seller has entered or edited a product, what is in stock
\* is listed as in stock and what is sold out is not.
THEOREM ShelfShown == Spec => []SoldOutHidden
  <1>1. IInv /\ ShelfInv => SoldOutHidden
    BY DEF ShelfInv
  <1>2. Init => IInv /\ ShelfInv
    BY InitIInv, ShelfInit
  <1>3. IInv /\ ShelfInv /\ [Next]_vars => (IInv /\ ShelfInv)'
    BY InductiveStep, ShelfStep
  <1>4. QED
    BY <1>1, <1>2, <1>3, PTL DEF Spec

-----------------------------------------------------------------------------
(* Deleted products                                                        *)

\* One by one, no edit in hand is of a product that is deleted, or deletes it.
EditInv ==
    regular =>
        /\ \A v, w \in Workers : req[v].pc # "idle" /\ req[w].pc # "idle" => v = w
        /\ \A w \in Workers :
              /\ req[w].pc = "savePut" => ~product[LastLine(w).p].deleted /\ ~LastRow(w).deleted
              /\ req[w].pc = "insertProduct" => ~LastRow(w).deleted

\* A step keeps that if w moves by itself and no two run at a time.
LEMMA EditDone ==
    ASSUME NEW w \in Workers, \A v \in Workers \ {w} : req'[v] = req[v],
           regular' =>
              /\ \A v \in Workers \ {w} : req[v].pc = "idle"
              /\ req'[w].pc = "savePut" => (~product[LastLine(w).p].deleted /\ ~LastRow(w).deleted)'
              /\ req'[w].pc = "insertProduct" => (~LastRow(w).deleted)'
    PROVE  EditInv'
  <1>1. SUFFICES ASSUME regular' PROVE EditInv'
    BY DEF EditInv
  <1>2. \A v \in Workers : v # w => req'[v].pc = "idle"
    BY <1>1
  <1>3. \A v, u \in Workers : req'[v].pc # "idle" /\ req'[u].pc # "idle" => v = u
    BY <1>2
  <1>4. ASSUME NEW v \in Workers
        PROVE  /\ req'[v].pc = "savePut" => (~product[LastLine(v).p].deleted /\ ~LastRow(v).deleted)'
               /\ req'[v].pc = "insertProduct" => (~LastRow(v).deleted)'
    <2>1. CASE v = w
      BY <1>1, <2>1
    <2>2. CASE v # w
      BY <1>2, <2>2
    <2>3. QED
      BY <2>1, <2>2
  <1>5. QED
    BY <1>3, <1>4 DEF EditInv

\* What an edit has in hand as it begins.
LEMMA PutBegins ==
    ASSUME Typed, NEW w \in Workers, VendorPut(w)
    PROVE  \E p \in Products : \E r, q :
              /\ ~product[p].deleted /\ ~r.deleted /\ Begin(w, "put", q)
              /\ q.pc = "savePut" /\ q.lines = <<[p |-> p, qty |-> 1]>> /\ q.rows = <<r>>
              /\ q.counted \/ r.count = product[p].count
  <1>1. PICK p \in Products, listed \in BOOLEAN :
           LET r == [product[p] EXCEPT !.shown = listed] IN
           /\ ~product[p].deleted
           /\ \/ Begin(w, "put", Holding("savePut", p, r))
              \/ \E n \in Counts :
                    Begin(w, "put", [Holding("savePut", p, [r EXCEPT !.count = n])
                                       EXCEPT !.counted = TRUE])
    BY DEF VendorPut
  <1>2. PICK r : r = [product[p] EXCEPT !.shown = listed]
    OBVIOUS
  <1>3. r \in Row /\ ~r.deleted /\ r.count = product[p].count
    BY <1>1, <1>2 DEF Row, Typed
  <1>4. CASE Begin(w, "put", Holding("savePut", p, r))
    <2>1. PICK q : q = Holding("savePut", p, r)
      OBVIOUS
    <2>2. q.pc = "savePut" /\ q.lines = <<[p |-> p, qty |-> 1]>> /\ q.rows = <<r>>
      BY <2>1 DEF Holding, Idle
    <2>3. Begin(w, "put", q)
      BY <1>4, <2>1
    <2>4. QED
      BY <1>1, <1>3, <2>2, <2>3
  <1>5. CASE \E n \in Counts :
               Begin(w, "put", [Holding("savePut", p, [r EXCEPT !.count = n]) EXCEPT !.counted = TRUE])
    <2>1. PICK n \in Counts :
             Begin(w, "put", [Holding("savePut", p, [r EXCEPT !.count = n]) EXCEPT !.counted = TRUE])
      BY <1>5
    <2>2. PICK s : s = [r EXCEPT !.count = n]
      OBVIOUS
    <2>3. ~s.deleted
      BY <1>3, <2>2 DEF Row
    <2>4. PICK q : q = [Holding("savePut", p, s) EXCEPT !.counted = TRUE]
      OBVIOUS
    <2>5. q.pc = "savePut" /\ q.lines = <<[p |-> p, qty |-> 1]>> /\ q.rows = <<s>> /\ q.counted
      BY <2>4 DEF Holding, Idle
    <2>6. Begin(w, "put", q)
      BY <2>1, <2>2, <2>4
    <2>7. QED
      BY <1>1, <2>3, <2>5, <2>6
  <1>6. QED
    BY <1>1, <1>2, <1>4, <1>5

\* The one row a request holds and its line.
LEMMA HeldFirst ==
    ASSUME NEW w, NEW p, NEW r,
           req'[w].lines = <<[p |-> p, qty |-> 1]>>, req'[w].rows = <<r>>
    PROVE  LastLine(w)'.p = p /\ LastRow(w)' = r
  <1>1. PICK l : l = [p |-> p, qty |-> 1]
    OBVIOUS
  <1>2. Len(<<r>>) = 1 /\ <<r>>[1] = r /\ <<l>>[1] = l /\ l.p = p
    BY <1>1
  <1>3. LastLine(w)' = l /\ LastRow(w)' = r
    BY <1>1, <1>2 DEF LastLine, LastRow
  <1>4. QED
    BY <1>2, <1>3

LEMMA EditBegins ==
    ASSUME IInv, EditInv, NEW w \in Workers, Arrive(w)
    PROVE  EditInv'
  <1>1. Typed /\ \A v \in Workers \ {w} : req'[v] = req[v]
    BY OthersWait DEF IInv
  <1>2. ASSUME NEW kind, NEW q, Begin(w, kind, q)
        PROVE  /\ req'[w] = q
               /\ regular' => \A v \in Workers : req[v].pc = "idle"
    BY <1>1, <1>2 DEF Begin, Quiet, Typed
  <1>3. CASE PlaceOrder(w) \/ ReturnOrder(w)
    <2>1. PICK kind, q : Begin(w, kind, q) /\ q.pc \in {"lockProduct", "readItem"}
      <3>1. CASE PlaceOrder(w)
        <4>1. PICK c \in Carts : Begin(w, "place", [Idle EXCEPT !.pc = "lockProduct", !.lines = c])
          BY <3>1 DEF PlaceOrder
        <4>2. [Idle EXCEPT !.pc = "lockProduct", !.lines = c].pc = "lockProduct"
          BY DEF Idle
        <4>3. QED
          BY <4>1, <4>2
      <3>2. CASE ReturnOrder(w)
        <4>1. PICK c \in Carts : Begin(w, "return", [Idle EXCEPT !.pc = "readItem", !.lines = c])
          BY <3>2 DEF ReturnOrder
        <4>2. [Idle EXCEPT !.pc = "readItem", !.lines = c].pc = "readItem"
          BY DEF Idle
        <4>3. QED
          BY <4>1, <4>2
      <3>3. QED
        BY <1>3, <3>1, <3>2
    <2>2. QED
      BY <1>1, <1>2, <2>1, EditDone
  <1>4. CASE VendorPost(w)
    <2>1. PICK p \in Products, n \in Counts, listed \in BOOLEAN :
             Begin(w, "post", Holding("insertProduct", p, Listing(n, listed)))
      BY <1>4 DEF VendorPost
    <2>2. PICK r : r = Listing(n, listed)
      OBVIOUS
    <2>3. PICK q : q = Holding("insertProduct", p, r)
      OBVIOUS
    <2>4. q.pc = "insertProduct" /\ q.rows = <<r>> /\ ~r.deleted
      <3>1. ~r.deleted
        BY <2>2 DEF Listing
      <3>2. QED
        BY <2>3, <3>1 DEF Holding, Idle
    <2>5. req'[w] = q /\ (regular' => \A v \in Workers : req[v].pc = "idle")
      BY <1>2, <2>1, <2>2, <2>3
    <2>6. (~LastRow(w).deleted)'
      <3>1. Len(<<r>>) = 1 /\ <<r>>[1] = r
        OBVIOUS
      <3>2. LastRow(w)' = r
        BY <2>4, <2>5, <3>1 DEF LastRow
      <3>3. QED
        BY <2>4, <3>2
    <2>7. QED
      BY <1>1, <2>4, <2>5, <2>6, EditDone
  <1>5. CASE VendorPut(w)
    <2> DEFINE First(p, r, q) ==
             /\ ~product[p].deleted /\ ~r.deleted /\ Begin(w, "put", q)
             /\ q.pc = "savePut" /\ q.lines = <<[p |-> p, qty |-> 1]>> /\ q.rows = <<r>>
    <2>0. PICK p \in Products : \E r, q : First(p, r, q)
      BY <1>1, <1>5, PutBegins
    <2>1. PICK r, q : First(p, r, q)
      BY <2>0
    <2>2. req'[w] = q /\ (regular' => \A v \in Workers : req[v].pc = "idle")
      BY <1>2, <2>1
    <2>3. product' = product
      BY <1>5 DEF VendorPut
    <2>4. LastLine(w)'.p = p /\ LastRow(w)' = r
      BY <2>1, <2>2, HeldFirst
    <2>5. (~product[LastLine(w).p].deleted /\ ~LastRow(w).deleted)'
      BY <2>1, <2>3, <2>4
    <2>6. QED
      BY <1>1, <2>1, <2>2, <2>5, EditDone
  <1>6. CASE VendorDelete(w)
    <2>1. PICK p \in Products : Begin(w, "delete", Holding("saveDelete", p, product[p]))
      BY <1>6 DEF VendorDelete
    <2>2. Holding("saveDelete", p, product[p]).pc = "saveDelete"
      BY DEF Holding, Idle
    <2>3. QED
      BY <1>1, <1>2, <2>1, <2>2, EditDone
  <1>7. CASE StoreOpenToggle(w)
    BY <1>7 DEF StoreOpenToggle, EditInv, LastLine, LastRow
  <1>8. QED
    BY <1>3, <1>4, <1>5, <1>6, <1>7 DEF Arrive

\* Only a request that is being served goes on.
LEMMA Serving ==
    ASSUME NEW w \in Workers, Step(w) \/ Fail(w)
    PROVE  req[w].pc # "idle" /\ (regular' => regular)
  <1>1. CASE DeadlockVictim(w)
    <2>1. PICK v \in Workers : Blocks(v, w)
      BY <1>1 DEF DeadlockVictim
    <2>2. QED
      BY <1>1, <2>1 DEF Blocks, Wanted, DeadlockVictim
  <1>2. CASE LockProduct(w) \/ LockStore(w) \/ ReadItem(w) \/ SaveItem(w) \/ InsertProduct(w)
    BY <1>2 DEF LockProduct, LockStore, ReadItem, SaveItem, InsertProduct
  <1>3. CASE SavePut(w) \/ SaveDelete(w) \/ Fail(w)
    BY <1>3 DEF SavePut, SaveDelete, Fail
  <1>4. CASE CommitOrder(w)
    <2>1. req[w].pc = "commit"
      BY <1>4 DEF CommitOrder
    <2>2. CASE UNCHANGED regular
      BY <2>1, <2>2
    <2>3. CASE regular' = (regular /\ Distinct(req[w].lines))
      <3>1. regular' => regular
        BY <2>3
      <3>2. QED
        BY <2>1, <3>1
    <2>4. QED
      BY <1>4, <2>2, <2>3 DEF CommitOrder
  <1>5. QED
    BY <1>1, <1>2, <1>3, <1>4 DEF Step

LEMMA EditGoesOn ==
    ASSUME IInv, EditInv, NEW w \in Workers, Step(w) \/ Fail(w)
    PROVE  EditInv'
  <1>1. \A v \in Workers \ {w} : req'[v] = req[v]
    BY OthersWait
  <1>2. regular' => regular /\ \A v \in Workers \ {w} : req[v].pc = "idle"
    BY Serving DEF EditInv
  <1>3. CASE req'[w].pc \notin {"insertProduct", "savePut"}
    BY <1>1, <1>2, <1>3, EditDone
  <1>4. CASE InsertProduct(w) /\ req'[w].lines = req[w].lines /\ req'[w].rows = req[w].rows
             /\ req'[w].pc = "savePut"
    <2>1. LastLine(w)' = LastLine(w) /\ LastRow(w)' = LastRow(w)
      BY <1>4 DEF LastLine, LastRow
    <2>2. req[w].pc = "insertProduct" /\ LastLine(w).p \in Products /\ Typed
      BY <1>4, OfSaver DEF InsertProduct, Line, IInv
    <2>3. product'[LastLine(w).p] = LastRow(w)
      <3>1. ~Answer(w)
        <4>1. Answer(w) => req'[w].pc = "idle"
          BY <2>2 DEF Answer, Idle, Typed
        <4>2. QED
          BY <1>4, <4>1
      <3>2. QED
        BY <1>4, <2>2, <3>1 DEF InsertProduct, Typed
    <2>4. regular => ~LastRow(w).deleted
      BY <2>2 DEF EditInv
    <2>5. QED
      BY <1>1, <1>2, <1>4, <2>1, <2>3, <2>4, EditDone
  <1>5. QED
    BY <1>3, <1>4, GoesOnTo

LEMMA EditStep == IInv /\ EditInv /\ [Next]_vars => EditInv'
  <1>1. ASSUME UNCHANGED vars, EditInv PROVE EditInv'
    BY <1>1 DEF vars, EditInv, LastLine, LastRow
  <1>2. QED
    BY <1>1, EditBegins, EditGoesOn DEF Next

\* No other writer of a product's row takes the mark of deletion off.
LEMMA DeletedStep ==
    ASSUME IInv, EditInv, [Next]_vars, regular, NEW p \in created, product[p].deleted
    PROVE  product'[p].deleted
  <1>1. Typed /\ product \in [Products -> Row] /\ p \in Products /\ product[p] \in Row
    BY DEF IInv, Typed
  <1>2. CASE UNCHANGED product
    BY <1>2
  <1>3. ASSUME NEW w \in Workers, CommitOrder(w)
        PROVE  product'[p].deleted
    <2>1. CASE UNCHANGED product
      BY <2>1
    <2>2. CASE product' = [q \in Products |-> Left(w, q)]
      <3>1. product'[p] = Left(w, p)
        BY <1>1, <2>2
      <3>2. CASE LinesOf(req[w].lines, p) = {}
        BY <3>1, <3>2 DEF Left
      <3>3. CASE LinesOf(req[w].lines, p) # {}
        <4>1. PICK n, b : product'[p] = [product[p] EXCEPT !.count = n, !.shown = b]
          BY <3>1, <3>3 DEF Left
        <4>2. QED
          BY <1>1, <4>1 DEF Row
      <3>4. QED
        BY <3>2, <3>3
    <2>3. QED
      BY <1>3, <2>1, <2>2 DEF CommitOrder
  <1>4. ASSUME NEW w \in Workers, SaveItem(w) \/ SaveDelete(w)
        PROVE  product'[p].deleted
    <2>1. PICK l : l = LastLine(w)
      OBVIOUS
    <2>2. PICK n : n = LastRow(w).count + l.qty
      OBVIOUS
    <2>3. \/ product' = [product EXCEPT ![l.p].count = n, ![l.p].shown = TRUE]
          \/ product' = [product EXCEPT ![l.p].deleted = TRUE]
      BY <1>4, <2>1, <2>2 DEF SaveItem, SaveDelete
    <2>4. QED
      BY <1>1, <2>3 DEF Row
  <1>5. ASSUME NEW w \in Workers, InsertProduct(w)
        PROVE  product'[p].deleted
    BY <1>1, <1>5 DEF InsertProduct
  <1>6. ASSUME NEW w \in Workers, SavePut(w)
        PROVE  product'[p].deleted
    BY <1>1, <1>6 DEF SavePut, EditInv
  <1>7. QED
    <2>1. CASE UNCHANGED vars
      BY <1>2, <2>1 DEF vars
    <2>2. CASE Next
      BY <1>2, <1>3, <1>4, <1>5, <1>6, <2>2, ShelfFrame
    <2>3. QED
      BY <2>1, <2>2

\* As long as requests are served one by one, a deleted product is never listed
\* again, by an edit or by a returned order.
THEOREM DeletedForGood == Spec => DeletedStays
  <1>1. Init => IInv /\ EditInv
    <2>1. Init => EditInv
      BY DEF Init, EditInv, Idle
    <2>2. QED
      BY <2>1, InitIInv
  <1>2. IInv /\ EditInv /\ [Next]_vars => (IInv /\ EditInv)'
    BY InductiveStep, EditStep
  <1>3. IInv /\ EditInv /\ [Next]_vars =>
           [regular => \A p \in created : product[p].deleted => product'[p].deleted]_vars
    BY DeletedStep
  <1>4. QED
    BY <1>1, <1>2, <1>3, PTL DEF Spec, DeletedStays

-----------------------------------------------------------------------------
(* The count of the stock                                                  *)

LEMMA LinesFinite ==
    ASSUME NEW c \in Seq(Line), NEW p
    PROVE  IsFiniteSet(LinesOf(c, p)) /\ LinesOf(c, p) \subseteq DOMAIN c
  <1>1. DOMAIN c = 1 .. Len(c) /\ Len(c) \in Nat
    OBVIOUS
  <1>2. IsFiniteSet(DOMAIN c)
    <2>1. 1 \in Int /\ Len(c) \in Int
      BY <1>1
    <2>2. QED
      BY <1>1, <2>1, FS_Interval
  <1>3. LinesOf(c, p) \subseteq DOMAIN c
    BY DEF LinesOf
  <1>4. QED
    BY <1>2, <1>3, FS_Subset

\* What an order takes of a product sums up the quantities of its lines.
LEMMA QuantitySums ==
    ASSUME NEW c \in Seq(Line), NEW p
    PROVE  \E f, g : /\ f = [i \in DOMAIN c |-> c[i].qty] /\ Sums(g, f, LinesOf(c, p))
                     /\ Quantity(c, p) = g[LinesOf(c, p)]
  <1> DEFINE S == LinesOf(c, p)
             It(g) == g = [s \in SUBSET S |->
                             IF s = {} THEN 0 ELSE c[One(s)].qty + g[s \ {One(s)}]]
  <1>1. PICK f : f = [i \in DOMAIN c |-> c[i].qty]
    OBVIOUS
  <1>2. IsFiniteSet(S) /\ S \subseteq DOMAIN c
    BY LinesFinite
  <1>3. \A s \in SUBSET S : s # {} => f[One(s)] = c[One(s)].qty
    <2>1. \A s \in SUBSET S : s # {} => One(s) \in DOMAIN c
      BY <1>2, OneLess
    <2>2. QED
      BY <1>1, <2>1
  <1>4. Quantity(c, p) = (CHOOSE g : It(g))[S]
    BY DEF Quantity, MapThenSumSet, MapThenFoldSet, One
  <1> HIDE DEF S
  <1>5. \A g : It(g) <=> Sums(g, f, S)
    BY <1>3 DEF Sums, Sum
  <1>6. \E g : It(g)
    BY <1>2, <1>5, SumsExist
  <1> HIDE DEF It
  <1>7. PICK g : g = CHOOSE h : It(h)
    OBVIOUS
  <1>8. It(g)
    BY <1>6, <1>7
  <1>9. QED
    BY <1>1, <1>4, <1>5, <1>7, <1>8 DEF S

\* It is a number, and that of the one line of the product, or 0 without any.
LEMMA QuantityIs ==
    ASSUME NEW c \in Seq(Line), NEW p
    PROVE  /\ Quantity(c, p) \in Int
           /\ LinesOf(c, p) = {} => Quantity(c, p) = 0
           /\ \A i \in DOMAIN c : LinesOf(c, p) = {i} => Quantity(c, p) = c[i].qty
  <1>1. PICK f, g : /\ f = [i \in DOMAIN c |-> c[i].qty] /\ Sums(g, f, LinesOf(c, p))
                    /\ Quantity(c, p) = g[LinesOf(c, p)]
    BY QuantitySums
  <1>2. IsFiniteSet(LinesOf(c, p)) /\ LinesOf(c, p) \subseteq DOMAIN c
    BY LinesFinite
  <1>3. \A i \in DOMAIN c : c[i].qty \in Int /\ f[i] = c[i].qty
    <2>1. \A i \in DOMAIN c : c[i] \in Line
      OBVIOUS
    <2>2. QED
      BY <1>1, <2>1 DEF Line
  <1>4. Quantity(c, p) \in Int
    <2>1. \A s \in SUBSET LinesOf(c, p) : g[s] \in Int
      <3>1. \A x, y \in Int : x + y \in Int
        OBVIOUS
      <3>2. \A x \in LinesOf(c, p) : f[x] \in Int
        BY <1>2, <1>3
      <3>3. PICK V : V = Int /\ 0 \in V
        OBVIOUS
      <3>4. \A s \in SUBSET LinesOf(c, p) : g[s] \in V
        BY <1>1, <1>2, <3>1, <3>2, <3>3, SumsIn
      <3>5. QED
        BY <3>3, <3>4
    <2>2. QED
      BY <1>1, <2>1
  <1>5. QED
    BY <1>1, <1>3, <1>4, SumsFew

Even == \A p \in Products : product[p].count = balance[p]

\* How many items of its order w has put back.
Back(w) == IF req[w].pc = "saveItem" THEN Len(req[w].rows) - 1 ELSE Len(req[w].rows)

\* The counts fall short by the items that are still to be put back.
Returning(w) ==
    LET c == req[w].lines IN
    /\ Distinct(c)
    /\ \A i \in DOMAIN c : i > Back(w) => balance[c[i].p] = product[c[i].p].count + c[i].qty
    /\ \A p \in Products :
          (\A i \in DOMAIN c : i > Back(w) => c[i].p # p) => product[p].count = balance[p]
    /\ req[w].pc = "saveItem" => LastRow(w).count = product[LastLine(w).p].count

\* One by one, the counts are what they ought to be but for an order that is being
\* put back, and an edit without a count has the count in hand.
CountInv ==
    regular =>
        /\ \A c \in Carts : placed[c] > 0 => Distinct(c)
        /\ (\A w \in Workers : req[w].pc \notin {"readItem", "saveItem"}) => Even
        /\ \A w \in Workers : req[w].pc \in {"readItem", "saveItem"} => Returning(w)
        /\ \A w \in Workers : req[w].pc = "savePut" /\ ~req[w].counted =>
                                 LastRow(w).count = product[LastLine(w).p].count

LEMMA CountDone ==
    ASSUME NEW w \in Workers, \A v \in Workers \ {w} : req'[v] = req[v],
           regular' =>
              /\ \A v \in Workers \ {w} : req[v].pc = "idle"
              /\ \A c \in Carts : placed'[c] > 0 => Distinct(c)
              /\ req'[w].pc \in {"readItem", "saveItem"} => Returning(w)'
              /\ req'[w].pc \notin {"readItem", "saveItem"} => Even'
              /\ req'[w].pc = "savePut" /\ ~req'[w].counted =>
                    (LastRow(w).count = product[LastLine(w).p].count)'
    PROVE  CountInv'
  <1>1. SUFFICES ASSUME regular' PROVE CountInv'
    BY DEF CountInv
  <1>2. \A v \in Workers : v # w => req'[v].pc = "idle"
    BY <1>1
  <1>3. ASSUME NEW v \in Workers
        PROVE  /\ req'[v].pc \in {"readItem", "saveItem"} => Returning(v)'
               /\ req'[v].pc = "savePut" /\ ~req'[v].counted =>
                    (LastRow(v).count = product[LastLine(v).p].count)'
    <2>1. CASE v = w
      BY <1>1, <2>1
    <2>2. CASE v # w
      BY <1>2, <2>2
    <2>3. QED
      BY <2>1, <2>2
  <1>4. \A c \in Carts : placed'[c] > 0 => Distinct(c)
    BY <1>1
  <1>5. (\A v \in Workers : req'[v].pc \notin {"readItem", "saveItem"}) => Even'
    BY <1>1
  <1>6. QED
    BY <1>3, <1>4, <1>5 DEF CountInv, Distinct

\* What a request that goes on finds.
LEMMA CountBefore ==
    ASSUME EditInv, CountInv, NEW w \in Workers, Step(w)
    PROVE  regular' => /\ regular /\ \A v \in Workers \ {w} : req[v].pc = "idle"
                       /\ \A c \in Carts : placed[c] > 0 => Distinct(c)
                       /\ req[w].pc \notin {"readItem", "saveItem"} => Even
  <1>1. SUFFICES ASSUME regular'
                 PROVE  /\ regular /\ \A v \in Workers \ {w} : req[v].pc = "idle"
                        /\ \A c \in Carts : placed[c] > 0 => Distinct(c)
                        /\ req[w].pc \notin {"readItem", "saveItem"} => Even
    OBVIOUS
  <1>2. regular /\ req[w].pc # "idle"
    BY <1>1, Serving
  <1>3. \A v \in Workers \ {w} : req[v].pc = "idle"
    BY <1>2 DEF EditInv
  <1>4. req[w].pc \notin {"readItem", "saveItem"} => Even
    BY <1>2, <1>3 DEF CountInv
  <1>5. QED
    BY <1>2, <1>3, <1>4 DEF CountInv

\* The requests that leave the counts alone, however they go on.
LEMMA CountLeft ==
    ASSUME IInv, EditInv, CountInv, NEW w \in Workers, Step(w), UNCHANGED <<balance, placed>>,
           \A p \in Products : product'[p].count = product[p].count,
           req[w].pc \notin {"readItem", "saveItem"},
           req'[w].pc \notin {"readItem", "saveItem", "savePut"}
    PROVE  CountInv'
  <1>1. \A v \in Workers \ {w} : req'[v] = req[v]
    BY OthersWait
  <1>2. regular' => Even'
    BY CountBefore DEF Even
  <1>3. regular' => /\ \A v \in Workers \ {w} : req[v].pc = "idle"
                    /\ \A c \in Carts : placed'[c] > 0 => Distinct(c)
    BY CountBefore
  <1>4. QED
    BY <1>1, <1>2, <1>3, CountDone

LEMMA DistinctLines ==
    ASSUME NEW c \in Seq(Line), Distinct(c), NEW p
    PROVE  \/ LinesOf(c, p) = {} /\ Quantity(c, p) = 0
           \/ \E i \in DOMAIN c : /\ c[i].p = p /\ LinesOf(c, p) = {i} /\ Quantity(c, p) = c[i].qty
  <1>1. CASE LinesOf(c, p) = {}
    BY <1>1, QuantityIs
  <1>2. CASE LinesOf(c, p) # {}
    <2>1. PICK i \in DOMAIN c : c[i].p = p
      BY <1>2 DEF LinesOf
    <2>2. LinesOf(c, p) = {i}
      BY <2>1 DEF LinesOf, Distinct
    <2>3. QED
      BY <2>1, <2>2, QuantityIs
  <1>3. QED
    BY <1>1, <1>2

\* The counts as an order begins to be put back.
LEMMA ReturnOrderCounts ==
    ASSUME IInv, EditInv, CountInv, NEW w \in Workers, ReturnOrder(w)
    PROVE  CountInv'
  <1>1. PICK c \in Carts : /\ placed[c] > 0 /\ placed' = [placed EXCEPT ![c] = @ - 1]
                           /\ balance' = [p \in Products |-> balance[p] + Quantity(c, p)]
                           /\ Begin(w, "return", [Idle EXCEPT !.pc = "readItem", !.lines = c])
    BY DEF ReturnOrder
  <1>2. PICK q : q = [Idle EXCEPT !.pc = "readItem", !.lines = c]
    OBVIOUS
  <1>3. q.pc = "readItem" /\ q.lines = c /\ q.rows = <<>>
    BY <1>2 DEF Idle
  <1>4. /\ Typed /\ req'[w] = q /\ product' = product
        /\ regular' => regular /\ \A v \in Workers : req[v].pc = "idle"
    BY <1>1, <1>2 DEF Begin, Quiet, IInv, Typed, ReturnOrder
  <1>5. \A v \in Workers \ {w} : req'[v] = req[v]
    BY OthersWait DEF Arrive
  <1>6. \A d \in Carts : placed'[d] > 0 => placed[d] > 0
    BY <1>1, <1>4 DEF Typed
  <1>7. ASSUME regular'
        PROVE  Returning(w)' /\ \A d \in Carts : placed'[d] > 0 => Distinct(d)
    <2>1. Even /\ \A d \in Carts : placed[d] > 0 => Distinct(d)
      BY <1>4, <1>7 DEF CountInv
    <2>2. Distinct(c) /\ c \in Seq(Line)
      BY <1>1, <2>1, StockAssumption
    <2>3. Back(w)' = 0
      BY <1>3, <1>4 DEF Back
    <2>4. \A i \in DOMAIN c : i > 0 /\ c[i] \in Line /\ c[i].p \in Products
      <3>1. \A i \in DOMAIN c : i > 0 /\ c[i] \in Line
        BY <2>2
      <3>2. QED
        BY <3>1 DEF Line
    <2>5. ASSUME NEW i \in DOMAIN c
          PROVE  balance'[c[i].p] = product[c[i].p].count + c[i].qty
      <3>1. i \in LinesOf(c, c[i].p)
        BY DEF LinesOf
      <3>2. Quantity(c, c[i].p) = c[i].qty
        BY <2>2, <3>1, DistinctLines
      <3>3. balance'[c[i].p] = balance[c[i].p] + c[i].qty
        BY <1>1, <2>4, <3>2
      <3>4. QED
        BY <2>1, <2>4, <3>3 DEF Even
    <2>6. ASSUME NEW p \in Products, \A i \in DOMAIN c : c[i].p # p
          PROVE  product[p].count = balance'[p]
      <3>1. LinesOf(c, p) = {}
        BY <2>6 DEF LinesOf
      <3>2. Quantity(c, p) = 0
        BY <2>2, <3>1, QuantityIs
      <3>3. balance[p] = product[p].count /\ product[p].count \in Nat
        BY <1>4, <2>1 DEF Even, Typed, Row
      <3>4. QED
        BY <1>1, <3>2, <3>3
    <2>7. Returning(w)'
      BY <1>3, <1>4, <2>2, <2>3, <2>4, <2>5, <2>6 DEF Returning, Distinct
    <2>8. QED
      BY <1>6, <2>1, <2>7
  <1>8. QED
    BY <1>3, <1>4, <1>5, <1>7, CountDone

LEMMA CountBegins ==
    ASSUME IInv, EditInv, CountInv, NEW w \in Workers, Arrive(w)
    PROVE  CountInv'
  <1>1. Typed /\ \A v \in Workers \ {w} : req'[v] = req[v]
    BY OthersWait DEF IInv
  <1>2. CASE ReturnOrder(w)
    BY <1>2, ReturnOrderCounts
  <1>3. CASE StoreOpenToggle(w)
    BY <1>3 DEF StoreOpenToggle, CountInv, Even, Returning, Back, LastLine, LastRow
  <1>4. CASE PlaceOrder(w) \/ VendorPost(w) \/ VendorPut(w) \/ VendorDelete(w)
    <2>1. UNCHANGED <<product, balance, placed>>
      BY <1>4 DEF PlaceOrder, VendorPost, VendorPut, VendorDelete
    <2>2. ASSUME NEW kind, NEW q, Begin(w, kind, q)
          PROVE  /\ req'[w] = q
                 /\ regular' => regular /\ \A v \in Workers : req[v].pc = "idle"
      BY <1>1, <2>2 DEF Begin, Quiet, Typed
    <2>3. PICK kind, q :
             /\ Begin(w, kind, q) /\ q.pc \notin {"readItem", "saveItem"}
             /\ q.pc = "savePut" => /\ VendorPut(w) /\ kind = "put"
      <3>1. CASE PlaceOrder(w)
        <4>1. PICK c \in Carts : Begin(w, "place", [Idle EXCEPT !.pc = "lockProduct", !.lines = c])
          BY <3>1 DEF PlaceOrder
        <4>2. [Idle EXCEPT !.pc = "lockProduct", !.lines = c].pc = "lockProduct"
          BY DEF Idle
        <4>3. QED
          BY <4>1, <4>2
      <3>2. CASE VendorPost(w)
        <4>1. PICK p, n, listed : Begin(w, "post", Holding("insertProduct", p, Listing(n, listed)))
          BY <3>2 DEF VendorPost
        <4>2. Holding("insertProduct", p, Listing(n, listed)).pc = "insertProduct"
          BY DEF Holding, Idle
        <4>3. QED
          BY <4>1, <4>2
      <3>3. CASE VendorPut(w)
        BY <1>1, <3>3, PutBegins
      <3>4. CASE VendorDelete(w)
        <4>1. PICK p \in Products : Begin(w, "delete", Holding("saveDelete", p, product[p]))
          BY <3>4 DEF VendorDelete
        <4>2. Holding("saveDelete", p, product[p]).pc = "saveDelete"
          BY DEF Holding, Idle
        <4>3. QED
          BY <4>1, <4>2
      <3>5. QED
        BY <1>4, <3>1, <3>2, <3>3, <3>4
    <2>4. req'[w].pc = "savePut" /\ ~req'[w].counted =>
             (LastRow(w).count = product[LastLine(w).p].count)'
      <3>1. SUFFICES ASSUME req'[w].pc = "savePut", ~req'[w].counted
                     PROVE  LastRow(w)'.count = product'[LastLine(w)'.p].count
        OBVIOUS
      <3>2. VendorPut(w)
        BY <2>2, <2>3, <3>1
      <3> DEFINE First(p, r, s) ==
               /\ Begin(w, "put", s) /\ s.lines = <<[p |-> p, qty |-> 1]>> /\ s.rows = <<r>>
               /\ s.counted \/ r.count = product[p].count
      <3>0. PICK p \in Products : \E r, s : First(p, r, s)
        BY <1>1, <3>2, PutBegins
      <3>3. PICK r, s : First(p, r, s)
        BY <3>0
      <3>4. req'[w] = s
        BY <2>2, <3>3
      <3>5. LastLine(w)'.p = p /\ LastRow(w)' = r
        BY <3>3, <3>4, HeldFirst
      <3>6. QED
        BY <2>1, <3>1, <3>3, <3>4, <3>5
    <2>5. regular' => Even' /\ \A c \in Carts : placed'[c] > 0 => Distinct(c)
      BY <2>1, <2>2, <2>3 DEF CountInv, Even
    <2>6. QED
      BY <1>1, <2>2, <2>3, <2>4, <2>5, CountDone
  <1>5. QED
    BY <1>2, <1>3, <1>4 DEF Arrive

\* The last word of a product named once is its only line's.
LEMMA LastOfOne ==
    ASSUME NEW i \in Int
    PROVE  Max({i}) = i
  BY DEF Max

LEMMA CommitCounts ==
    ASSUME IInv, EditInv, CountInv, NEW w \in Workers, CommitOrder(w)
    PROVE  CountInv'
  <1>1. /\ Typed /\ req[w].pc = "commit" /\ req[w].lines \in Seq(Line) /\ req[w].lines \in Carts
        /\ \A v \in Workers \ {w} : req'[v] = req[v]
    BY OfRequest, OthersWait DEF Step, CommitOrder, Standing, Placing
  <1>2. req'[w].pc = "idle"
    BY <1>1 DEF CommitOrder, Answer, Idle, Typed
  <1>3. CASE UNCHANGED <<product, balance, placed>>
    BY <1>1, <1>2, <1>3, CountLeft DEF Step
  <1>4. CASE /\ product' = [p \in Products |-> Left(w, p)]
             /\ balance' = [p \in Products |-> balance[p] - Quantity(req[w].lines, p)]
             /\ placed' = [placed EXCEPT ![req[w].lines] = @ + 1]
             /\ regular' = (regular /\ Distinct(req[w].lines))
    <2>1. PICK c \in Seq(Line) : c = req[w].lines
      BY <1>1
    <2>2. ASSUME regular'
          PROVE  /\ \A v \in Workers \ {w} : req[v].pc = "idle"
                 /\ \A d \in Carts : placed[d] > 0 => Distinct(d)
                 /\ Even /\ Distinct(c)
      BY <1>1, <1>4, <2>1, <2>2, CountBefore DEF Step
    <2>3. ASSUME regular', NEW p \in Products
          PROVE  product'[p].count = balance'[p]
      <3>1. product'[p] = Left(w, p) /\ balance'[p] = balance[p] - Quantity(c, p)
        BY <1>4, <2>1
      <3>2. product[p].count = balance[p] /\ product[p].count \in Nat
        BY <1>1, <2>2, <2>3 DEF Even, Typed, Row
      <3>3. CASE LinesOf(c, p) = {} /\ Quantity(c, p) = 0
        <4>1. Left(w, p) = product[p]
          BY <1>1, <2>1, <3>3, LeftIsRow
        <4>2. QED
          BY <3>1, <3>2, <3>3, <4>1
      <3>4. CASE \E i \in DOMAIN c : /\ c[i].p = p /\ LinesOf(c, p) = {i} /\ Quantity(c, p) = c[i].qty
        <4>1. PICK i \in DOMAIN c : LinesOf(c, p) = {i} /\ Quantity(c, p) = c[i].qty
          BY <3>4
        <4>2. Max(LinesOf(c, p)) = i
          BY <4>1, LastOfOne
        <4>3. Left(w, p).count = product[p].count - c[i].qty
          BY <1>1, <2>1, <4>1, <4>2, LeftIsRow
        <4>4. QED
          BY <3>1, <3>2, <4>1, <4>3
      <3>5. QED
        BY <2>2, <2>3, <3>3, <3>4, DistinctLines
    <2>4. regular' => \A d \in Carts : placed'[d] > 0 => Distinct(d)
      <3>1. \A d \in Carts : placed'[d] > 0 => placed[d] > 0 \/ d = c
        BY <1>1, <1>4, <2>1 DEF Typed
      <3>2. QED
        BY <2>2, <3>1
    <2>5. regular' => Even'
      BY <2>3 DEF Even
    <2>6. QED
      BY <1>1, <1>2, <2>2, <2>4, <2>5, CountDone
  <1>5. QED
    BY <1>3, <1>4 DEF CommitOrder

LEMMA ReadItemCounts ==
    ASSUME IInv, EditInv, CountInv, NEW w \in Workers, ReadItem(w)
    PROVE  CountInv'
  <1>1. /\ Typed /\ req[w] \in Request /\ req[w].pc = "readItem" /\ req[w].rows \in Seq(Row)
        /\ req[w].lines \in Seq(Line) /\ Len(req[w].rows) < Len(req[w].lines)
        /\ \A v \in Workers \ {w} : req'[v] = req[v]
        /\ UNCHANGED <<product, balance, placed, regular>>
    BY OfRequest, OthersWait DEF Step, ReadItem, Standing
  <1>2. PICK c, n : c = req[w].lines /\ n = Len(req[w].rows) + 1
    OBVIOUS
  <1>3. n \in DOMAIN c /\ c[n].p \in Products
    <2>1. Len(req[w].rows) \in Nat /\ Len(c) \in Nat /\ DOMAIN c = 1 .. Len(c)
      BY <1>1, <1>2
    <2>2. n \in DOMAIN c
      BY <1>1, <1>2, <2>1
    <2>3. c[n] \in Line
      BY <1>1, <1>2, <2>2
    <2>4. QED
      BY <2>2, <2>3 DEF Line
  <1>4. /\ req'[w].pc = "saveItem" /\ req'[w].lines = c
        /\ req'[w].rows = Append(req[w].rows, product[c[n].p])
    BY <1>1, <1>2 DEF ReadItem, NextLine, Typed, Request
  <1>5. product[c[n].p] \in Row
    BY <1>1, <1>3 DEF Typed
  <1>6. Len(req'[w].rows) = n /\ req'[w].rows[n] = product[c[n].p]
    BY <1>1, <1>2, <1>4, <1>5
  <1>7. LastLine(w)' = c[n] /\ LastRow(w)' = product[c[n].p]
    BY <1>4, <1>6 DEF LastLine, LastRow
  <1>8. Back(w)' = Back(w)
    <2>1. n - 1 = Len(req[w].rows)
      BY <1>1, <1>2
    <2>2. QED
      BY <1>1, <1>4, <1>6, <2>1 DEF Back
  <1>9. ASSUME regular'
        PROVE  Returning(w)'
    <2>1. Returning(w)
      BY <1>1, <1>9 DEF CountInv
    <2>2. product' = product /\ balance' = balance /\ req[w].lines = c
      BY <1>1, <1>2
    <2>3. Distinct(c)
      BY <2>1, <2>2 DEF Returning
    <2>4. \A i \in DOMAIN c : i > Back(w)' => balance'[c[i].p] = product'[c[i].p].count + c[i].qty
      BY <1>8, <2>1, <2>2 DEF Returning
    <2>5. \A p \in Products : (\A i \in DOMAIN c : i > Back(w)' => c[i].p # p)
                             => product'[p].count = balance'[p]
      BY <1>8, <2>1, <2>2 DEF Returning
    <2>6. LastRow(w)'.count = product'[LastLine(w)'.p].count
      BY <1>7, <2>2
    <2>7. QED
      BY <1>4, <2>3, <2>4, <2>5, <2>6 DEF Returning
  <1>10. regular' => /\ \A v \in Workers \ {w} : req[v].pc = "idle"
                     /\ \A d \in Carts : placed'[d] > 0 => Distinct(d)
    BY <1>1, CountBefore DEF Step
  <1>11. QED
    BY <1>1, <1>4, <1>9, <1>10, CountDone

LEMMA SaveItemCounts ==
    ASSUME IInv, EditInv, CountInv, NEW w \in Workers, SaveItem(w)
    PROVE  CountInv'
  <1>1. /\ Typed /\ req[w] \in Request /\ req[w].pc = "saveItem" /\ req[w].rows \in Seq(Row)
        /\ req[w].lines \in Seq(Line) /\ req[w].rows # <<>>
        /\ Len(req[w].rows) <= Len(req[w].lines)
        /\ \A v \in Workers \ {w} : req'[v] = req[v]
        /\ UNCHANGED <<balance, placed, regular>>
    BY OfRequest, OthersWait DEF Step, SaveItem, Standing
  <1>2. PICK c, n : c = req[w].lines /\ n = Len(req[w].rows)
    OBVIOUS
  <1>3. /\ n \in DOMAIN c /\ n \in Nat /\ c[n].p \in Products /\ c[n].qty \in Int
        /\ LastLine(w) = c[n] /\ DOMAIN c = 1 .. Len(c) /\ Len(c) \in Nat
    <2>1. Len(req[w].rows) \in Nat /\ Len(c) \in Nat /\ DOMAIN c = 1 .. Len(c)
             /\ Len(req[w].rows) # 0
      BY <1>1, <1>2
    <2>2. n \in DOMAIN c
      BY <1>1, <1>2, <2>1
    <2>3. c[n] \in Line
      BY <1>1, <1>2, <2>2
    <2>4. QED
      BY <1>2, <2>1, <2>2, <2>3 DEF Line, LastLine
  <1>4. /\ \A p \in Products \ {c[n].p} : product'[p] = product[p]
        /\ product'[c[n].p].count = LastRow(w).count + c[n].qty
    <2>1. PICK k : k = LastRow(w).count + c[n].qty
      OBVIOUS
    <2>2. PICK q : q = c[n].p /\ q \in Products
      BY <1>3
    <2>3. product' = [product EXCEPT ![q].count = k, ![q].shown = TRUE]
      BY <1>3, <2>1, <2>2 DEF SaveItem
    <2>4. product \in [Products -> Row] /\ product[q] \in Row
      BY <1>1, <2>2 DEF Typed
    <2>5. product'[q].count = k
      BY <2>2, <2>3, <2>4 DEF Row
    <2>6. \A p \in Products \ {q} : product'[p] = product[p]
      BY <2>3, <2>4
    <2>7. QED
      BY <2>1, <2>2, <2>5, <2>6
  <1>5. ASSUME regular'
        PROVE  /\ Distinct(c)
               /\ \A i \in DOMAIN c : i > n => balance[c[i].p] = product'[c[i].p].count + c[i].qty
               /\ \A p \in Products :
                     (\A i \in DOMAIN c : i > n => c[i].p # p) => product'[p].count = balance[p]
    <2>1. Returning(w) /\ Back(w) = n - 1
      BY <1>1, <1>2, <1>5 DEF CountInv, Back
    <2>2. Distinct(c) /\ LastRow(w).count = product[c[n].p].count
      BY <1>1, <1>2, <1>3, <2>1 DEF Returning
    <2>3. \A i \in DOMAIN c : i > n - 1 => balance[c[i].p] = product[c[i].p].count + c[i].qty
      BY <1>2, <2>1 DEF Returning
    <2>4. product'[c[n].p].count = balance[c[n].p]
      <3>1. n > n - 1
        BY <1>3
      <3>2. balance[c[n].p] = product[c[n].p].count + c[n].qty
        BY <1>3, <2>3, <3>1
      <3>3. QED
        BY <1>4, <2>2, <3>2
    <2>5. ASSUME NEW i \in DOMAIN c, i > n
          PROVE  balance[c[i].p] = product'[c[i].p].count + c[i].qty
      <3>1. i # n /\ i > n - 1 /\ i \in Nat
        BY <1>3, <2>5
      <3>2. c[i].p # c[n].p
        BY <1>3, <2>2, <3>1 DEF Distinct
      <3>3. c[i].p \in Products
        <4>1. c[i] \in Line
          BY <1>1, <1>2
        <4>2. QED
          BY <4>1 DEF Line
      <3>4. product'[c[i].p] = product[c[i].p]
        BY <1>4, <3>2, <3>3
      <3>5. QED
        BY <2>3, <3>1, <3>4
    <2>6. ASSUME NEW p \in Products, \A i \in DOMAIN c : i > n => c[i].p # p
          PROVE  product'[p].count = balance[p]
      <3>1. CASE p = c[n].p
        BY <2>4, <3>1
      <3>2. CASE p # c[n].p
        <4>1. \A i \in DOMAIN c : i > n - 1 => c[i].p # p
          <5>1. \A i \in DOMAIN c : i > n - 1 => i = n \/ i > n
            BY <1>3
          <5>2. QED
            BY <2>6, <3>2, <5>1
        <4>2. product[p].count = balance[p]
          BY <1>2, <2>1, <4>1 DEF Returning
        <4>3. QED
          BY <1>4, <3>2, <4>2
      <3>3. QED
        BY <3>1, <3>2
    <2>7. QED
      BY <2>2, <2>5, <2>6
  <1>6. CASE AllRead(req[w])
    <2>1. req'[w].pc = "idle"
      BY <1>1, <1>6 DEF SaveItem, NextItem, Idle, Typed
    <2>2. n = Len(c)
      BY <1>2, <1>6 DEF AllRead
    <2>3. \A i \in DOMAIN c : ~(i > n)
      BY <1>3, <2>2
    <2>4. regular' => Even'
      BY <1>1, <1>5, <2>3 DEF Even
    <2>5. regular' => /\ \A v \in Workers \ {w} : req[v].pc = "idle"
                      /\ \A d \in Carts : placed'[d] > 0 => Distinct(d)
      BY <1>1, CountBefore DEF Step
    <2>6. QED
      BY <1>1, <2>1, <2>4, <2>5, CountDone
  <1>7. CASE ~AllRead(req[w])
    <2>1. req'[w] = [req[w] EXCEPT !.pc = "readItem"]
      BY <1>1, <1>7 DEF SaveItem, NextItem, Typed
    <2>2. req'[w].pc = "readItem" /\ req'[w].lines = c /\ req'[w].rows = req[w].rows
      BY <1>1, <1>2, <2>1 DEF Request
    <2>3. Back(w)' = n
      BY <1>2, <2>2 DEF Back
    <2>4. regular' => Returning(w)'
      BY <1>1, <1>5, <2>2, <2>3 DEF Returning, Distinct
    <2>5. regular' => /\ \A v \in Workers \ {w} : req[v].pc = "idle"
                      /\ \A d \in Carts : placed'[d] > 0 => Distinct(d)
      BY <1>1, CountBefore DEF Step
    <2>6. QED
      BY <1>1, <2>2, <2>4, <2>5, CountDone
  <1>8. QED
    BY <1>6, <1>7

LEMMA InsertCounts ==
    ASSUME IInv, EditInv, CountInv, NEW w \in Workers, InsertProduct(w), balance \in [Products -> Int]
    PROVE  CountInv'
  <1>1. /\ Typed /\ req[w] \in Request /\ req[w].pc = "insertProduct"
        /\ LastLine(w).p \in Products /\ LastRow(w) \in Row
        /\ \A v \in Workers \ {w} : req'[v] = req[v]
        /\ UNCHANGED <<placed, regular>>
    BY OfRequest, OfSaver, OthersWait DEF Step, InsertProduct, Line
  <1>2. PICK p \in Products, r \in Row : p = LastLine(w).p /\ r = LastRow(w)
    BY <1>1
  <1>3. \/ UNCHANGED <<product, balance>> /\ Answer(w)
        \/ /\ product' = [product EXCEPT ![p] = r] /\ balance' = [balance EXCEPT ![p] = r.count]
           /\ Answer(w) \/ req' = [req EXCEPT ![w].pc = "savePut"]
    BY <1>2 DEF InsertProduct
  <1>4. regular' => /\ Even /\ \A v \in Workers \ {w} : req[v].pc = "idle"
                    /\ \A d \in Carts : placed'[d] > 0 => Distinct(d)
    BY <1>1, CountBefore DEF Step
  <1>5. regular' => Even'
    BY <1>1, <1>3, <1>4 DEF Even, Typed
  <1>6. CASE Answer(w)
    <2>1. req'[w].pc = "idle"
      BY <1>1, <1>6 DEF Answer, Idle, Typed
    <2>2. QED
      BY <1>1, <1>4, <1>5, <2>1, CountDone
  <1>7. CASE product' = [product EXCEPT ![p] = r] /\ req' = [req EXCEPT ![w].pc = "savePut"]
    <2>1. req'[w].pc = "savePut" /\ req'[w].lines = req[w].lines /\ req'[w].rows = req[w].rows
      BY <1>1, <1>7 DEF Typed, Request
    <2>2. LastLine(w)'.p = p /\ LastRow(w)' = r
      BY <1>2, <2>1 DEF LastLine, LastRow
    <2>3. product'[p] = r
      BY <1>1, <1>7 DEF Typed
    <2>4. QED
      BY <1>1, <1>4, <1>5, <2>1, <2>2, <2>3, CountDone
  <1>8. QED
    BY <1>3, <1>6, <1>7

LEMMA SavePutCounts ==
    ASSUME IInv, EditInv, CountInv, NEW w \in Workers, SavePut(w), balance \in [Products -> Int]
    PROVE  CountInv'
  <1>1. /\ Typed /\ req[w].pc = "savePut"
        /\ LastLine(w).p \in Products /\ LastRow(w) \in Row
        /\ \A v \in Workers \ {w} : req'[v] = req[v]
        /\ UNCHANGED <<placed, regular>>
    BY OfRequest, OfSaver, OthersWait DEF Step, SavePut, Line
  <1>2. PICK p \in Products, r \in Row : p = LastLine(w).p /\ r = LastRow(w)
    BY <1>1
  <1>3. /\ product' = [product EXCEPT ![p] = r]
        /\ balance' = [balance EXCEPT ![p] = IF req[w].counted THEN r.count ELSE @]
    BY <1>2 DEF SavePut
  <1>4. regular' => /\ Even /\ \A v \in Workers \ {w} : req[v].pc = "idle"
                    /\ \A d \in Carts : placed'[d] > 0 => Distinct(d)
    BY <1>1, CountBefore DEF Step
  <1>5. regular' /\ ~req[w].counted => r.count = product[p].count
    BY <1>1, <1>2 DEF CountInv
  <1>6. ASSUME regular', NEW q \in Products
        PROVE  product'[q].count = balance'[q]
    <2>1. product[q].count = balance[q]
      BY <1>4, <1>6 DEF Even
    <2>2. CASE q # p
      BY <1>1, <1>3, <2>1, <2>2 DEF Typed
    <2>3. CASE q = p
      <3>1. product'[p].count = r.count
        BY <1>1, <1>3 DEF Typed
      <3>2. balance'[p] = IF req[w].counted THEN r.count ELSE balance[p]
        BY <1>3
      <3>3. QED
        BY <1>5, <1>6, <2>1, <2>3, <3>1, <3>2
    <2>4. QED
      BY <2>2, <2>3
  <1>7. req'[w].pc = "idle"
    BY <1>1 DEF SavePut, Answer, Idle, Typed
  <1>8. regular' => Even'
    BY <1>6 DEF Even
  <1>9. QED
    BY <1>1, <1>4, <1>7, <1>8, CountDone

LEMMA CountGoesOn ==
    ASSUME IInv, EditInv, CountInv, NEW w \in Workers, Step(w), balance \in [Products -> Int]
    PROVE  CountInv'
  <1>1. Typed
    BY DEF IInv
  <1>2. CASE LockProduct(w) \/ LockStore(w) \/ DeadlockVictim(w)
    <2>1. UNCHANGED <<product, balance, placed>>
      BY <1>2 DEF LockProduct, LockStore, DeadlockVictim
    <2>2. req[w].pc \notin {"readItem", "saveItem", "insertProduct"}
      <3>1. CASE DeadlockVictim(w)
        <4>1. PICK v \in Workers : Blocks(v, w)
          BY <3>1 DEF DeadlockVictim
        <4>2. QED
          BY <4>1 DEF Blocks, Wanted
      <3>2. CASE LockProduct(w) \/ LockStore(w)
        BY <3>2 DEF LockProduct, LockStore
      <3>3. QED
        BY <1>2, <3>1, <3>2
    <2>3. req'[w].pc \notin {"readItem", "saveItem", "savePut"}
      BY <2>2, GoesOnTo DEF InsertProduct
    <2>4. QED
      BY <2>1, <2>2, <2>3, CountLeft
  <1>3. CASE SaveDelete(w)
    <2>1. LastLine(w) \in Line
      BY <1>3, OfSaver DEF SaveDelete
    <2>2. PICK p \in Products : product' = [product EXCEPT ![p].deleted = TRUE]
      BY <1>3, <2>1 DEF SaveDelete, Line
    <2>3. \A q \in Products : product'[q].count = product[q].count
      BY <1>1, <2>2 DEF Typed, Row
    <2>4. req'[w].pc = "idle" /\ req[w].pc = "saveDelete"
      BY <1>1, <1>3 DEF SaveDelete, Answer, Idle, Typed
    <2>5. UNCHANGED <<balance, placed>>
      BY <1>3 DEF SaveDelete
    <2>6. QED
      BY <2>3, <2>4, <2>5, CountLeft
  <1>4. QED
    BY <1>2, <1>3, CommitCounts, ReadItemCounts, SaveItemCounts, InsertCounts, SavePutCounts DEF Step

LEMMA CountStep ==
    ASSUME IInv, EditInv, CountInv, TypeOK, [Next]_vars
    PROVE  CountInv'
  <1>1. CASE UNCHANGED vars
    BY <1>1 DEF vars, CountInv, Even, Returning, Back, LastLine, LastRow
  <1>2. ASSUME NEW w \in Workers, Fail(w)
        PROVE  CountInv'
    BY <1>2 DEF Fail, CountInv
  <1>3. QED
    BY <1>1, <1>2, CountBegins, CountGoesOn DEF Next, TypeOK

\* What is written into the history has its type: no sum is undefined.
LEMMA TypeStep ==
    ASSUME IInv, TypeOK, [Next]_vars, Typed'
    PROVE  TypeOK'
  <1>1. balance \in [Products -> Int] /\ regular \in BOOLEAN
    BY DEF TypeOK
  <1>2. \A c \in Carts : \A p : Quantity(c, p) \in Int
    BY StockAssumption, QuantityIs
  <1>3. CASE UNCHANGED <<balance, regular>>
    BY <1>1, <1>3 DEF TypeOK
  <1>4. ASSUME NEW w \in Workers, Arrive(w)
        PROVE  balance' \in [Products -> Int] /\ regular' \in BOOLEAN
    <2>1. regular' \in BOOLEAN
      BY <1>1, <1>4 DEF Arrive, PlaceOrder, ReturnOrder, VendorPost, VendorPut, VendorDelete,
         StoreOpenToggle, Begin
    <2>2. CASE ReturnOrder(w)
      BY <1>1, <1>2, <2>1, <2>2 DEF ReturnOrder
    <2>3. CASE ~ReturnOrder(w)
      BY <1>1, <1>4, <2>1, <2>3 DEF Arrive, PlaceOrder, VendorPost, VendorPut, VendorDelete,
         StoreOpenToggle
    <2>4. QED
      BY <2>2, <2>3
  <1>5. ASSUME NEW w \in Workers, CommitOrder(w)
        PROVE  balance' \in [Products -> Int] /\ regular' \in BOOLEAN
    <2>1. req[w].lines \in Carts
      BY <1>5, OfRequest DEF CommitOrder, Standing, Placing
    <2>2. \A p \in Products : balance[p] - Quantity(req[w].lines, p) \in Int
      BY <1>1, <1>2, <2>1
    <2>3. \/ balance' = [p \in Products |-> balance[p] - Quantity(req[w].lines, p)]
          \/ UNCHANGED balance
      BY <1>5 DEF CommitOrder
    <2>4. regular' \in BOOLEAN
      <3>1. (regular /\ Distinct(req[w].lines)) \in BOOLEAN
        OBVIOUS
      <3>2. UNCHANGED regular \/ regular' = (regular /\ Distinct(req[w].lines))
        BY <1>5 DEF CommitOrder
      <3>3. QED
        BY <1>1, <3>1, <3>2
    <2>5. balance' \in [Products -> Int]
      BY <1>1, <2>2, <2>3
    <2>6. QED
      BY <2>4, <2>5
  <1>6. ASSUME NEW w \in Workers, InsertProduct(w) \/ SavePut(w)
        PROVE  balance' \in [Products -> Int] /\ regular' \in BOOLEAN
    <2>1. LastRow(w).count \in Int
      BY <1>6, OfSaver DEF InsertProduct, SavePut, Row
    <2>2. UNCHANGED regular
      BY <1>6 DEF InsertProduct, SavePut
    <2>3. balance' \in [Products -> Int]
      BY <1>1, <1>6, <2>1 DEF InsertProduct, SavePut
    <2>4. QED
      BY <1>1, <2>2, <2>3
  <1>7. ASSUME NEW w \in Workers, Fail(w)
        PROVE  balance' \in [Products -> Int] /\ regular' \in BOOLEAN
    BY <1>1, <1>7 DEF Fail
  <1>8. ASSUME NEW w \in Workers, Step(w), ~CommitOrder(w), ~InsertProduct(w), ~SavePut(w)
        PROVE  UNCHANGED <<balance, regular>>
    BY <1>8 DEF Step, LockProduct, LockStore, DeadlockVictim, ReadItem, SaveItem, SaveDelete
  <1>9. CASE Next
    <2>1. PICK w \in Workers : Arrive(w) \/ Step(w) \/ Fail(w)
      BY <1>9 DEF Next
    <2>2. QED
      BY <1>3, <1>4, <1>5, <1>6, <1>7, <1>8, <2>1 DEF TypeOK
  <1>10. QED
    BY <1>3, <1>9 DEF vars

LEMMA CountInit ==
    ASSUME Init
    PROVE  CountInv /\ TypeOK /\ EditInv
  <1>1. Typed /\ \A w \in Workers : req[w].pc = "idle"
    BY InitIInv DEF IInv, Init, Idle
  <1>2. Even /\ balance \in [Products -> Int] /\ regular \in BOOLEAN
    BY <1>1 DEF Init, Even, Typed, Row
  <1>3. \A c \in Carts : ~(placed[c] > 0)
    BY DEF Init
  <1>4. CountInv
    BY <1>1, <1>2, <1>3 DEF CountInv
  <1>5. EditInv
    BY <1>1 DEF EditInv
  <1>6. QED
    BY <1>1, <1>2, <1>4, <1>5 DEF TypeOK

\* The types of the rows, of the requests and of the history.
THEOREM TypeCorrect == Spec => []TypeOK
  <1>1. Init => IInv /\ TypeOK
    BY InitIInv, CountInit
  <1>2. IInv /\ TypeOK /\ [Next]_vars => (IInv /\ TypeOK)'
    <2>1. IInv' => Typed'
      BY DEF IInv
    <2>2. QED
      BY <2>1, InductiveStep, TypeStep
  <1>3. QED
    BY <1>1, <1>2, PTL DEF Spec

\* For every number of products, carts and requests: as long as requests run one
\* by one to their end, and no order names a product twice, the shelf holds what
\* was entered, less what was sold, plus what came back.
THEOREM CountsAddUp == Spec => []StockAddsUp
  <1>1. Init => IInv /\ EditInv /\ CountInv
    BY InitIInv, CountInit
  <1>2. IInv /\ EditInv /\ CountInv /\ TypeOK /\ [Next]_vars => (IInv /\ EditInv /\ CountInv)'
    BY InductiveStep, EditStep, CountStep
  <1>3. CountInv => StockAddsUp
    BY DEF CountInv, Even, StockAddsUp, Quiet
  <1>4. QED
    BY <1>1, <1>2, <1>3, TypeCorrect, PTL DEF Spec
=============================================================================
