---------------------------- MODULE CustomerProofs ----------------------------
(***************************************************************************)
(* That a customer is charged what the preview said, that a bill adds up,  *)
(* how many default addresses there can be and that deleted ones stay so,  *)
(* and that a cart is what it was synchronised with: for every number of   *)
(* requests at a time.                                                     *)
(***************************************************************************)
EXTENDS Customer, Positions, FiniteSetTheorems, TLAPS

-----------------------------------------------------------------------------
(* The inductive invariant                                                 *)

\* Every request is a record of the same fields, whatever draft it holds.
IsRequest(r) == r = [pc |-> r.pc, id |-> r.id, flag |-> r.flag, lines |-> r.lines,
                     code |-> r.code, draft |-> r.draft]

Shaped == /\ DOMAIN req = Workers /\ \A w \in Workers : IsRequest(req[w])
          /\ DOMAIN address = Ids

Off(code, c, s) == IF code THEN Discount(c, s) ELSE 0
FeeOf(lines)    == IF \E p \in Products : lines[p] > 0 THEN Fee ELSE EmptyFee

\* q quotes the price of its lines at its prices, with its coupon.
Quoted(q) ==
    LET s == SubtotalOf(q.lines, q.prices)
        d == Off(q.code, q.coupon, s)
    IN q.total = Total(s, d, FeeOf(q.lines), PreviewTaxes(s, d))

\* What a request has worked out so far.
Drafted(w) ==
    LET d == req[w].draft IN
    /\ req[w].pc \in {"quoteCoupon", "quoteAddress"} => d.subtotal = SubtotalOf(d.lines, d.prices)
    /\ req[w].pc = "quoteAddress" => d.discount = Off(req[w].code, d.coupon, d.subtotal)
    /\ req[w].pc = "placeOrder" => /\ Quoted(d) /\ req[w].code = d.code
                                   /\ \E p \in Products : d.lines[p] > 0

\* A bill charges its lines at its prices, with its coupon.
Charged(b) ==
    LET s == SubtotalOf(b.quote.lines, b.prices)
        d == Off(b.quote.code, b.coupon, s)
    IN b.order.total \in Nearest(Total(s, d, Fee, Taxes(s, d)))

Money ==
    /\ \A w \in Workers : Drafted(w)
    /\ quote # None => Quoted(quote)
    /\ bill # None => /\ Quoted(bill.quote) /\ Charged(bill)
                      /\ \E p \in Products : bill.quote.lines[p] > 0

IInv == Shaped /\ Money /\ DefaultsBounded

-----------------------------------------------------------------------------
(* Requests                                                                *)

\* What a request becomes, field by field.
LEMMA Advanced ==
    ASSUME NEW r, IsRequest(r), NEW pc, NEW s, s = [r EXCEPT !.pc = pc]
    PROVE  /\ IsRequest(s) /\ s.pc = pc /\ s.id = r.id /\ s.flag = r.flag
           /\ s.lines = r.lines /\ s.code = r.code /\ s.draft = r.draft
  BY DEF IsRequest

LEMMA Shortened ==
    ASSUME NEW r, IsRequest(r), NEW x, NEW s, s = [r EXCEPT !.lines = x]
    PROVE  IsRequest(s) /\ s.pc = r.pc
  BY DEF IsRequest

LEMMA Moved ==
    ASSUME Shaped, NEW w \in Workers, NEW r, IsRequest(r), req' = [req EXCEPT ![w] = r]
    PROVE  /\ req'[w] = r /\ \A v \in Workers : v # w => req'[v] = req[v]
           /\ DOMAIN req' = Workers /\ \A v \in Workers : IsRequest(req'[v])
  BY DEF Shaped

LEMMA GoneTo ==
    ASSUME Shaped, NEW w \in Workers, NEW pc, Goto(w, pc)
    PROVE  req' = [req EXCEPT ![w] = [req[w] EXCEPT !.pc = pc]]
  BY DEF Goto

LEMMA IdleShape == IsRequest(Idle) /\ Idle.pc = "idle" /\ Idle.flag = "plain"
  BY DEF IsRequest, Idle
-----------------------------------------------------------------------------
(* Default addresses                                                       *)

\* No more addresses can be at hand than requests.
LEMMA Handled ==
    ASSUME NEW r
    PROVE  /\ IsFiniteSet({r[v].id : v \in Workers})
           /\ Cardinality({r[v].id : v \in Workers}) <= Cardinality(Workers)
  <1> DEFINE T == {r[v].id : v \in Workers}
             f == [v \in Workers |-> r[v].id]
  <1>1. f \in Surjection(Workers, T)
    BY DEF Surjection
  <1>2. IsFiniteSet(Workers)
    BY CustomerAssumption
  <1> HIDE DEF T, f
  <1>3. IsFiniteSet(T) /\ Cardinality(T) <= Cardinality(Workers)
    BY <1>1, <1>2, FS_Surjection
  <1>4. QED
    BY <1>3 DEF T

\* No address becomes a default one, or is about to.
LEMMA DefaultsKept ==
    ASSUME DefaultsBounded, (Default \cup Pending)' \subseteq Default \cup Pending
    PROVE  DefaultsBounded'
  <1>1. IsFiniteSet(Default)
    BY CustomerAssumption, FS_Subset DEF Default
  <1>2. IsFiniteSet(Pending)
    <2>1. Pending \subseteq {req[v].id : v \in Workers}
      BY DEF Pending
    <2>2. IsFiniteSet({req[v].id : v \in Workers})
      BY Handled
    <2>3. QED
      BY <2>1, <2>2, FS_Subset
  <1>3. IsFiniteSet(Default \cup Pending)
    BY <1>1, <1>2, FS_Union
  <1>4. Cardinality((Default \cup Pending)') <= Cardinality(Default \cup Pending)
           /\ Cardinality((Default \cup Pending)') \in Nat
           /\ Cardinality(Default \cup Pending) \in Nat
    BY <1>3, FS_Subset, FS_CardinalityType
  <1>5. Cardinality(Workers) \in Nat
    BY CustomerAssumption, FS_CardinalityType
  <1>6. QED
    BY <1>4, <1>5 DEF DefaultsBounded

\* Only addresses that some request has in hand are left.
LEMMA DefaultsInHand ==
    ASSUME (Default \cup Pending)' \subseteq {req[v].id : v \in Workers}'
    PROVE  DefaultsBounded'
  <1> DEFINE T == {req'[v].id : v \in Workers}
             S == (Default \cup Pending)'
  <1>1. IsFiniteSet(T) /\ Cardinality(T) <= Cardinality(Workers)
    BY Handled
  <1>2. S \in SUBSET T
    OBVIOUS
  <1> HIDE DEF S, T
  <1>3. Cardinality(S) <= Cardinality(T) /\ Cardinality(S) \in Nat /\ Cardinality(T) \in Nat
    BY <1>1, <1>2, FS_Subset, FS_CardinalityType
  <1>4. Cardinality(Workers) \in Nat
    BY CustomerAssumption, FS_CardinalityType
  <1>5. Cardinality(S) <= Cardinality(Workers)
    BY <1>1, <1>3, <1>4
  <1>6. QED
    BY <1>5 DEF DefaultsBounded, S

-----------------------------------------------------------------------------
(* What a step must show                                                   *)

LEMMA MoneyKept ==
    ASSUME IInv, NEW w \in Workers, \A v \in Workers : v # w => req'[v] = req[v],
           UNCHANGED checkout, Drafted(w)'
    PROVE  Money'
  <1>1. Money /\ quote' = quote /\ bill' = bill
    BY DEF IInv, checkout
  <1>2. ASSUME NEW v \in Workers
        PROVE  Drafted(v)'
    <2>1. CASE v = w
      BY <2>1
    <2>2. CASE v # w
      BY <1>1, <2>2 DEF Money, Drafted, Quoted
    <2>3. QED
      BY <2>1, <2>2
  <1>3. QED
    BY <1>1, <1>2 DEF Money, Quoted, Charged

\* A request moves, and is not about to write a default address.
LEMMA OnlyRequest ==
    ASSUME IInv, NEW w \in Workers, NEW r, IsRequest(r), req' = [req EXCEPT ![w] = r],
           r.pc \notin {"insert", "save"} \/ r.flag # "default",
           UNCHANGED <<address, checkout>>, Drafted(w)'
    PROVE  IInv'
  <1>1. Shaped
    BY DEF IInv
  <1>2. /\ req'[w] = r /\ \A v \in Workers : v # w => req'[v] = req[v]
        /\ DOMAIN req' = Workers /\ \A v \in Workers : IsRequest(req'[v])
    BY <1>1, Moved
  <1>3. Shaped'
    BY <1>1, <1>2 DEF Shaped, IsRequest
  <1>4. Money'
    BY <1>2, MoneyKept
  <1>5. DefaultsBounded'
    <2>1. Default' = Default
      BY DEF Default
    <2>2. \A v \in Workers : Chosen(v)' => Chosen(v) /\ req'[v].id = req[v].id
      BY <1>2 DEF Chosen
    <2>3. Pending' \subseteq Pending
      BY <2>2 DEF Pending
    <2>4. QED
      BY <2>1, <2>3, DefaultsKept DEF IInv
  <1>6. QED
    BY <1>3, <1>4, <1>5 DEF IInv

\* Most requests have no draft.
LEMMA NoDraft ==
    ASSUME NEW w, req'[w].pc \notin {"quoteCoupon", "quoteAddress", "placeOrder"}
    PROVE  Drafted(w)'
  BY DEF Drafted
-----------------------------------------------------------------------------
(* The steps                                                               *)

\* Requests as they come.
LEMMA AddressRequest ==
    ASSUME NEW pc, NEW x, NEW b, NEW r, r = [Idle EXCEPT !.pc = pc, !.id = x, !.flag = b]
    PROVE  r = [pc |-> pc, id |-> x, flag |-> b, lines |-> <<>>, code |-> FALSE, draft |-> None]
  BY DEF Idle

LEMMA DeleteRequest ==
    ASSUME NEW pc, NEW x, NEW r, r = [Idle EXCEPT !.pc = pc, !.id = x]
    PROVE  IsRequest(r) /\ r.pc = pc
  <1>1. r = [pc |-> pc, id |-> x, flag |-> "plain", lines |-> <<>>, code |-> FALSE, draft |-> None]
    BY DEF Idle
  <1>2. QED
    BY <1>1 DEF IsRequest

LEMMA SyncRequest ==
    ASSUME NEW pc, NEW s, NEW r, r = [Idle EXCEPT !.pc = pc, !.lines = s]
    PROVE  IsRequest(r) /\ r.pc = pc
  <1>1. r = [pc |-> pc, id |-> None, flag |-> "plain", lines |-> s, code |-> FALSE, draft |-> None]
    BY DEF Idle
  <1>2. QED
    BY <1>1 DEF IsRequest

LEMMA PostKeeps ==
    ASSUME IInv, NEW w \in Workers, AddressPost(w)
    PROVE  IInv'
  <1>1. PICK a \in Ids, flag \in {"plain", "default"} :
           req' = [req EXCEPT ![w] = [Idle EXCEPT !.pc = IF flag = "default" THEN "clear" ELSE "insert",
                                                  !.id = a, !.flag = flag]]
    BY DEF AddressPost, Begin
  <1>2. PICK pc : pc = IF flag = "default" THEN "clear" ELSE "insert"
    OBVIOUS
  <1>3. PICK r : r = [Idle EXCEPT !.pc = pc, !.id = a, !.flag = flag]
    OBVIOUS
  <1>4. req' = [req EXCEPT ![w] = r]
    BY <1>1, <1>2, <1>3
  <1>5. IsRequest(r) /\ r.pc = pc /\ r.flag = flag
    <2>1. r = [pc |-> pc, id |-> a, flag |-> flag, lines |-> <<>>, code |-> FALSE, draft |-> None]
      BY <1>3, AddressRequest
    <2>2. QED
      BY <2>1 DEF IsRequest
  <1>6. req'[w] = r
    BY <1>4, <1>5, Moved DEF IInv
  <1>7. UNCHANGED <<address, checkout>>
    BY DEF AddressPost, others
  <1>8. Drafted(w)'
    BY <1>2, <1>5, <1>6, NoDraft
  <1>9. r.pc \notin {"insert", "save"} \/ r.flag # "default"
    BY <1>2, <1>5
  <1>10. QED
    BY <1>4, <1>5, <1>7, <1>8, <1>9, OnlyRequest

LEMMA PutKeeps ==
    ASSUME IInv, NEW w \in Workers, AddressPut(w)
    PROVE  IInv'
  <1>1. PICK a \in Ids, flag \in {"plain", "default"} :
           req' = [req EXCEPT ![w] = [Idle EXCEPT !.pc = IF flag = "default" THEN "clearOthers" ELSE "save",
                                                  !.id = a, !.flag = flag]]
    BY DEF AddressPut, Begin
  <1>2. PICK pc : pc = IF flag = "default" THEN "clearOthers" ELSE "save"
    OBVIOUS
  <1>3. PICK r : r = [Idle EXCEPT !.pc = pc, !.id = a, !.flag = flag]
    OBVIOUS
  <1>4. req' = [req EXCEPT ![w] = r]
    BY <1>1, <1>2, <1>3
  <1>5. IsRequest(r) /\ r.pc = pc /\ r.flag = flag
    <2>1. r = [pc |-> pc, id |-> a, flag |-> flag, lines |-> <<>>, code |-> FALSE, draft |-> None]
      BY <1>3, AddressRequest
    <2>2. QED
      BY <2>1 DEF IsRequest
  <1>6. req'[w] = r
    BY <1>4, <1>5, Moved DEF IInv
  <1>7. UNCHANGED <<address, checkout>>
    BY DEF AddressPut, others
  <1>8. Drafted(w)'
    BY <1>2, <1>5, <1>6, NoDraft
  <1>9. r.pc \notin {"insert", "save"} \/ r.flag # "default"
    BY <1>2, <1>5
  <1>10. QED
    BY <1>4, <1>5, <1>7, <1>8, <1>9, OnlyRequest

LEMMA DeleteKeeps ==
    ASSUME IInv, NEW w \in Workers, AddressDelete(w)
    PROVE  IInv'
  <1>1. PICK a \in Ids : req' = [req EXCEPT ![w] = [Idle EXCEPT !.pc = "delete", !.id = a]]
    BY DEF AddressDelete, Begin
  <1> DEFINE r == [Idle EXCEPT !.pc = "delete", !.id = a]
  <1>2. IsRequest(r) /\ r.pc = "delete"
    BY DeleteRequest
  <1> HIDE DEF r
  <1>3. req' = [req EXCEPT ![w] = r] /\ req'[w] = r
    BY <1>1, <1>2, Moved DEF r, IInv
  <1>4. UNCHANGED <<address, checkout>>
    BY DEF AddressDelete, others
  <1>5. QED
    BY <1>2, <1>3, <1>4, NoDraft, OnlyRequest

LEMMA SyncKeeps ==
    ASSUME IInv, NEW w \in Workers, CartSync(w)
    PROVE  IInv'
  <1>1. PICK s \in Payloads : req' = [req EXCEPT ![w] = [Idle EXCEPT !.pc = "emptyCart", !.lines = s]]
    BY DEF CartSync, Begin
  <1> DEFINE r == [Idle EXCEPT !.pc = "emptyCart", !.lines = s]
  <1>2. IsRequest(r) /\ r.pc = "emptyCart"
    BY SyncRequest
  <1> HIDE DEF r
  <1>3. req' = [req EXCEPT ![w] = r] /\ req'[w] = r
    BY <1>1, <1>2, Moved DEF r, IInv
  <1>4. UNCHANGED <<address, checkout>>
    BY DEF CartSync, rest
  <1>5. QED
    BY <1>2, <1>3, <1>4, NoDraft, OnlyRequest

LEMMA EmptyCartKeeps ==
    ASSUME IInv, NEW w \in Workers, EmptyCart(w)
    PROVE  IInv'
  <1>1. PICK r \in {Idle, [req[w] EXCEPT !.pc = "fillCart"]} : req' = [req EXCEPT ![w] = r]
    BY DEF EmptyCart, Answer, Goto
  <1>2. IsRequest(r) /\ r.pc \in {"idle", "fillCart"}
    BY <1>1, Advanced, IdleShape DEF IInv, Shaped
  <1>3. req'[w] = r
    BY <1>1, <1>2, Moved DEF IInv
  <1>4. UNCHANGED <<address, checkout>>
    BY DEF EmptyCart, rest
  <1>5. QED
    BY <1>1, <1>2, <1>3, <1>4, NoDraft, OnlyRequest

LEMMA FillCartKeeps ==
    ASSUME IInv, NEW w \in Workers, FillCart(w)
    PROVE  IInv'
  <1>1. PICK r : /\ req' = [req EXCEPT ![w] = r]
                 /\ r = Idle \/ r = [req[w] EXCEPT !.lines = Tail(req[w].lines)]
    <2>1. CASE Answer(w)
      BY <2>1 DEF Answer
    <2>2. CASE req' = [req EXCEPT ![w].lines = Tail(@)]
      BY <2>2
    <2>3. QED
      BY <2>1, <2>2 DEF FillCart
  <1>2. IsRequest(r) /\ r.pc \in {"idle", "fillCart"}
    <2>1. req[w].pc = "fillCart" /\ IsRequest(req[w])
      BY DEF FillCart, IInv, Shaped
    <2>2. CASE r = Idle
      BY <2>2, IdleShape
    <2>3. CASE r = [req[w] EXCEPT !.lines = Tail(req[w].lines)]
      BY <2>1, <2>3, Shortened
    <2>4. QED
      BY <1>1, <2>2, <2>3
  <1>3. req'[w] = r
    BY <1>1, <1>2, Moved DEF IInv
  <1>4. UNCHANGED <<address, checkout>>
    BY DEF FillCart, rest
  <1>5. Drafted(w)'
    BY <1>2, <1>3, NoDraft
  <1>6. QED
    BY <1>1, <1>2, <1>4, <1>5, OnlyRequest

LEMMA FailKeeps ==
    ASSUME IInv, NEW w \in Workers, Fail(w)
    PROVE  IInv'
  <1>1. req' = [req EXCEPT ![w] = Idle] /\ UNCHANGED <<address, checkout>>
    BY DEF Fail, Answer
  <1>2. req'[w] = Idle
    BY <1>1, IdleShape, Moved DEF IInv
  <1>3. QED
    BY <1>1, <1>2, IdleShape, NoDraft, OnlyRequest
\* The requests that write addresses: what they leave as default or about to be
\* was so before, or is in the hands of some request.
LEMMA AddressWritten ==
    ASSUME IInv, NEW w \in Workers, NEW r, IsRequest(r), req' = [req EXCEPT ![w] = r],
           r.pc \notin {"quoteCoupon", "quoteAddress", "placeOrder"},
           DOMAIN address' = Ids, UNCHANGED checkout, DefaultsBounded'
    PROVE  IInv'
  <1>1. /\ req'[w] = r /\ \A v \in Workers : v # w => req'[v] = req[v]
        /\ DOMAIN req' = Workers /\ \A v \in Workers : IsRequest(req'[v])
    BY Moved DEF IInv
  <1>2. Money'
    BY <1>1, NoDraft, MoneyKept
  <1>3. Shaped'
    BY <1>1 DEF Shaped, IsRequest
  <1>4. QED
    BY <1>2, <1>3 DEF IInv

LEMMA ClearKeeps ==
    ASSUME IInv, NEW w \in Workers, ClearDefaults(w)
    PROVE  IInv'
  <1>1. PICK r : r = [req[w] EXCEPT !.pc = "insert"]
    OBVIOUS
  <1>2. IsRequest(r) /\ r.pc = "insert"
    BY <1>1, Advanced DEF IInv, Shaped
  <1>3. req' = [req EXCEPT ![w] = r] /\ UNCHANGED checkout
    BY <1>1, GoneTo DEF ClearDefaults, others, IInv
  <1>4. DOMAIN address' = Ids /\ Default' = {}
    BY DEF ClearDefaults, Default
  <1>5. (Default \cup Pending)' \subseteq {req[v].id : v \in Workers}'
    BY <1>4 DEF Pending
  <1>6. DefaultsBounded'
    BY <1>5, DefaultsInHand
  <1>7. QED
    BY <1>2, <1>3, <1>4, <1>6, AddressWritten

LEMMA ClearOthersKeeps ==
    ASSUME IInv, NEW w \in Workers, ClearOthers(w)
    PROVE  IInv'
  <1>1. PICK r : r = [req[w] EXCEPT !.pc = "save"]
    OBVIOUS
  <1>2. IsRequest(r) /\ r.pc = "save" /\ r.id = req[w].id
    BY <1>1, Advanced DEF IInv, Shaped
  <1>3. req' = [req EXCEPT ![w] = r] /\ UNCHANGED checkout
    BY <1>1, GoneTo DEF ClearOthers, others, IInv
  <1>4. req'[w].id = req[w].id
    BY <1>2, <1>3, Moved DEF IInv
  <1>5. DOMAIN address' = Ids /\ Default' \subseteq {req[w].id}
    BY DEF ClearOthers, Default
  <1>6. (Default \cup Pending)' \subseteq {req[v].id : v \in Workers}'
    <2>1. Default' \subseteq {req'[w].id}
      BY <1>4, <1>5
    <2>2. QED
      BY <2>1 DEF Pending
  <1>7. DefaultsBounded'
    BY <1>6, DefaultsInHand
  <1>8. QED
    BY <1>2, <1>3, <1>5, <1>7, AddressWritten

LEMMA SaveKeeps ==
    ASSUME IInv, NEW w \in Workers, SaveAddress(w)
    PROVE  IInv'
  <1>1. /\ req[w].pc \in {"insert", "save"} /\ UNCHANGED checkout
        /\ req' = [req EXCEPT ![w] = Idle] /\ address' = [address EXCEPT ![req[w].id] = req[w].flag]
    BY DEF SaveAddress, others, Answer
  <1>2. req'[w] = Idle /\ \A v \in Workers : v # w => req'[v] = req[v]
    BY <1>1, IdleShape, Moved DEF IInv
  <1>3. DOMAIN address = Ids
    BY DEF IInv, Shaped
  <1>4. DOMAIN address' = Ids
           /\ \A a \in Ids : address'[a] = IF a = req[w].id THEN req[w].flag ELSE address[a]
    BY <1>1, <1>3
  <1>5. Pending' \subseteq Pending
    <2>1. \A v \in Workers : Chosen(v)' => Chosen(v) /\ req'[v].id = req[v].id
      BY <1>2, IdleShape DEF Chosen
    <2>2. QED
      BY <2>1 DEF Pending
  <1>6. Default' \subseteq Default \cup Pending
    <2>1. ASSUME NEW a \in Default'
          PROVE  a \in Default \cup Pending
      <3>1. a \in Ids /\ address'[a] = "default"
        BY <2>1 DEF Default
      <3>2. CASE a = req[w].id
        BY <1>1, <1>4, <3>1, <3>2 DEF Pending, Chosen
      <3>3. CASE a # req[w].id
        BY <1>4, <3>1, <3>3 DEF Default
      <3>4. QED
        BY <3>2, <3>3
    <2>2. QED
      BY <2>1
  <1>7. DefaultsBounded'
    BY <1>5, <1>6, DefaultsKept DEF IInv
  <1>8. QED
    BY <1>1, <1>4, <1>7, IdleShape, AddressWritten

LEMMA DeleteAddressKeeps ==
    ASSUME IInv, NEW w \in Workers, DeleteAddress(w)
    PROVE  IInv'
  <1>1. /\ req[w].pc = "delete" /\ UNCHANGED checkout
        /\ req' = [req EXCEPT ![w] = Idle] /\ address' = [address EXCEPT ![req[w].id] = "gone"]
    BY DEF DeleteAddress, others, Answer
  <1>2. req'[w] = Idle /\ \A v \in Workers : v # w => req'[v] = req[v]
    BY <1>1, IdleShape, Moved DEF IInv
  <1>3. DOMAIN address = Ids
    BY DEF IInv, Shaped
  <1>4. DOMAIN address' = Ids /\ \A a \in Ids : address'[a] = IF a = req[w].id THEN "gone" ELSE address[a]
    BY <1>1, <1>3
  <1>5. Pending' \subseteq Pending
    <2>1. \A v \in Workers : Chosen(v)' => Chosen(v) /\ req'[v].id = req[v].id
      BY <1>2, IdleShape DEF Chosen
    <2>2. QED
      BY <2>1 DEF Pending
  <1>6. Default' \subseteq Default
    BY <1>4 DEF Default
  <1>7. DefaultsBounded'
    BY <1>5, <1>6, DefaultsKept DEF IInv
  <1>8. QED
    BY <1>1, <1>4, <1>7, IdleShape, AddressWritten

\* The steps of a preview and of an order leave the addresses alone.
LEMMA DraftKeeps ==
    ASSUME IInv, NEW w \in Workers, NEW r, IsRequest(r), req' = [req EXCEPT ![w] = r],
           r.pc \in {"idle", "quoteCoupon", "quoteAddress", "placeOrder"},
           UNCHANGED address, Drafted(w)',
           quote' # quote /\ quote' # None => Quoted(quote'),
           bill' # bill /\ bill' # None => /\ Quoted(bill'.quote) /\ Charged(bill')
                                           /\ \E p \in Products : bill'.quote.lines[p] > 0
    PROVE  IInv'
  <1>1. /\ req'[w] = r /\ \A v \in Workers : v # w => req'[v] = req[v]
        /\ DOMAIN req' = Workers /\ \A v \in Workers : IsRequest(req'[v])
    BY Moved DEF IInv
  <1>2. Shaped'
    BY <1>1 DEF IInv, Shaped, IsRequest
  <1>3. Money'
    <2>1. ASSUME NEW v \in Workers
          PROVE  Drafted(v)'
      <3>1. CASE v = w
        BY <3>1
      <3>2. CASE v # w
        BY <1>1, <3>2 DEF IInv, Money, Drafted, Quoted
      <3>3. QED
        BY <3>1, <3>2
    <2>2. quote' # None => Quoted(quote')
      BY DEF IInv, Money
    <2>3. bill' # None => /\ Quoted(bill'.quote) /\ Charged(bill')
                          /\ \E p \in Products : bill'.quote.lines[p] > 0
      BY DEF IInv, Money
    <2>4. QED
      BY <2>1, <2>2, <2>3 DEF Money, Quoted, Charged
  <1>4. DefaultsBounded'
    <2>1. Default' = Default
      BY DEF Default
    <2>2. \A v \in Workers : Chosen(v)' => Chosen(v) /\ req'[v].id = req[v].id
      BY <1>1 DEF Chosen
    <2>3. Pending' \subseteq Pending
      BY <2>2 DEF Pending
    <2>4. QED
      BY <2>1, <2>3, DefaultsKept DEF IInv
  <1>5. QED
    BY <1>2, <1>3, <1>4 DEF IInv

LEMMA PreviewCartKeeps ==
    ASSUME IInv, NEW w \in Workers, PreviewCart(w)
    PROVE  IInv'
  <1>1. PICK d : d = [lines |-> cart, prices |-> price, subtotal |-> SubtotalOf(cart, price)]
    OBVIOUS
  <1>2. PICK code : req' = [req EXCEPT ![w] = [Idle EXCEPT !.pc = "quoteCoupon", !.code = code, !.draft = d]]
    BY <1>1 DEF PreviewCart, Begin
  <1>3. PICK r : r = [Idle EXCEPT !.pc = "quoteCoupon", !.code = code, !.draft = d]
    OBVIOUS
  <1>4. IsRequest(r) /\ r.pc = "quoteCoupon" /\ r.draft = d
    <2>1. r = [pc |-> "quoteCoupon", id |-> None, flag |-> "plain", lines |-> <<>>, code |-> code,
               draft |-> d]
      BY <1>3 DEF Idle
    <2>2. QED
      BY <2>1 DEF IsRequest
  <1>5. req' = [req EXCEPT ![w] = r]
    BY <1>2, <1>3
  <1>6. req'[w] = r
    BY <1>4, <1>5, Moved DEF IInv
  <1>7. UNCHANGED <<address, quote, bill>>
    BY DEF PreviewCart, tables, checkout
  <1>8. d.subtotal = SubtotalOf(d.lines, d.prices)
    BY <1>1
  <1>9. Drafted(w)'
    BY <1>4, <1>6, <1>8 DEF Drafted
  <1>10. QED
    BY <1>4, <1>5, <1>7, <1>9, DraftKeeps

LEMMA PreviewCouponKeeps ==
    ASSUME IInv, NEW w \in Workers, PreviewCoupon(w)
    PROVE  IInv'
  <1>1. PICK e : e = req[w].draft
    OBVIOUS
  <1>2. PICK b : b = Used(w, e.subtotal)
    OBVIOUS
  <1>3. PICK d : d = [lines |-> e.lines, prices |-> e.prices, subtotal |-> e.subtotal,
                      coupon |-> coupon, discount |-> DiscountOf(b, e.subtotal)]
    OBVIOUS
  <1>4. PICK r : r = [req[w] EXCEPT !.pc = "quoteAddress", !.code = b, !.draft = d]
    OBVIOUS
  <1>5. IsRequest(req[w]) /\ DOMAIN req = Workers
    BY DEF IInv, Shaped
  <1>6. IsRequest(r) /\ r.pc = "quoteAddress" /\ r.code = b /\ r.draft = d
    <2>1. r = [pc |-> "quoteAddress", id |-> req[w].id, flag |-> req[w].flag, lines |-> req[w].lines,
               code |-> b, draft |-> d]
      BY <1>4, <1>5 DEF IsRequest
    <2>2. QED
      BY <2>1 DEF IsRequest
  <1>7. req' = [req EXCEPT ![w] = r]
    BY <1>1, <1>2, <1>3, <1>4, <1>5 DEF PreviewCoupon, IsRequest
  <1>8. req'[w] = r
    BY <1>6, <1>7, Moved DEF IInv
  <1>9. req[w].pc = "quoteCoupon" /\ UNCHANGED <<address, quote, bill>>
    BY DEF PreviewCoupon, tables, checkout
  <1>10. d.subtotal = SubtotalOf(d.lines, d.prices)
    BY <1>1, <1>3, <1>9 DEF IInv, Money, Drafted
  <1>11. d.discount = Off(b, d.coupon, d.subtotal)
    BY <1>3 DEF Off, DiscountOf
  <1>12. Drafted(w)'
    BY <1>6, <1>8, <1>10, <1>11 DEF Drafted
  <1>13. QED
    BY <1>6, <1>7, <1>9, <1>12, DraftKeeps

LEMMA PreviewAddressKeeps ==
    ASSUME IInv, NEW w \in Workers, PreviewAddress(w)
    PROVE  IInv'
  <1>1. PICK d : d = req[w].draft
    OBVIOUS
  <1>2. PICK c : c = req[w].code
    OBVIOUS
  <1>3. PICK a : quote' = [lines |-> d.lines, prices |-> d.prices, code |-> c, coupon |-> d.coupon,
                           address |-> a,
                           total |-> Total(d.subtotal, d.discount, FeeOf(d.lines),
                                           PreviewTaxes(d.subtotal, d.discount))]
    BY <1>1, <1>2 DEF PreviewAddress, FeeOf
  <1>4. req' = [req EXCEPT ![w] = Idle] /\ UNCHANGED <<address, bill>> /\ req[w].pc = "quoteAddress"
    BY DEF PreviewAddress, tables, Answer
  <1>5. d.subtotal = SubtotalOf(d.lines, d.prices) /\ d.discount = Off(c, d.coupon, d.subtotal)
    BY <1>1, <1>2, <1>4 DEF IInv, Money, Drafted
  <1>6. Quoted(quote')
    BY <1>3, <1>5 DEF Quoted
  <1>7. req'[w] = Idle
    BY <1>4, IdleShape, Moved DEF IInv
  <1>8. Drafted(w)'
    BY <1>7, IdleShape, NoDraft
  <1>9. QED
    BY <1>4, <1>6, <1>8, IdleShape, DraftKeeps

LEMMA PlaceOrderKeeps ==
    ASSUME IInv, NEW w \in Workers, PlaceOrder(w)
    PROVE  IInv'
  <1>1. PICK a : req' = [req EXCEPT ![w] = [Idle EXCEPT !.pc = "placeOrder", !.id = a,
                                               !.code = quote.code, !.draft = quote]]
    BY DEF PlaceOrder, Begin
  <1>2. PICK r : r = [Idle EXCEPT !.pc = "placeOrder", !.id = a, !.code = quote.code, !.draft = quote]
    OBVIOUS
  <1>3. IsRequest(r) /\ r.pc = "placeOrder" /\ r.code = quote.code /\ r.draft = quote
    <2>1. r = [pc |-> "placeOrder", id |-> a, flag |-> "plain", lines |-> <<>>, code |-> quote.code,
               draft |-> quote]
      BY <1>2 DEF Idle
    <2>2. QED
      BY <2>1 DEF IsRequest
  <1>4. req' = [req EXCEPT ![w] = r]
    BY <1>1, <1>2
  <1>5. req'[w] = r
    BY <1>3, <1>4, Moved DEF IInv
  <1>6. /\ UNCHANGED <<address, quote, bill>> /\ quote # None
        /\ \E p \in Products : quote.lines[p] > 0
    BY DEF PlaceOrder, tables, checkout
  <1>7. Quoted(quote)
    BY <1>6 DEF IInv, Money
  <1>8. Drafted(w)'
    BY <1>3, <1>5, <1>6, <1>7 DEF Drafted, Quoted
  <1>9. QED
    BY <1>3, <1>4, <1>6, <1>8, DraftKeeps

LEMMA CommitOrderKeeps ==
    ASSUME IInv, NEW w \in Workers, CommitOrder(w)
    PROVE  IInv'
  <1>1. PICK q : q = req[w].draft
    OBVIOUS
  <1>2. req' = [req EXCEPT ![w] = Idle] /\ UNCHANGED <<address, quote>> /\ req[w].pc = "placeOrder"
    BY DEF CommitOrder, tables, Answer
  <1>3. req'[w] = Idle
    BY <1>2, IdleShape, Moved DEF IInv
  <1>4. Drafted(w)'
    BY <1>3, IdleShape, NoDraft
  <1>5. Quoted(q) /\ req[w].code = q.code /\ \E p \in Products : q.lines[p] > 0
    BY <1>1, <1>2 DEF IInv, Money, Drafted
  <1>6. PICK s : s = SubtotalOf(q.lines, price)
    OBVIOUS
  <1>7. PICK d : d = Off(q.code, coupon, s)
    OBVIOUS
  <1>8. d = DiscountOf(req[w].code, s)
    BY <1>5, <1>7 DEF DiscountOf, Off
  <1>9. ASSUME bill' # bill
        PROVE  Quoted(bill'.quote) /\ Charged(bill') /\ \E p \in Products : bill'.quote.lines[p] > 0
    <2>1. PICK o \in Stored(s, d) : bill' = [quote |-> q, prices |-> price, coupon |-> coupon, order |-> o]
      BY <1>1, <1>6, <1>8, <1>9 DEF CommitOrder
    <2>2. o.total \in Nearest(Total(s, d, Fee, Taxes(s, d)))
      BY DEF Stored
    <2>3. bill'.quote = q /\ bill'.prices = price /\ bill'.coupon = coupon /\ bill'.order = o
      BY <2>1
    <2>4. Charged(bill')
      BY <2>2, <2>3, <1>6, <1>7 DEF Charged
    <2>5. QED
      BY <1>5, <2>3, <2>4
  <1>10. QED
    BY <1>2, <1>4, <1>9, IdleShape, DraftKeeps

-----------------------------------------------------------------------------
(* The specification                                                       *)

\* Steps that touch neither requests nor addresses nor what was worked out.
LEMMA OthersKeep ==
    ASSUME IInv, UNCHANGED <<req, address, quote, bill>>
    PROVE  IInv'
  <1>1. Shaped' /\ Money'
    BY DEF IInv, Shaped, Money, IsRequest, Drafted, Quoted, Charged
  <1>2. DefaultsBounded'
    <2>1. (Default \cup Pending)' = Default \cup Pending
      BY DEF Default, Pending, Chosen
    <2>2. QED
      BY <2>1, DefaultsKept DEF IInv
  <1>3. QED
    BY <1>1, <1>2 DEF IInv

LEMMA InitHolds ==
    ASSUME Init
    PROVE  IInv
  <1>1. Shaped
    BY IdleShape DEF Init, Shaped
  <1>2. Money
    BY IdleShape DEF Init, Money, Drafted
  <1>3. DefaultsBounded
    <2>1. PICK a \in Ids : address = [i \in Ids |-> IF i = a THEN "default" ELSE "new"]
      BY DEF Init
    <2>2. Default = {a}
      BY <2>1 DEF Default
    <2>3. Pending = {}
      BY IdleShape DEF Init, Pending, Chosen
    <2>4. Default \cup Pending = {a}
      BY <2>2, <2>3
    <2>5. Cardinality({a}) = 1
      BY FS_Singleton
    <2>6. Cardinality(Workers) \in Nat /\ Cardinality(Workers) # 0
      BY CustomerAssumption, FS_CardinalityType, FS_EmptySet
    <2>7. QED
      BY <2>4, <2>5, <2>6 DEF DefaultsBounded
  <1>4. QED
    BY <1>1, <1>2, <1>3 DEF IInv

LEMMA NextKeeps ==
    ASSUME IInv, [Next]_vars
    PROVE  IInv'
  <1>1. CASE Change
    BY <1>1, OthersKeep DEF Change, checkout
  <1>2. CASE Rest \/ UNCHANGED vars
    BY <1>2, OthersKeep DEF Rest, vars
  <1>3. ASSUME NEW w \in Workers, Arrive(w)
        PROVE  IInv'
    BY <1>3, PostKeeps, PutKeeps, DeleteKeeps, SyncKeeps, PreviewCartKeeps, PlaceOrderKeeps DEF Arrive
  <1>4. ASSUME NEW w \in Workers, Step(w)
        PROVE  IInv'
    BY <1>4, ClearKeeps, ClearOthersKeeps, SaveKeeps, DeleteAddressKeeps, EmptyCartKeeps,
       FillCartKeeps, PreviewCouponKeeps, PreviewAddressKeeps, CommitOrderKeeps DEF Step
  <1>5. ASSUME NEW w \in Workers, Fail(w)
        PROVE  IInv'
    BY <1>5, FailKeeps
  <1>6. QED
    BY <1>1, <1>2, <1>3, <1>4, <1>5 DEF Next

\* Whatever the devices of a customer do at once, what a request has worked
\* out, what was quoted and what was charged fit their lines, prices and coupon.
THEOREM Invariance == Spec => []IInv
  <1>1. Init => IInv
    BY InitHolds
  <1>2. IInv /\ [Next]_vars => IInv'
    BY NextKeeps
  <1>3. QED
    BY <1>1, <1>2, PTL DEF Spec

\* A customer never has more default addresses than requests are served at a
\* time: one, if they come one by one (set_default before save).
THEOREM FewDefaults == Spec => []DefaultsBounded
  <1>1. IInv => DefaultsBounded
    BY DEF IInv
  <1>2. QED
    BY <1>1, Invariance, PTL

\* At a tax rate of 5 per cent, the rate of CheckoutPreviewView, the charge of
\* create_order is the preview's total, rounded, for all prices and coupons.
THEOREM ChargedAsQuoted ==
    ASSUME TaxPercent = 5
    PROVE  Spec => []QuoteIsCharge
  <1>1. IInv => QuoteIsCharge
    <2>1. SUFFICES ASSUME IInv, bill # None, bill.prices = bill.quote.prices,
                          bill.coupon = bill.quote.coupon
                   PROVE  IsRounded(bill.order.total, bill.quote.total)
      BY DEF QuoteIsCharge
    <2>2. PICK q : q = bill.quote
      OBVIOUS
    <2>3. PICK s : s = SubtotalOf(q.lines, q.prices)
      OBVIOUS
    <2>4. PICK d : d = Off(q.code, q.coupon, s)
      OBVIOUS
    <2>5. FeeOf(q.lines) = Fee
      BY <2>1, <2>2 DEF IInv, Money, FeeOf
    <2>6. q.total = Total(s, d, Fee, PreviewTaxes(s, d))
      BY <2>1, <2>2, <2>3, <2>4, <2>5 DEF IInv, Money, Quoted
    <2>7. bill.order.total \in Nearest(Total(s, d, Fee, Taxes(s, d)))
      BY <2>1, <2>2, <2>3, <2>4 DEF IInv, Money, Charged
    <2>8. Taxes(s, d) = PreviewTaxes(s, d)
      BY DEF Taxes, PreviewTaxes
    <2>9. QED
      BY <2>2, <2>6, <2>7, <2>8 DEF Nearest
  <1>2. QED
    BY <1>1, Invariance, PTL

\* However subtotal, discount, taxes and total are rounded one by one, the stored
\* parts of an order add up to its total but for a paisa (the rows of Order).
THEOREM PartsAddUp ==
    ASSUME NEW s \in Int, NEW d \in Int, NEW o \in Stored(s, d)
    PROVE  Apart(o.total, o.subtotal - o.discount + Fee + o.taxes, 1)
  <1>1. Fee \in Int /\ TaxPercent \in Int
    BY CustomerAssumption, TaxAssumption
  <1> DEFINE t == Taxes(s, d)
  <1>2. t \in Int
    <2>1. Taxable(s, d) * TaxPercent \in Int
      BY <1>1 DEF Taxable, Unit
    <2>2. QED
      BY <2>1 DEF Taxes
  <1>3. PICK dd \in Nearest(d), tt \in Nearest(t), n \in Nearest(Total(s, d, Fee, t)) :
           o = [subtotal |-> s, discount |-> dd, taxes |-> tt, total |-> n]
    BY DEF Stored
  <1> HIDE DEF t
  <1>4. Total(s, d, Fee, t) \in Int /\ Total(s, d, Fee, t) = s * 10000 - d + Fee * 10000 + t
    BY <1>1, <1>2 DEF Total, Taxable, Unit
  <1>5. \A x \in Int : \A m \in Nearest(x) :
           m \in Int /\ 20000 * m - 2 * x <= 10000 /\ -10000 <= 20000 * m - 2 * x
    <2>1. SUFFICES ASSUME NEW x \in Int, NEW m \in Nearest(x)
                   PROVE  m \in Int /\ 20000 * m - 2 * x <= 10000 /\ -10000 <= 20000 * m - 2 * x
      OBVIOUS
    <2>2. m \in Int /\ IsRounded(m, x)
      BY DEF Nearest, Unit
    <2>3. QED
      BY <2>2 DEF IsRounded, Unit
  <1>6. /\ dd \in Int /\ 20000 * dd - 2 * d <= 10000 /\ -10000 <= 20000 * dd - 2 * d
        /\ tt \in Int /\ 20000 * tt - 2 * t <= 10000 /\ -10000 <= 20000 * tt - 2 * t
    BY <1>2, <1>5
  <1>7. PICK x \in Int : x = Total(s, d, Fee, t)
    BY <1>4
  <1>8. n \in Int /\ 20000 * n - 2 * x <= 10000 /\ -10000 <= 20000 * n - 2 * x
    BY <1>5, <1>7
  <1>9. n - (s - dd + Fee + tt) \in -1 .. 1
    BY <1>1, <1>2, <1>4, <1>6, <1>7, <1>8
  <1>10. QED
    BY <1>3, <1>9 DEF Apart

-----------------------------------------------------------------------------
(* The cart                                                                *)

\* The entries of s that still make an item in the cart: the good ones, up to the
\* first whose product is in the cart already or has been named before.
Clashing(s, k) == cart[s[k].p] > 0 \/ \E j \in Goods(s) : j < k /\ s[j].p = s[k].p
Coming(s)      == {i \in Goods(s) : \A k \in Goods(s) : k <= i => ~Clashing(s, k)}

\* What the cart is to be is what it holds and what is still to come of s.
Filling(s) ==
    /\ \A i \in Coming(s) : synced[s[i].p] = s[i].qty
    /\ \A p \in Products : (\A i \in Coming(s) : s[i].p # p) => synced[p] = cart[p]

Carried ==
    /\ cart \in [Products -> Nat] /\ synced \in [Products -> Int]
    /\ \A w \in Workers : /\ req[w].pc \in {"emptyCart", "fillCart"} => req[w].lines \in Seq(Line)
                          /\ req[w].pc = "fillCart" => req[w].lines # <<>>

\* One request at a time: it is filling the cart, or the cart is as it was to be.
CartInv ==
    /\ Carried
    /\ ~overlapped =>
          /\ \A v, w \in Workers : req[v].pc # "idle" /\ req[w].pc # "idle" => v = w
          /\ \A w \in Workers : req[w].pc = "fillCart" => Filling(req[w].lines)
          /\ (\A w \in Workers : req[w].pc # "fillCart") => cart = synced

\* What is left of the entries comes as it would have come after the first.
LEMMA ComesNext ==
    ASSUME NEW s \in Seq(Line), s # <<>>, NEW t, t = Tail(s),
           cart \in [Products -> Nat], listed' = listed, Filling(s),
           ~(Good(s[1]) /\ cart[s[1].p] > 0),
           cart' = IF Good(s[1]) THEN [cart EXCEPT ![s[1].p] = s[1].qty] ELSE cart,
           synced' = synced
    PROVE  Filling(t)'
  <1>1. /\ DOMAIN s = 1 .. Len(s) /\ Len(s) \in Nat /\ DOMAIN t = 1 .. Len(s) - 1
        /\ 1 \in DOMAIN s /\ \A i \in DOMAIN t : i + 1 \in DOMAIN s /\ t[i] = s[i + 1]
    OBVIOUS
  <1>2. \A i \in DOMAIN s : i \in Nat /\ i >= 1 /\ s[i].p \in Products /\ s[i].qty \in Int
    <2>1. \A i \in DOMAIN s : s[i] \in Line /\ i \in Nat /\ i >= 1
      BY <1>1
    <2>2. QED
      BY <2>1 DEF Line
  <1>3. \A i \in DOMAIN s : i # 1 => i - 1 \in DOMAIN t /\ t[i - 1] = s[i]
    <2>1. SUFFICES ASSUME NEW i \in DOMAIN s, i # 1 PROVE i - 1 \in DOMAIN t /\ t[i - 1] = s[i]
      OBVIOUS
    <2>2. i - 1 \in DOMAIN t
      BY <1>1, <2>1
    <2>3. i - 1 + 1 = i
      BY <1>2
    <2>4. QED
      BY <1>1, <2>2, <2>3
  <1>4. \A i \in DOMAIN t : (i \in Goods(t))' <=> i + 1 \in Goods(s)
    BY <1>1 DEF Goods, Good
  <1>5. Goods(t)' \subseteq DOMAIN t /\ Goods(s) \subseteq DOMAIN s
    BY DEF Goods
  <1>6. \A p \in Products : cart'[p] > 0 <=> cart[p] > 0 \/ (1 \in Goods(s) /\ s[1].p = p)
    <2>1. 1 \in Goods(s) <=> Good(s[1])
      BY <1>1 DEF Goods
    <2>2. Good(s[1]) => s[1].qty > 0
      BY DEF Good
    <2>3. s[1].p \in Products
      BY <1>1, <1>2
    <2>4. QED
      BY <2>1, <2>2, <2>3
  <1>7. \A k \in Goods(t)' : Clashing(t, k)' <=> Clashing(s, k + 1)
    <2>1. SUFFICES ASSUME NEW k \in Goods(t)' PROVE Clashing(t, k)' <=> Clashing(s, k + 1)
      OBVIOUS
    <2>2. /\ k \in DOMAIN t /\ k \in Nat /\ k + 1 \in DOMAIN s /\ t[k] = s[k + 1]
          /\ s[k + 1].p \in Products /\ 1 < k + 1
      BY <1>1, <1>2, <1>5
    <2>3. ASSUME Clashing(t, k)' PROVE Clashing(s, k + 1)
      <3>1. CASE cart'[t[k].p] > 0
        <4>1. cart[s[k + 1].p] > 0 \/ (1 \in Goods(s) /\ s[1].p = s[k + 1].p)
          BY <1>6, <2>2, <3>1
        <4>2. QED
          BY <2>2, <4>1 DEF Clashing
      <3>2. ASSUME NEW j \in Goods(t)', j < k, t[j].p = t[k].p PROVE Clashing(s, k + 1)
        <4>1. j + 1 \in Goods(s) /\ j + 1 < k + 1 /\ s[j + 1].p = s[k + 1].p
          BY <1>1, <1>4, <1>5, <2>2, <3>2
        <4>2. QED
          BY <4>1 DEF Clashing
      <3>3. QED
        BY <2>3, <3>1, <3>2 DEF Clashing
    <2>4. ASSUME Clashing(s, k + 1) PROVE Clashing(t, k)'
      <3>1. CASE cart[s[k + 1].p] > 0
        <4>1. cart'[t[k].p] > 0
          BY <1>6, <2>2, <3>1
        <4>2. QED
          BY <4>1 DEF Clashing
      <3>2. ASSUME NEW j \in Goods(s), j < k + 1, s[j].p = s[k + 1].p PROVE Clashing(t, k)'
        <4>1. CASE j = 1
          <5>1. cart'[t[k].p] > 0
            BY <1>6, <2>2, <3>2, <4>1
          <5>2. QED
            BY <5>1 DEF Clashing
        <4>2. CASE j # 1
          <5>1. j \in DOMAIN s /\ j - 1 \in DOMAIN t /\ t[j - 1] = s[j]
            BY <1>3, <1>5, <4>2
          <5>2. j - 1 + 1 = j /\ j - 1 < k
            BY <1>2, <2>2, <3>2, <5>1
          <5>3. (j - 1 \in Goods(t))'
            BY <1>4, <3>2, <5>1, <5>2
          <5>4. QED
            BY <2>2, <3>2, <5>1, <5>2, <5>3 DEF Clashing
        <4>3. QED
          BY <4>1, <4>2
      <3>3. QED
        BY <2>4, <3>1, <3>2 DEF Clashing
    <2>5. QED
      BY <2>3, <2>4
  <1>8. 1 \in Goods(s) => ~Clashing(s, 1)
    <2>1. 1 \in Goods(s) => ~(cart[s[1].p] > 0)
      BY DEF Goods
    <2>2. \A j \in Goods(s) : ~(j < 1)
      BY <1>2, <1>5
    <2>3. QED
      BY <2>1, <2>2 DEF Clashing
  <1>9. ASSUME NEW i \in DOMAIN t
        PROVE  (i \in Coming(t))' <=> i + 1 \in Coming(s)
    <2>1. ASSUME (i \in Coming(t))' PROVE i + 1 \in Coming(s)
      <3>1. i + 1 \in Goods(s)
        BY <1>4, <1>9, <2>1 DEF Coming
      <3>2. ASSUME NEW k \in Goods(s), k <= i + 1 PROVE ~Clashing(s, k)
        <4>1. CASE k = 1
          BY <1>8, <3>2, <4>1
        <4>2. CASE k # 1
          <5>1. k \in DOMAIN s /\ k - 1 \in DOMAIN t /\ k \in Nat /\ i \in Nat
            BY <1>1, <1>2, <1>3, <1>5, <4>2
          <5>2. k - 1 + 1 = k /\ k - 1 <= i
            BY <3>2, <5>1
          <5>3. (k - 1 \in Goods(t))'
            BY <1>4, <3>2, <5>1, <5>2
          <5>4. ~Clashing(t, k - 1)'
            BY <2>1, <5>2, <5>3 DEF Coming
          <5>5. QED
            BY <1>7, <5>2, <5>3, <5>4
        <4>3. QED
          BY <4>1, <4>2
      <3>3. QED
        BY <3>1, <3>2 DEF Coming
    <2>2. ASSUME i + 1 \in Coming(s) PROVE (i \in Coming(t))'
      <3>1. (i \in Goods(t))'
        BY <1>4, <1>9, <2>2 DEF Coming
      <3>2. ASSUME NEW k \in Goods(t)', k <= i PROVE ~Clashing(t, k)'
        <4>1. k \in DOMAIN t /\ k \in Nat /\ i \in Nat
          BY <1>1, <1>5
        <4>2. k + 1 \in Goods(s) /\ k + 1 <= i + 1
          BY <1>4, <3>2, <4>1
        <4>3. ~Clashing(s, k + 1)
          BY <2>2, <4>2 DEF Coming
        <4>4. QED
          BY <1>7, <4>3
      <3>3. QED
        BY <3>1, <3>2 DEF Coming
    <2>3. QED
      BY <2>1, <2>2
  <1>10. Coming(t)' \subseteq DOMAIN t /\ Coming(s) \subseteq DOMAIN s
    BY <1>5 DEF Coming
  <1>11. \A i \in Coming(t)' : synced[t[i].p] = t[i].qty
    BY <1>1, <1>9, <1>10 DEF Filling
  <1>12. ASSUME NEW p \in Products, \A i \in Coming(t)' : t[i].p # p
         PROVE  synced[p] = cart'[p]
    <2>1. ASSUME NEW i \in Coming(s), i # 1 PROVE s[i].p # p
      <3>1. i - 1 \in DOMAIN t /\ t[i - 1] = s[i] /\ i - 1 + 1 = i
        BY <1>2, <1>3, <1>10, <2>1
      <3>2. (i - 1 \in Coming(t))'
        BY <1>9, <2>1, <3>1
      <3>3. QED
        BY <1>12, <3>1, <3>2
    <2>2. CASE Good(s[1]) /\ s[1].p = p
      <3>1. 1 \in Goods(s)
        BY <1>1, <2>2 DEF Goods
      <3>2. 1 \in Coming(s)
        <4>1. \A k \in Goods(s) : k <= 1 => k = 1
          BY <1>2, <1>5
        <4>2. QED
          BY <1>8, <3>1, <4>1 DEF Coming
      <3>3. synced[p] = s[1].qty
        BY <2>2, <3>2 DEF Filling
      <3>4. QED
        BY <2>2, <3>3
    <2>3. CASE ~(Good(s[1]) /\ s[1].p = p)
      <3>1. 1 \in Coming(s) => s[1].p # p
        BY <2>3 DEF Coming, Goods
      <3>2. synced[p] = cart[p]
        BY <2>1, <3>1 DEF Filling
      <3>3. QED
        BY <1>1, <1>2, <2>3, <3>2
    <2>4. QED
      BY <2>2, <2>3
  <1>13. QED
    BY <1>11, <1>12 DEF Filling

\* Once nothing more comes, the cart is what it was to be.
LEMMA NothingComes ==
    ASSUME NEW s, Coming(s) = {}, Filling(s), cart \in [Products -> Nat],
           synced \in [Products -> Int]
    PROVE  cart = synced
  BY DEF Filling

\* An emptied cart is to be filled with every entry that makes an item.
LEMMA AllComes ==
    ASSUME NEW s \in Seq(Line), cart' = [p \in Products |-> 0], listed' = listed,
           synced' = Filled(s)
    PROVE  Filling(s)' /\ synced' \in [Products -> Int]
  <1>1. Goods(s)' = Goods(s) /\ \A i \in Goods(s) : i \in Nat /\ s[i].p \in Products
    <2>1. \A i \in DOMAIN s : s[i] \in Line /\ i \in Nat
      OBVIOUS
    <2>2. QED
      BY <2>1 DEF Goods, Good, Line
  <1>2. ASSUME NEW i \in Goods(s)
        PROVE  (i \in Coming(s))' <=> i \in Accepted(s)
    <2>1. \A k \in Goods(s) : Clashing(s, k)' <=> \E j \in Goods(s) : j < k /\ s[j].p = s[k].p
      BY <1>1 DEF Clashing
    <2>2. QED
      BY <1>1, <2>1 DEF Coming, Accepted
  <1>3. Coming(s)' = Accepted(s)
    BY <1>1, <1>2 DEF Coming, Accepted
  <1>4. \A i, j \in Accepted(s) : s[i].p = s[j].p => i = j
    <2>1. SUFFICES ASSUME NEW i \in Accepted(s), NEW j \in Accepted(s), s[i].p = s[j].p, i < j
                   PROVE  FALSE
      <3>1. \A i, j \in Accepted(s) : i \in Nat /\ j \in Nat
        BY <1>1 DEF Accepted
      <3>2. QED
        BY <3>1
    <2>2. i \in Goods(s) /\ j \in Goods(s) /\ j <= j
      BY <1>1 DEF Accepted
    <2>3. QED
      BY <2>1, <2>2 DEF Accepted
  <1>5. ASSUME NEW i \in Accepted(s)
        PROVE  synced'[s[i].p] = s[i].qty
    <2> DEFINE c == CHOOSE j \in Accepted(s) : s[j].p = s[i].p
    <2>1. c \in Accepted(s) /\ s[c].p = s[i].p
      OBVIOUS
    <2> HIDE DEF c
    <2>2. c = i
      BY <1>4, <2>1
    <2>3. s[i].p \in Products
      BY <1>1, <1>5 DEF Accepted
    <2>4. synced'[s[i].p] = s[c].qty
      BY <2>3 DEF Filled, c
    <2>5. QED
      BY <2>2, <2>4
  <1>6. ASSUME NEW p \in Products, \A i \in Accepted(s) : s[i].p # p
        PROVE  synced'[p] = cart'[p]
    BY <1>6 DEF Filled
  <1>7. synced' \in [Products -> Int]
    <2>0. \A i \in DOMAIN s : s[i] \in Line
      OBVIOUS
    <2>1. \A i \in Accepted(s) : s[i].qty \in Int
      BY <2>0 DEF Accepted, Goods, Line
    <2>2. \A p \in Products : Filled(s)[p] \in Int
      BY <2>1 DEF Filled
    <2>3. QED
      BY <2>2 DEF Filled
  <1>8. QED
    BY <1>3, <1>5, <1>6, <1>7 DEF Filling

\* A request begins: as long as nothing overlaps, it is the only one.
LEMMA BeginsAlone ==
    ASSUME Shaped, NEW w \in Workers, NEW r, IsRequest(r), Begin(w, r)
    PROVE  /\ req[w].pc = "idle" /\ req'[w] = r /\ \A v \in Workers \ {w} : req'[v] = req[v]
           /\ ~overlapped' => ~overlapped /\ \A v \in Workers : req[v].pc = "idle"
  BY DEF Begin, Quiet, Shaped

\* What a request has moved to leaves the cart alone.
Left(w) ==
    /\ req[w].pc # "fillCart" /\ req'[w].pc \notin {"emptyCart", "fillCart"}
    /\ \A v \in Workers \ {w} : req'[v] = req[v]
    /\ ~overlapped' => /\ ~overlapped
                       /\ req[w].pc = "idle" => \A v \in Workers : req[v].pc = "idle"

LEMMA BegunLeft ==
    ASSUME Shaped, NEW w \in Workers, NEW r, IsRequest(r), Begin(w, r),
           r.pc \notin {"emptyCart", "fillCart"}
    PROVE  Left(w)
  BY BeginsAlone DEF Left

LEMMA MovedLeft ==
    ASSUME Shaped, NEW w \in Workers, NEW r, IsRequest(r), req' = [req EXCEPT ![w] = r],
           r.pc \notin {"emptyCart", "fillCart"}, req[w].pc \notin {"idle", "fillCart"},
           overlapped' = overlapped
    PROVE  Left(w)
  BY Moved DEF Left

\* Requests as they begin: an address that is to be written is not a deleted one.
Writing == {"clear", "clearOthers", "insert", "save"}

LEMMA PostBegins ==
    ASSUME NEW w \in Workers, AddressPost(w)
    PROVE  \E r : /\ IsRequest(r) /\ Begin(w, r) /\ r.pc \in Writing
                  /\ r.id \in Ids /\ address[r.id] # "gone"
  <1>1. PICK a \in Ids, flag \in {"plain", "default"} :
           Begin(w, [Idle EXCEPT !.pc = IF flag = "default" THEN "clear" ELSE "insert",
                                 !.id = a, !.flag = flag]) /\ address[a] # "gone"
    BY DEF AddressPost
  <1>2. PICK pc : pc = IF flag = "default" THEN "clear" ELSE "insert"
    OBVIOUS
  <1>3. PICK r : r = [Idle EXCEPT !.pc = pc, !.id = a, !.flag = flag]
    OBVIOUS
  <1>4. IsRequest(r) /\ r.pc = pc /\ r.id = a
    <2>1. r = [pc |-> pc, id |-> a, flag |-> flag, lines |-> <<>>, code |-> FALSE, draft |-> None]
      BY <1>3, AddressRequest
    <2>2. QED
      BY <2>1 DEF IsRequest
  <1>5. Begin(w, r)
    BY <1>1, <1>2, <1>3
  <1>6. QED
    BY <1>1, <1>2, <1>4, <1>5 DEF Writing

LEMMA PutBegins ==
    ASSUME NEW w \in Workers, AddressPut(w)
    PROVE  \E r : /\ IsRequest(r) /\ Begin(w, r) /\ r.pc \in Writing
                  /\ r.id \in Ids /\ address[r.id] # "gone"
  <1>1. PICK a \in Ids, flag \in {"plain", "default"} :
           Begin(w, [Idle EXCEPT !.pc = IF flag = "default" THEN "clearOthers" ELSE "save",
                                 !.id = a, !.flag = flag]) /\ address[a] # "gone"
    BY DEF AddressPut, Exists
  <1>2. PICK pc : pc = IF flag = "default" THEN "clearOthers" ELSE "save"
    OBVIOUS
  <1>3. PICK r : r = [Idle EXCEPT !.pc = pc, !.id = a, !.flag = flag]
    OBVIOUS
  <1>4. IsRequest(r) /\ r.pc = pc /\ r.id = a
    <2>1. r = [pc |-> pc, id |-> a, flag |-> flag, lines |-> <<>>, code |-> FALSE, draft |-> None]
      BY <1>3, AddressRequest
    <2>2. QED
      BY <2>1 DEF IsRequest
  <1>5. Begin(w, r)
    BY <1>1, <1>2, <1>3
  <1>6. QED
    BY <1>1, <1>2, <1>4, <1>5 DEF Writing

LEMMA SyncBegins ==
    ASSUME NEW w \in Workers, CartSync(w)
    PROVE  \E r : /\ IsRequest(r) /\ Begin(w, r) /\ r.pc = "emptyCart" /\ r.lines \in Seq(Line)
  <1>1. PICK s \in Payloads : Begin(w, [Idle EXCEPT !.pc = "emptyCart", !.lines = s])
    BY DEF CartSync
  <1>2. PICK r : r = [Idle EXCEPT !.pc = "emptyCart", !.lines = s]
    OBVIOUS
  <1>3. IsRequest(r) /\ r.pc = "emptyCart"
    BY <1>2, SyncRequest
  <1>4. r.lines = s /\ s \in Seq(Line)
    BY <1>2, CustomerAssumption DEF Idle
  <1>5. QED
    BY <1>1, <1>2, <1>3, <1>4

LEMMA DeleteBegins ==
    ASSUME NEW w \in Workers, AddressDelete(w)
    PROVE  \E r : IsRequest(r) /\ Begin(w, r) /\ r.pc = "delete"
  <1>1. PICK a \in Ids : Begin(w, [Idle EXCEPT !.pc = "delete", !.id = a])
    BY DEF AddressDelete
  <1>2. PICK r : r = [Idle EXCEPT !.pc = "delete", !.id = a]
    OBVIOUS
  <1>3. IsRequest(r) /\ r.pc = "delete"
    BY <1>2, DeleteRequest
  <1>4. Begin(w, r)
    BY <1>1, <1>2
  <1>5. QED
    BY <1>3, <1>4

LEMMA PreviewBegins ==
    ASSUME NEW w \in Workers, PreviewCart(w)
    PROVE  \E r : /\ IsRequest(r) /\ Begin(w, r) /\ r.pc = "quoteCoupon"
                  /\ r.draft.lines = cart
  <1>1. PICK d : d = [lines |-> cart, prices |-> price, subtotal |-> SubtotalOf(cart, price)]
    OBVIOUS
  <1>2. PICK code : Begin(w, [Idle EXCEPT !.pc = "quoteCoupon", !.code = code, !.draft = d])
    BY <1>1 DEF PreviewCart
  <1>3. PICK r : r = [Idle EXCEPT !.pc = "quoteCoupon", !.code = code, !.draft = d]
    OBVIOUS
  <1>4. IsRequest(r) /\ r.pc = "quoteCoupon" /\ r.draft.lines = cart
    <2>1. r = [pc |-> "quoteCoupon", id |-> None, flag |-> "plain", lines |-> <<>>, code |-> code,
               draft |-> d]
      BY <1>3 DEF Idle
    <2>2. QED
      BY <1>1, <2>1 DEF IsRequest
  <1>5. Begin(w, r)
    BY <1>2, <1>3
  <1>6. QED
    BY <1>4, <1>5

LEMMA PlaceBegins ==
    ASSUME NEW w \in Workers, PlaceOrder(w)
    PROVE  \E r : IsRequest(r) /\ Begin(w, r) /\ r.pc = "placeOrder" /\ r.draft = quote
  <1>1. PICK a : Begin(w, [Idle EXCEPT !.pc = "placeOrder", !.id = a, !.code = quote.code,
                                       !.draft = quote])
    BY DEF PlaceOrder
  <1>2. PICK r : r = [Idle EXCEPT !.pc = "placeOrder", !.id = a, !.code = quote.code, !.draft = quote]
    OBVIOUS
  <1>3. IsRequest(r) /\ r.pc = "placeOrder" /\ r.draft = quote
    <2>1. r = [pc |-> "placeOrder", id |-> a, flag |-> "plain", lines |-> <<>>, code |-> quote.code,
               draft |-> quote]
      BY <1>2 DEF Idle
    <2>2. QED
      BY <2>1 DEF IsRequest
  <1>4. Begin(w, r)
    BY <1>1, <1>2
  <1>5. QED
    BY <1>3, <1>4

\* The requests that leave the cart alone.
LEMMA RequestLeft ==
    ASSUME Shaped, NEW w \in Workers,
           \/ AddressPost(w) \/ AddressPut(w) \/ AddressDelete(w) \/ PreviewCart(w) \/ PlaceOrder(w)
    PROVE  Left(w)
  <1>1. PICK r : /\ IsRequest(r) /\ Begin(w, r)
                 /\ r.pc \in Writing \cup {"delete", "quoteCoupon", "placeOrder"}
    <2>1. CASE AddressPost(w) \/ AddressPut(w)
      BY <2>1, PostBegins, PutBegins
    <2>2. CASE AddressDelete(w) \/ PreviewCart(w) \/ PlaceOrder(w)
      BY <2>2, DeleteBegins, PreviewBegins, PlaceBegins
    <2>3. QED
      BY <2>1, <2>2
  <1>2. QED
    BY <1>1, BegunLeft DEF Writing

LEMMA AddressStepLeft ==
    ASSUME Shaped, NEW w \in Workers,
           ClearDefaults(w) \/ ClearOthers(w) \/ SaveAddress(w) \/ DeleteAddress(w)
    PROVE  Left(w)
  <1>1. /\ overlapped' = overlapped
        /\ req[w].pc \in {"clear", "clearOthers", "insert", "save", "delete"}
    BY DEF ClearDefaults, ClearOthers, SaveAddress, DeleteAddress, counted
  <1>2. PICK pc \in {"insert", "save"} : Goto(w, pc) \/ Answer(w)
    BY DEF ClearDefaults, ClearOthers, SaveAddress, DeleteAddress
  <1>3. CASE Goto(w, pc)
    <2>1. PICK r : r = [req[w] EXCEPT !.pc = pc]
      OBVIOUS
    <2>2. IsRequest(r) /\ r.pc = pc
      BY <2>1, Advanced DEF Shaped
    <2>3. req' = [req EXCEPT ![w] = r]
      BY <1>3, <2>1, GoneTo
    <2>4. QED
      BY <1>1, <2>2, <2>3, MovedLeft
  <1>4. CASE Answer(w)
    BY <1>1, <1>4, IdleShape, MovedLeft DEF Answer
  <1>5. QED
    BY <1>2, <1>3, <1>4

LEMMA CheckoutStepLeft ==
    ASSUME Shaped, NEW w \in Workers, PreviewCoupon(w) \/ PreviewAddress(w) \/ CommitOrder(w)
    PROVE  Left(w)
  <1>1. /\ overlapped' = overlapped
        /\ req[w].pc \in {"quoteCoupon", "quoteAddress", "placeOrder"}
    BY DEF PreviewCoupon, PreviewAddress, CommitOrder, counted
  <1>2. CASE PreviewAddress(w) \/ CommitOrder(w)
    BY <1>1, <1>2, IdleShape, MovedLeft DEF PreviewAddress, CommitOrder, Answer
  <1>3. CASE PreviewCoupon(w)
    <2>1. /\ req'[w].pc = "quoteAddress" /\ \A v \in Workers \ {w} : req'[v] = req[v]
      BY <1>3 DEF PreviewCoupon, Shaped, IsRequest
    <2>2. QED
      BY <1>1, <2>1 DEF Left
  <1>4. QED
    BY <1>2, <1>3

LEMMA CartLeft ==
    ASSUME Shaped, NEW w \in Workers,
           \/ AddressPost(w) \/ AddressPut(w) \/ AddressDelete(w) \/ PreviewCart(w) \/ PlaceOrder(w)
           \/ ClearDefaults(w) \/ ClearOthers(w) \/ SaveAddress(w) \/ DeleteAddress(w)
           \/ PreviewCoupon(w) \/ PreviewAddress(w) \/ CommitOrder(w)
    PROVE  Left(w) /\ UNCHANGED <<cart, synced, listed>>
  <1>1. Left(w)
    BY RequestLeft, AddressStepLeft, CheckoutStepLeft
  <1>2. UNCHANGED <<cart, synced, listed>>
    BY DEF AddressPost, AddressPut, AddressDelete, ClearDefaults, ClearOthers, SaveAddress,
       DeleteAddress, others, PreviewCart, PlaceOrder, PreviewCoupon, PreviewAddress, CommitOrder,
       tables, catalogue
  <1>3. QED
    BY <1>1, <1>2

\* A step of w keeps the invariant if w moves by itself and no two run at a time.
LEMMA CartDone ==
    ASSUME NEW w \in Workers, \A v \in Workers \ {w} : req'[v] = req[v], Carried',
           ~overlapped' => /\ \A v \in Workers \ {w} : req[v].pc = "idle"
                           /\ req'[w].pc = "fillCart" => Filling(req[w].lines)'
                           /\ req'[w].pc # "fillCart" => cart' = synced'
    PROVE  CartInv'
  <1>1. SUFFICES ASSUME ~overlapped'
                 PROVE  /\ \A v, u \in Workers : req'[v].pc # "idle" /\ req'[u].pc # "idle" => v = u
                        /\ \A v \in Workers : req'[v].pc = "fillCart" => Filling(req[v].lines)'
                        /\ (\A v \in Workers : req'[v].pc # "fillCart") => cart' = synced'
    BY DEF CartInv
  <1>2. \A v \in Workers : v # w => req'[v].pc = "idle"
    BY <1>1
  <1>3. \A v, u \in Workers : req'[v].pc # "idle" /\ req'[u].pc # "idle" => v = u
    BY <1>2
  <1>4. ASSUME NEW v \in Workers, req'[v].pc = "fillCart" PROVE Filling(req[v].lines)'
    <2>1. v = w
      BY <1>2, <1>4
    <2>2. QED
      BY <1>1, <1>4, <2>1
  <1>5. QED
    BY <1>1, <1>3, <1>4

LEMMA LeftKeeps ==
    ASSUME CartInv, NEW w \in Workers, Left(w), UNCHANGED <<cart, synced, listed>>
    PROVE  CartInv'
  <1>1. Carried'
    BY DEF CartInv, Carried, Left
  <1>2. ASSUME ~overlapped'
        PROVE  (\A v \in Workers \ {w} : req[v].pc = "idle") /\ cart' = synced'
    <2>1. \A v \in Workers \ {w} : req[v].pc = "idle"
      BY <1>2 DEF CartInv, Left
    <2>2. \A v \in Workers : req[v].pc # "fillCart"
      BY <2>1 DEF Left
    <2>3. QED
      BY <1>2, <2>1, <2>2 DEF CartInv, Left
  <1>3. QED
    BY <1>1, <1>2, CartDone DEF Left

LEMMA CartSyncKeeps ==
    ASSUME Shaped, CartInv, NEW w \in Workers, CartSync(w)
    PROVE  CartInv'
  <1>1. PICK r : IsRequest(r) /\ Begin(w, r) /\ r.pc = "emptyCart" /\ r.lines \in Seq(Line)
    BY SyncBegins
  <1>2. /\ req[w].pc = "idle" /\ req'[w] = r /\ \A v \in Workers \ {w} : req'[v] = req[v]
        /\ ~overlapped' => ~overlapped /\ \A v \in Workers : req[v].pc = "idle"
    BY <1>1, BeginsAlone
  <1>3. UNCHANGED <<cart, synced>>
    BY DEF CartSync
  <1>4. Carried'
    BY <1>1, <1>2, <1>3 DEF CartInv, Carried
  <1>5. ~overlapped' => cart' = synced'
    BY <1>2, <1>3 DEF CartInv
  <1>6. QED
    BY <1>1, <1>2, <1>4, <1>5, CartDone

LEMMA EmptyCartFills ==
    ASSUME Shaped, CartInv, NEW w \in Workers, EmptyCart(w)
    PROVE  CartInv'
  <1>1. PICK s : s = req[w].lines
    OBVIOUS
  <1>2. /\ req[w].pc = "emptyCart" /\ s \in Seq(Line) /\ overlapped' = overlapped
        /\ cart' = [p \in Products |-> 0] /\ listed' = listed /\ synced' = Filled(s)
    BY <1>1 DEF EmptyCart, rest, catalogue, counted, CartInv, Carried
  <1>3. Filling(s)' /\ synced' \in [Products -> Int] /\ cart' \in [Products -> Nat]
    BY <1>2, AllComes
  <1>4. PICK r : /\ req' = [req EXCEPT ![w] = r]
                 /\ IF s = <<>> THEN r = Idle ELSE r = [req[w] EXCEPT !.pc = "fillCart"]
    BY <1>1 DEF EmptyCart, Answer, Goto
  <1>5. /\ IsRequest(r) /\ (s = <<>> => r.pc = "idle")
        /\ s # <<>> => r.pc = "fillCart" /\ r.lines = s
    <2>1. CASE s = <<>>
      BY <1>4, <2>1, IdleShape
    <2>2. CASE s # <<>>
      <3>1. IsRequest(req[w]) /\ r = [req[w] EXCEPT !.pc = "fillCart"]
        BY <1>4, <2>2 DEF Shaped
      <3>2. IsRequest(r) /\ r.pc = "fillCart" /\ r.lines = req[w].lines
        BY <3>1, Advanced
      <3>3. QED
        BY <1>1, <2>2, <3>2
    <2>3. QED
      BY <2>1, <2>2
  <1>6. req'[w] = r /\ \A v \in Workers \ {w} : req'[v] = req[v]
    BY <1>4, <1>5, Moved
  <1>7. Carried'
    BY <1>2, <1>3, <1>5, <1>6 DEF CartInv, Carried
  <1>8. ~overlapped' => \A v \in Workers \ {w} : req[v].pc = "idle"
    BY <1>2 DEF CartInv
  <1>9. req'[w].pc = "fillCart" => Filling(req[w].lines)'
    BY <1>3, <1>5, <1>6
  <1>10. req'[w].pc # "fillCart" => cart' = synced'
    <2>1. SUFFICES ASSUME s = <<>> PROVE cart' = synced'
      BY <1>5, <1>6
    <2>2. Filled(s) = [p \in Products |-> 0]
      BY <2>1 DEF Filled, Accepted, Goods
    <2>3. QED
      BY <1>2, <2>2
  <1>11. QED
    BY <1>6, <1>7, <1>8, <1>9, <1>10, CartDone

\* A product named again ends the request, which leaves what was to be.
LEMMA FillCartFills ==
    ASSUME Shaped, CartInv, NEW w \in Workers, FillCart(w)
    PROVE  CartInv'
  <1>1. PICK s : s = req[w].lines
    OBVIOUS
  <1>2. /\ req[w].pc = "fillCart" /\ overlapped' = overlapped /\ listed' = listed
        /\ synced' = synced
    BY DEF FillCart, rest, catalogue, counted
  <1>3. /\ s \in Seq(Line) /\ s # <<>> /\ cart \in [Products -> Nat]
        /\ synced \in [Products -> Int]
    BY <1>1, <1>2 DEF CartInv, Carried
  <1>4. s[1] \in Line /\ Head(s) = s[1] /\ 1 \in DOMAIN s /\ Len(s) \in Nat
    BY <1>3
  <1>5. PICK clash \in BOOLEAN : clash <=> Good(s[1]) /\ cart[s[1].p] > 0
    OBVIOUS
  <1>6. cart' = IF Good(s[1]) /\ ~clash THEN [cart EXCEPT ![s[1].p] = s[1].qty] ELSE cart
    BY <1>1, <1>4, <1>5 DEF FillCart
  <1>7. PICK t : t = Tail(s)
    OBVIOUS
  <1>8. PICK r : /\ req' = [req EXCEPT ![w] = r]
                 /\ IF clash \/ Len(s) = 1 THEN r = Idle ELSE r = [req[w] EXCEPT !.lines = t]
    <2>1. CASE clash \/ Len(s) = 1
      BY <1>1, <1>4, <1>5, <2>1 DEF FillCart, Answer
    <2>2. CASE ~(clash \/ Len(s) = 1)
      BY <1>1, <1>4, <1>5, <1>7, <2>2 DEF FillCart
    <2>3. QED
      BY <2>1, <2>2
  <1>9. /\ IsRequest(r) /\ (clash \/ Len(s) = 1 => r.pc = "idle")
        /\ ~(clash \/ Len(s) = 1) => r.pc = "fillCart" /\ r.lines = t
    <2>1. CASE clash \/ Len(s) = 1
      BY <1>8, <2>1, IdleShape
    <2>2. CASE ~(clash \/ Len(s) = 1)
      <3>1. IsRequest(req[w]) /\ req[w].pc = "fillCart" /\ r = [req[w] EXCEPT !.lines = t]
        BY <1>2, <1>8, <2>2 DEF Shaped
      <3>2. IsRequest(r) /\ r.pc = "fillCart"
        BY <3>1, Shortened
      <3>3. r.lines = t
        BY <3>1 DEF IsRequest
      <3>4. QED
        BY <2>2, <3>2, <3>3
    <2>3. QED
      BY <2>1, <2>2
  <1>10. req'[w] = r /\ \A v \in Workers \ {w} : req'[v] = req[v]
    BY <1>8, <1>9, Moved
  <1>11. cart' \in [Products -> Nat]
    <2>1. Good(s[1]) => s[1].qty \in Nat
      BY <1>4 DEF Good, Line
    <2>2. QED
      BY <1>3, <1>6, <2>1
  <1>12. t \in Seq(Line) /\ (Len(s) # 1 => t # <<>>) /\ (Len(s) = 1 => t = <<>>)
    <2>1. t \in Seq(Line) /\ Len(t) = Len(s) - 1
      BY <1>3, <1>7
    <2>2. Len(s) # 1 => t # <<>>
      BY <1>4, <2>1
    <2>3. Len(s) = 1 => t = <<>>
      BY <2>1
    <2>4. QED
      BY <2>1, <2>2, <2>3
  <1>13. Carried'
    BY <1>2, <1>3, <1>9, <1>10, <1>11, <1>12 DEF CartInv, Carried
  <1>14. ~overlapped' => \A v \in Workers \ {w} : req[v].pc = "idle"
    BY <1>2 DEF CartInv
  <1>15. ASSUME ~overlapped'
         PROVE  IF clash \/ Len(s) = 1 THEN cart' = synced' ELSE Filling(t)'
    <2>1. Filling(s)
      BY <1>1, <1>2, <1>15 DEF CartInv
    <2>2. CASE clash
      <3>1. 1 \in Goods(s) /\ Clashing(s, 1)
        BY <1>4, <1>5, <2>2 DEF Goods, Clashing
      <3>2. \A i \in Goods(s) : 1 <= i
        BY <1>3 DEF Goods
      <3>3. Coming(s) = {}
        BY <3>1, <3>2 DEF Coming
      <3>4. cart = synced
        BY <1>3, <2>1, <3>3, NothingComes
      <3>5. QED
        BY <1>2, <1>6, <2>2, <3>4
    <2>3. CASE ~clash
      <3>1. cart' = IF Good(s[1]) THEN [cart EXCEPT ![s[1].p] = s[1].qty] ELSE cart
        BY <1>6, <2>3
      <3>2. ~(Good(s[1]) /\ cart[s[1].p] > 0)
        BY <1>5, <2>3
      <3>3. Filling(t)'
        BY <1>2, <1>3, <1>7, <2>1, <3>1, <3>2, ComesNext
      <3>4. ASSUME Len(s) = 1 PROVE cart' = synced'
        <4>1. (Coming(t) = {})'
          BY <1>12, <3>4 DEF Coming, Goods
        <4>2. \A p \in Products : synced'[p] = cart'[p]
          BY <3>3, <4>1 DEF Filling
        <4>3. QED
          BY <1>2, <1>3, <1>11, <4>2
      <3>5. QED
        BY <2>3, <3>3, <3>4
    <2>4. QED
      BY <2>2, <2>3
  <1>16. ~overlapped' => /\ req'[w].pc = "fillCart" => Filling(req[w].lines)'
                         /\ req'[w].pc # "fillCart" => cart' = synced'
    <2>1. SUFFICES ASSUME ~overlapped'
                   PROVE  /\ req'[w].pc = "fillCart" => Filling(req[w].lines)'
                          /\ req'[w].pc # "fillCart" => cart' = synced'
      OBVIOUS
    <2>2. CASE clash \/ Len(s) = 1
      BY <1>9, <1>10, <1>15, <2>1, <2>2
    <2>3. CASE ~(clash \/ Len(s) = 1)
      BY <1>9, <1>10, <1>15, <2>1, <2>3
    <2>4. QED
      BY <2>2, <2>3
  <1>17. QED
    BY <1>10, <1>13, <1>14, <1>16, CartDone

\* A request cut short, or a change that meets one, ends the promise.
LEMMA CartAside ==
    ASSUME Shaped, CartInv, Change \/ Rest \/ UNCHANGED vars \/ \E w \in Workers : Fail(w)
    PROVE  CartInv'
  <1>1. CASE Change
    <2>1. UNCHANGED <<cart, synced, req>> /\ (~overlapped' => ~overlapped /\ Quiet)
      BY <1>1 DEF Change
    <2>2. QED
      BY <2>1 DEF CartInv, Carried, Quiet
  <1>2. CASE Rest \/ UNCHANGED vars
    <2>1. UNCHANGED <<cart, synced, req, overlapped, listed>>
      BY <1>2 DEF Rest, vars
    <2>2. QED
      BY <2>1 DEF CartInv, Carried, Filling, Coming, Goods, Good, Clashing
  <1>3. ASSUME NEW w \in Workers, Fail(w)
        PROVE  CartInv'
    <2>1. UNCHANGED <<cart, synced>> /\ overlapped' /\ req' = [req EXCEPT ![w] = Idle]
      BY <1>3 DEF Fail, Answer
    <2>2. req'[w] = Idle /\ \A v \in Workers \ {w} : req'[v] = req[v]
      BY <2>1, IdleShape, Moved
    <2>3. QED
      BY <2>1, <2>2, IdleShape DEF CartInv, Carried
  <1>4. QED
    BY <1>1, <1>2, <1>3

LEMMA CartStep ==
    ASSUME Shaped, CartInv, [Next]_vars
    PROVE  CartInv'
  <1>1. CASE Change \/ Rest \/ UNCHANGED vars \/ \E w \in Workers : Fail(w)
    BY <1>1, CartAside
  <1>2. ASSUME NEW w \in Workers, Arrive(w) \/ Step(w)
        PROVE  CartInv'
    <2>1. CASE CartSync(w) \/ EmptyCart(w) \/ FillCart(w)
      BY <2>1, CartSyncKeeps, EmptyCartFills, FillCartFills
    <2>2. CASE ~(CartSync(w) \/ EmptyCart(w) \/ FillCart(w))
      BY <1>2, <2>2, CartLeft, LeftKeeps DEF Arrive, Step
    <2>3. QED
      BY <2>1, <2>2
  <1>3. QED
    BY <1>1, <1>2 DEF Next

LEMMA CartInit ==
    ASSUME Init
    PROVE  CartInv
  <1>1. \A w \in Workers : req[w].pc = "idle"
    BY IdleShape DEF Init
  <1>2. QED
    BY <1>1 DEF Init, CartInv, Carried

\* After a synchronisation that met no other request of the customer, the cart
\* holds its payload's items, whatever the payload: unlisted products,
\* quantities that are not positive and products named twice among them.
THEOREM CartSynced == Spec => []CartAsSynced
  <1>1. Init => CartInv
    BY CartInit
  <1>2. IInv /\ CartInv /\ [Next]_vars => CartInv'
    BY CartStep DEF IInv
  <1>3. CartInv => CartAsSynced
    BY DEF CartInv, CartAsSynced, Quiet
  <1>4. QED
    BY <1>1, <1>2, <1>3, Invariance, PTL DEF Spec

-----------------------------------------------------------------------------
(* Deleted addresses                                                       *)

\* One by one, no request has a deleted address in hand that it is to write.
GoneInv ==
    ~overlapped => \A w \in Workers : req[w].pc \in Writing =>
                      req[w].id \in Ids /\ address[req[w].id] # "gone"

\* An address is given up by its own deletion only, and comes back by being saved.
LEMMA GoneDone ==
    ASSUME NEW w \in Workers, \A v \in Workers \ {w} : req'[v] = req[v],
           ~overlapped' => /\ \A v \in Workers \ {w} : req[v].pc = "idle"
                           /\ req'[w].pc \in Writing => /\ req'[w].id \in Ids
                                                        /\ address'[req'[w].id] # "gone"
    PROVE  GoneInv'
  <1>1. \A v \in Workers : v # w /\ ~overlapped' => req'[v].pc \notin Writing
    BY DEF Writing
  <1>2. QED
    BY <1>1 DEF GoneInv

\* The requests that write no address, or are yet to begin.
LEMMA GoneBegins ==
    ASSUME Shaped, GoneInv, NEW w \in Workers, Arrive(w)
    PROVE  GoneInv'
  <1>1. address' = address
    BY DEF Arrive, AddressPost, AddressPut, AddressDelete, CartSync, PreviewCart, PlaceOrder, rest, tables
  <1>2. PICK r : /\ IsRequest(r) /\ Begin(w, r)
                 /\ r.pc \in Writing => r.id \in Ids /\ address[r.id] # "gone"
    <2>1. CASE AddressPost(w) \/ AddressPut(w)
      BY <2>1, PostBegins, PutBegins
    <2>2. CASE AddressDelete(w) \/ CartSync(w) \/ PreviewCart(w) \/ PlaceOrder(w)
      <3>1. PICK r : /\ IsRequest(r) /\ Begin(w, r)
                     /\ r.pc \in {"delete", "emptyCart", "quoteCoupon", "placeOrder"}
        BY <2>2, DeleteBegins, SyncBegins, PreviewBegins, PlaceBegins
      <3>2. QED
        BY <3>1 DEF Writing
    <2>3. QED
      BY <2>1, <2>2 DEF Arrive
  <1>3. /\ req'[w] = r /\ \A v \in Workers \ {w} : req'[v] = req[v]
        /\ ~overlapped' => \A v \in Workers : req[v].pc = "idle"
    BY <1>2, BeginsAlone
  <1>4. QED
    BY <1>1, <1>2, <1>3, GoneDone

LEMMA GoneGoesOn ==
    ASSUME Shaped, CartInv, GoneInv, NEW w \in Workers, Step(w)
    PROVE  GoneInv'
  <1>1. overlapped' = overlapped /\ req[w].pc # "idle"
    BY DEF Step, ClearDefaults, ClearOthers, SaveAddress, DeleteAddress, EmptyCart, FillCart,
       PreviewCoupon, PreviewAddress, CommitOrder, counted
  <1>2. ~overlapped' => \A v \in Workers \ {w} : req[v].pc = "idle"
    BY <1>1 DEF CartInv
  <1>3. CASE ClearDefaults(w) \/ ClearOthers(w)
    <2>1. PICK pc : Goto(w, pc)
      BY <1>3 DEF ClearDefaults, ClearOthers
    <2>2. PICK r : r = [req[w] EXCEPT !.pc = pc]
      OBVIOUS
    <2>3. IsRequest(r) /\ r.id = req[w].id
      BY <2>2, Advanced DEF Shaped
    <2>4. req'[w] = r /\ \A v \in Workers \ {w} : req'[v] = req[v]
      BY <2>1, <2>2, <2>3, GoneTo, Moved
    <2>5. req[w].pc \in Writing
      BY <1>3 DEF ClearDefaults, ClearOthers, Writing
    <2>6. \A a \in Ids : address[a] # "gone" => address'[a] # "gone"
      BY <1>3 DEF ClearDefaults, ClearOthers
    <2>7. QED
      BY <1>1, <1>2, <2>3, <2>4, <2>5, <2>6, GoneDone DEF GoneInv
  <1>4. CASE EmptyCart(w) \/ FillCart(w)
    <2>1. PICK r : /\ req' = [req EXCEPT ![w] = r] /\ IsRequest(r) /\ r.pc \in {"idle", "fillCart"}
      <3>1. CASE Answer(w)
        BY <3>1, IdleShape DEF Answer
      <3>2. CASE Goto(w, "fillCart")
        <4>1. PICK r : r = [req[w] EXCEPT !.pc = "fillCart"]
          OBVIOUS
        <4>2. IsRequest(r) /\ r.pc = "fillCart"
          BY <4>1, Advanced DEF Shaped
        <4>3. QED
          BY <3>2, <4>1, <4>2, GoneTo
      <3>3. CASE FillCart(w) /\ req' = [req EXCEPT ![w].lines = Tail(@)]
        <4>1. PICK r : r = [req[w] EXCEPT !.lines = Tail(req[w].lines)]
          OBVIOUS
        <4>2. IsRequest(r) /\ r.pc = "fillCart"
          BY <3>3, <4>1, Shortened DEF Shaped, FillCart
        <4>3. QED
          BY <3>3, <4>1, <4>2
      <3>4. QED
        BY <1>4, <3>1, <3>2, <3>3 DEF EmptyCart, FillCart
    <2>2. req'[w] = r /\ \A v \in Workers \ {w} : req'[v] = req[v]
      BY <2>1, Moved
    <2>3. QED
      BY <1>2, <2>1, <2>2, GoneDone DEF Writing
  <1>5. CASE PreviewCoupon(w)
    <2>1. req'[w].pc = "quoteAddress" /\ \A v \in Workers \ {w} : req'[v] = req[v]
      BY <1>5 DEF PreviewCoupon, Shaped, IsRequest
    <2>2. QED
      BY <1>2, <2>1, GoneDone DEF Writing
  <1>6. CASE SaveAddress(w) \/ DeleteAddress(w) \/ PreviewAddress(w) \/ CommitOrder(w)
    <2>1. req' = [req EXCEPT ![w] = Idle]
      BY <1>6 DEF SaveAddress, DeleteAddress, PreviewAddress, CommitOrder, Answer
    <2>2. req'[w] = Idle /\ \A v \in Workers \ {w} : req'[v] = req[v]
      BY <2>1, IdleShape, Moved
    <2>3. QED
      BY <1>2, <2>2, IdleShape, GoneDone DEF Writing
  <1>7. QED
    BY <1>3, <1>4, <1>5, <1>6 DEF Step

LEMMA GoneStep ==
    ASSUME Shaped, CartInv, GoneInv, [Next]_vars
    PROVE  GoneInv'
  <1>1. CASE Change
    <2>1. UNCHANGED <<address, req>> /\ (~overlapped' => ~overlapped)
      BY <1>1 DEF Change
    <2>2. QED
      BY <2>1 DEF GoneInv
  <1>2. CASE Rest \/ UNCHANGED vars
    BY <1>2 DEF Rest, vars, GoneInv
  <1>3. ASSUME NEW w \in Workers, Fail(w)
        PROVE  GoneInv'
    BY <1>3 DEF Fail, GoneInv
  <1>4. QED
    BY <1>1, <1>2, <1>3, GoneBegins, GoneGoesOn DEF Next

\* Only a save could bring a deleted address back.
LEMMA GoneStays ==
    ASSUME Shaped, GoneInv, [Next]_vars, ~overlapped, NEW a \in Ids, address[a] = "gone"
    PROVE  address'[a] = "gone"
  <1>1. DOMAIN address = Ids
    BY DEF Shaped
  <1>2. CASE UNCHANGED address
    BY <1>2
  <1>3. ASSUME NEW w \in Workers, ClearDefaults(w) \/ ClearOthers(w)
        PROVE  address'[a] = "gone"
    BY <1>3 DEF ClearDefaults, ClearOthers, Default
  <1>4. ASSUME NEW w \in Workers, SaveAddress(w)
        PROVE  address'[a] = "gone"
    BY <1>1, <1>4 DEF SaveAddress, GoneInv, Writing
  <1>5. ASSUME NEW w \in Workers, DeleteAddress(w)
        PROVE  address'[a] = "gone"
    BY <1>1, <1>5 DEF DeleteAddress
  <1>6. UNCHANGED address \/ \E w \in Workers : \/ ClearDefaults(w) \/ ClearOthers(w)
                                                \/ SaveAddress(w) \/ DeleteAddress(w)
    <2>1. CASE Change \/ Rest \/ UNCHANGED vars
      BY <2>1 DEF Change, Rest, vars
    <2>2. ASSUME NEW w \in Workers, Arrive(w) \/ Fail(w)
          PROVE  UNCHANGED address
      BY <2>2 DEF Arrive, Fail, AddressPost, AddressPut, AddressDelete, CartSync, PreviewCart,
         PlaceOrder, rest, tables
    <2>3. ASSUME NEW w \in Workers, Step(w)
          PROVE  UNCHANGED address \/ \/ ClearDefaults(w) \/ ClearOthers(w)
                                      \/ SaveAddress(w) \/ DeleteAddress(w)
      BY <2>3 DEF Step, EmptyCart, FillCart, PreviewCoupon, PreviewAddress, CommitOrder, rest, tables
    <2>4. QED
      BY <2>1, <2>2, <2>3 DEF Next
  <1>7. QED
    BY <1>2, <1>3, <1>4, <1>5, <1>6

\* As long as a customer's requests come one by one, a deleted address is never
\* brought back by save() (AddressDetailView reads it first).
THEOREM AddressesStayGone == Spec => AddressStaysGone
  <1>1. Init => CartInv /\ GoneInv
    BY CartInit, IdleShape DEF Init, GoneInv, Writing
  <1>2. IInv /\ CartInv /\ GoneInv /\ [Next]_vars => CartInv' /\ GoneInv'
    BY CartStep, GoneStep DEF IInv
  <1>3. IInv /\ GoneInv /\ [Next]_vars =>
           [~overlapped => \A a \in Ids : address[a] = "gone" => address'[a] = "gone"]_vars
    BY GoneStays DEF IInv
  <1>4. QED
    BY <1>1, <1>2, <1>3, Invariance, PTL DEF Spec, AddressStaysGone

-----------------------------------------------------------------------------
(* The bill                                                                *)

\* What is paid for goods is a whole number of paise.
LEMMA SubtotalIs ==
    ASSUME NEW lines \in [Products -> Nat], NEW prices \in [Products -> Nat]
    PROVE  SubtotalOf(lines, prices) \in Nat
  <1> DEFINE It(g) == g = [s \in SUBSET Products |->
                             IF s = {} THEN 0
                             ELSE lines[One(s)] * prices[One(s)] + g[s \ {One(s)}]]
  <1>1. PICK f : f = [p \in Products |-> lines[p] * prices[p]]
    OBVIOUS
  <1>2. IsFiniteSet(Products)
    BY CustomerAssumption
  <1>3. \A s \in SUBSET Products : s # {} => f[One(s)] = lines[One(s)] * prices[One(s)]
    <2>1. \A s \in SUBSET Products : s # {} => One(s) \in Products
      BY <1>2, OneLess
    <2>2. QED
      BY <1>1, <2>1
  <1>4. SubtotalOf(lines, prices) = (CHOOSE g : It(g))[Products]
    BY DEF SubtotalOf, MapThenSumSet, MapThenFoldSet, One
  <1>5. \A g : It(g) <=> Sums(g, f, Products)
    BY <1>3 DEF Sums, Sum
  <1>6. \E g : It(g)
    BY <1>2, <1>5, SumsExist
  <1> HIDE DEF It
  <1>7. PICK g : g = CHOOSE h : It(h)
    OBVIOUS
  <1>8. It(g)
    BY <1>6, <1>7
  <1>9. \A p \in Products : f[p] \in Nat
    BY <1>1
  <1>10. PICK V : V = Nat /\ 0 \in V
    OBVIOUS
  <1>11. \A s \in SUBSET Products : g[s] \in V
    <2>1. \A x, y \in Nat : x + y \in Nat
      OBVIOUS
    <2>2. QED
      BY <1>2, <1>5, <1>8, <1>9, <1>10, <2>1, SumsIn
  <1>12. QED
    BY <1>4, <1>7, <1>10, <1>11

\* A coupon takes nothing away from the fee if it is not worth more than its
\* minimum order, or than the whole of it.
LEMMA DiscountIs ==
    ASSUME NEW c \in Coupon, NEW s \in Nat
    PROVE  /\ Discount(c, s) \in Nat
           /\ c.value <= (IF c.type = "fixed" THEN c.min ELSE 100) /\ s >= c.min
                => Discount(c, s) <= s * Unit
  <1>1. /\ c.value \in Nat /\ c.max \in Nat /\ c.min \in Nat /\ c.type \in {"percent", "fixed"}
    BY DEF Coupon
  <1>2. CASE c.type = "fixed"
    BY <1>1, <1>2 DEF Discount, Unit
  <1>3. CASE c.type = "percent"
    <2> DEFINE part == s * c.value * 100
    <2>1. PICK v \in Nat : v = s * c.value
      BY <1>1
    <2>2. part \in Nat /\ c.max * Unit \in Nat
      BY <1>1, <2>1 DEF Unit
    <2>3. Discount(c, s) \in Nat /\ Discount(c, s) <= part
      BY <1>1, <1>3, <2>2 DEF Discount, Least
    <2>4. c.value <= 100 => v <= s * 100
      BY <1>1, <2>1
    <2>5. c.value <= 100 => part <= s * Unit
      BY <2>1, <2>4 DEF Unit
    <2> HIDE DEF part
    <2>6. QED
      BY <1>3, <2>2, <2>3, <2>5 DEF Unit
  <1>4. QED
    BY <1>1, <1>2, <1>3

\* An order whose discount is no more than its goods costs its delivery at least.
LEMMA FeeIsPaid ==
    ASSUME NEW s \in Nat, NEW d \in Nat, d <= s * Unit, NEW o \in Stored(s, d)
    PROVE  o.total >= Fee
  <1>1. Fee \in Nat /\ TaxPercent \in Nat
    BY CustomerAssumption, TaxAssumption
  <1>2. PICK t : t = Taxes(s, d)
    OBVIOUS
  <1>3. t \in Nat
    <2>1. Taxable(s, d) \in Nat
      <3>1. s * 10000 - d \in Nat
        BY DEF Unit
      <3>2. QED
        BY <3>1 DEF Taxable, Unit
    <2>2. PICK y \in Nat : y = Taxable(s, d) * TaxPercent
      BY <1>1, <2>1
    <2>3. y \div 100 \in Nat
      OBVIOUS
    <2>4. QED
      BY <1>2, <2>2, <2>3 DEF Taxes
  <1>4. PICK x \in Nat : x = Total(s, d, Fee, t) /\ x >= Fee * 10000
    BY <1>1, <1>3 DEF Total, Taxable, Unit
  <1>5. PICK n \in Nearest(x) : o.total = n
    BY <1>2, <1>4 DEF Stored
  <1>6. x \in Int /\ n \in Int /\ IsRounded(n, x)
    BY <1>4 DEF Nearest, Unit
  <1>7. -10000 <= 20000 * n - 2 * x
    BY <1>6 DEF IsRounded, Unit
  <1>8. QED
    BY <1>1, <1>4, <1>5, <1>6, <1>7

\* What an order is reckoned from.
Reckoning == {"quoteCoupon", "quoteAddress", "placeOrder"}
Lines(q)  == q.lines \in [Products -> Nat]
Priced ==
    /\ coupon \in Coupon /\ price \in Prices
    /\ \A w \in Workers : req[w].pc \in Reckoning => Lines(req[w].draft)
    /\ quote # None => Lines(quote)

\* Committed, an order is stored as the coupon and the prices of the moment have it.
LEMMA CommitAddsUp ==
    ASSUME Priced, BillAddsUp, NEW w \in Workers, CommitOrder(w)
    PROVE  BillAddsUp'
  <1>1. PICK q : q = req[w].draft
    OBVIOUS
  <1>2. PICK s : s = SubtotalOf(q.lines, price)
    OBVIOUS
  <1>3. PICK d : d = DiscountOf(req[w].code, s)
    OBVIOUS
  <1>4. CASE bill' = bill
    BY <1>4 DEF BillAddsUp
  <1>5. CASE bill' # bill
    <2>1. PICK o \in Stored(s, d) :
             bill' = [quote |-> q, prices |-> price, coupon |-> coupon, order |-> o]
      BY <1>1, <1>2, <1>3, <1>5 DEF CommitOrder
    <2>2. bill'.order = o /\ bill'.coupon = coupon
      BY <2>1
    <2>3. req[w].code => Valid(coupon, s)
      BY <1>1, <1>2, <1>5 DEF CommitOrder
    <2>4. s \in Nat
      <3>1. q.lines \in [Products -> Nat] /\ price \in [Products -> Nat]
        BY <1>1, CustomerAssumption DEF Priced, Lines, Reckoning, CommitOrder
      <3>2. QED
        BY <1>2, <3>1, SubtotalIs
    <2>5. d \in Nat /\ (coupon.value <= (IF coupon.type = "fixed" THEN coupon.min ELSE 100)
                          => d <= s * Unit)
      <3>1. CASE req[w].code
        <4>1. d = Discount(coupon, s) /\ s >= coupon.min
          BY <1>3, <2>3, <3>1 DEF DiscountOf, Valid
        <4>2. QED
          BY <2>4, <4>1, DiscountIs DEF Priced
      <3>2. CASE ~req[w].code
        BY <1>3, <2>4, <3>2 DEF DiscountOf, Unit
      <3>3. QED
        BY <3>1, <3>2
    <2>6. Apart(o.total, o.subtotal - o.discount + Fee + o.taxes, 1)
      BY <2>4, <2>5, PartsAddUp
    <2>7. coupon.value <= (IF coupon.type = "fixed" THEN coupon.min ELSE 100) => o.total >= Fee
      BY <2>4, <2>5, FeeIsPaid
    <2>8. QED
      BY <2>2, <2>6, <2>7 DEF BillAddsUp
  <1>6. QED
    BY <1>4, <1>5

\* A step of one request, told by what it moves on to.
LEMMA PricedDone ==
    ASSUME Priced, NEW w \in Workers, \A v \in Workers \ {w} : req'[v] = req[v],
           req'[w].pc \in Reckoning => Lines(req'[w].draft),
           UNCHANGED <<coupon, price>>, quote' = quote \/ Lines(quote')
    PROVE  Priced'
  BY DEF Priced, Lines

LEMMA PricedArrives ==
    ASSUME Shaped, CartInv, Priced, NEW w \in Workers, Arrive(w)
    PROVE  Priced'
  <1>1. UNCHANGED <<coupon, price, quote>>
    BY DEF Arrive, AddressPost, AddressPut, AddressDelete, others, CartSync, rest, PreviewCart,
       PlaceOrder, tables, catalogue, checkout
  <1>2. PICK r : /\ IsRequest(r) /\ Begin(w, r)
                 /\ r.pc \in Reckoning => Lines(r.draft)
    <2>1. CASE AddressPost(w) \/ AddressPut(w)
      BY <2>1, PostBegins, PutBegins DEF Writing, Reckoning
    <2>2. CASE AddressDelete(w) \/ CartSync(w)
      BY <2>2, DeleteBegins, SyncBegins DEF Reckoning
    <2>3. CASE PreviewCart(w)
      BY <2>3, PreviewBegins DEF CartInv, Carried, Lines
    <2>4. CASE PlaceOrder(w)
      <3>1. Lines(quote)
        BY <2>4 DEF PlaceOrder, Priced
      <3>2. QED
        BY <2>4, <3>1, PlaceBegins
    <2>5. QED
      BY <2>1, <2>2, <2>3, <2>4 DEF Arrive
  <1>3. req'[w] = r /\ \A v \in Workers \ {w} : req'[v] = req[v]
    BY <1>2, BeginsAlone
  <1>4. QED
    BY <1>1, <1>2, <1>3, PricedDone

LEMMA PricedGoesOn ==
    ASSUME Shaped, Priced, NEW w \in Workers, Step(w) \/ Fail(w)
    PROVE  Priced'
  <1>1. UNCHANGED <<coupon, price>>
    BY DEF Step, ClearDefaults, ClearOthers, SaveAddress, DeleteAddress, others, EmptyCart, FillCart,
       rest, PreviewCoupon, PreviewAddress, CommitOrder, tables, catalogue, Fail
  <1>2. IsRequest(req[w])
    BY DEF Shaped
  <1>3. CASE ClearDefaults(w) \/ ClearOthers(w) \/ (EmptyCart(w) /\ ~Answer(w))
    <2>1. PICK pc \in {"insert", "save", "fillCart"} : Goto(w, pc)
      BY <1>3 DEF ClearDefaults, ClearOthers, EmptyCart
    <2>2. PICK r : r = [req[w] EXCEPT !.pc = pc]
      OBVIOUS
    <2>3. IsRequest(r) /\ r.pc = pc
      BY <1>2, <2>2, Advanced
    <2>4. req'[w] = r /\ \A v \in Workers \ {w} : req'[v] = req[v]
      BY <2>1, <2>2, <2>3, GoneTo, Moved
    <2>5. quote' = quote
      BY <1>3 DEF ClearDefaults, ClearOthers, others, EmptyCart, rest, checkout
    <2>6. QED
      BY <1>1, <2>3, <2>4, <2>5, PricedDone DEF Reckoning
  <1>4. CASE FillCart(w) /\ ~Answer(w)
    <2>1. PICK r : r = [req[w] EXCEPT !.lines = Tail(@)]
      OBVIOUS
    <2>2. IsRequest(r) /\ r.pc = "fillCart"
      BY <1>2, <1>4, <2>1, Shortened DEF FillCart
    <2>3. req' = [req EXCEPT ![w] = r]
      BY <1>4, <2>1 DEF FillCart
    <2>4. req'[w] = r /\ \A v \in Workers \ {w} : req'[v] = req[v]
      BY <2>2, <2>3, Moved
    <2>5. quote' = quote
      BY <1>4 DEF FillCart, rest, checkout
    <2>6. QED
      BY <1>1, <2>2, <2>4, <2>5, PricedDone DEF Reckoning
  <1>5. CASE PreviewCoupon(w)
    <2>1. req'[w].draft.lines = req[w].draft.lines /\ \A v \in Workers \ {w} : req'[v] = req[v]
      BY <1>2, <1>5 DEF PreviewCoupon, Shaped, IsRequest
    <2>2. Lines(req[w].draft) /\ quote' = quote
      BY <1>5 DEF PreviewCoupon, checkout, Priced, Reckoning
    <2>3. QED
      BY <1>1, <2>1, <2>2, PricedDone DEF Lines
  <1>6. CASE Answer(w)
    <2>1. req'[w] = Idle /\ \A v \in Workers \ {w} : req'[v] = req[v]
      BY <1>6, IdleShape, Moved DEF Answer
    <2>2. quote' = quote \/ Lines(quote')
      <3>1. CASE PreviewAddress(w)
        <4>1. quote'.lines = req[w].draft.lines
          BY <3>1 DEF PreviewAddress
        <4>2. Lines(req[w].draft)
          BY <3>1 DEF PreviewAddress, Priced, Reckoning
        <4>3. QED
          BY <4>1, <4>2 DEF Lines
      <3>2. CASE ~PreviewAddress(w)
        BY <3>2 DEF Step, ClearDefaults, ClearOthers, SaveAddress, DeleteAddress, others, EmptyCart,
           FillCart, rest, PreviewCoupon, CommitOrder, checkout, Fail
      <3>3. QED
        BY <3>1, <3>2
    <2>3. QED
      BY <1>1, <2>1, <2>2, IdleShape, PricedDone DEF Reckoning
  <1>7. QED
    BY <1>3, <1>4, <1>5, <1>6 DEF Step, SaveAddress, DeleteAddress, PreviewAddress, CommitOrder, Fail

LEMMA BillStep ==
    ASSUME Shaped, CartInv, Priced, BillAddsUp, [Next]_vars
    PROVE  Priced' /\ BillAddsUp'
  <1>1. CASE Change
    <2>1. coupon' \in Coupon /\ price' \in Prices
      BY <1>1 DEF Change, Priced, Coupon
    <2>2. UNCHANGED <<req, quote, bill>>
      BY <1>1 DEF Change, checkout
    <2>3. QED
      BY <2>1, <2>2 DEF Priced, Lines, BillAddsUp
  <1>2. CASE Rest \/ UNCHANGED vars
    BY <1>2 DEF Rest, vars, Priced, Lines, BillAddsUp
  <1>3. ASSUME NEW w \in Workers, Arrive(w) \/ Step(w) \/ Fail(w)
        PROVE  Priced' /\ BillAddsUp'
    <2>1. Priced'
      BY <1>3, PricedArrives, PricedGoesOn
    <2>2. CASE CommitOrder(w)
      BY <2>1, <2>2, CommitAddsUp
    <2>3. CASE ~CommitOrder(w)
      <3>1. bill' = bill
        BY <1>3, <2>3 DEF Arrive, AddressPost, AddressPut, AddressDelete, CartSync, PreviewCart,
           PlaceOrder, Step, ClearDefaults, ClearOthers, SaveAddress, DeleteAddress, others, EmptyCart,
           FillCart, rest, PreviewCoupon, PreviewAddress, tables, checkout, Fail
      <3>2. QED
        BY <2>1, <3>1 DEF BillAddsUp
    <2>4. QED
      BY <2>2, <2>3
  <1>4. QED
    BY <1>1, <1>2, <1>3 DEF Next

\* What create_order stores adds up but for a paisa, at whatever prices, quantities,
\* coupon and rate of tax; and no coupon that is not worth more than its minimum
\* order, or than the whole of it, takes anything off the delivery fee.
THEOREM StoredBillAddsUp == Spec => []BillAddsUp
  <1>1. Init => Priced /\ BillAddsUp
    <2>1. Init => \A w \in Workers : req[w].pc = "idle"
      BY IdleShape DEF Init
    <2>2. QED
      BY <2>1, CustomerAssumption DEF Init, Priced, Reckoning, BillAddsUp
  <1>2. Init => CartInv
    BY CartInit
  <1>3. IInv /\ CartInv /\ Priced /\ BillAddsUp /\ [Next]_vars => (CartInv /\ Priced /\ BillAddsUp)'
    <2>1. SUFFICES ASSUME IInv, CartInv, Priced, BillAddsUp, [Next]_vars
                   PROVE  CartInv' /\ Priced' /\ BillAddsUp'
      OBVIOUS
    <2>2. Shaped
      BY <2>1 DEF IInv
    <2>3. QED
      BY <2>1, <2>2, CartStep, BillStep
  <1>4. QED
    BY <1>1, <1>2, <1>3, Invariance, PTL DEF Spec
=============================================================================
