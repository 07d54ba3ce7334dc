----------------------------- MODULE NotifyProofs -----------------------------
(***************************************************************************)
(* That nobody is told what has not happened, that nobody is forgotten,    *)
(* and that a subscriber's screen follows the tables, for every set of     *)
(* partners, devices and requests at a time.                               *)
(***************************************************************************)
EXTENDS Notify, FiniteSetTheorems, TLAPS

-----------------------------------------------------------------------------
(* The inductive invariant                                                 *)

\* Where a request has not yet told u of its status: buyer, seller and partner
\* are told in this order.
StillToTell(u) == {"emit", "tellBuyer"}
                    \cup (IF u = "buyer" THEN {} ELSE {"tellSeller"})
                    \cup (IF u \in {"buyer", "seller"} THEN {} ELSE {"tellPartner"})
Telling == {"emit", "tellBuyer", "tellSeller", "tellPartner"}

Owing(u, s) == {w \in Workers : req[w].pc \in StillToTell(u) /\ req[w].to = s}

\* An entry of the log pays for one notification of each user, whether it has
\* been sent or its request still has to send it.
Counted == \A u \in Users, s \in OrderStatus : inbox[u][s] + Cardinality(Owing(u, s)) <= logged[s]

\* What is logged and emitted, the order has been.
Had == /\ PENDING \in reached /\ announced \subseteq reached
       /\ \A w \in Workers : req[w].pc \in {"log", "emit"} => req[w].to \in reached

\* An order that others cannot see is new, and nobody but its own request,
\* while it lasts, deals with it.
Placing == {"idle", "emit", "tellBuyer", "tellSeller", "commit"}
Unseen ==
    /\ placed # "yes" =>
          /\ partner = None /\ reached = {PENDING} /\ announced \subseteq {PENDING}
          /\ pushed \subseteq {"buyer", "seller"} \X {PENDING}
          /\ \A w \in Workers : req[w].pc \in Placing /\ req[w].to = PENDING
          /\ \A v, w \in Workers : req[v].pc # "idle" /\ req[w].pc # "idle" => v = w
    /\ placed \in {"no", "undone"} =>
          inbox = Empty /\ \A w \in Workers : req[w].pc = "idle"
    /\ \A w \in Workers : /\ req[w].kind = "place" <=> placed = "inside" /\ req[w].pc # "idle"
                          /\ req[w].pc = "commit" => req[w].kind = "place"

\* Every push has its notification, as long as the order stands.
Pushed == placed # "undone" => \A push \in pushed : inbox[push[1]][push[2]] > 0

\* An assignment is announced to a partner.
Named == \A w \in Workers : req[w].pc = "tellAssigned" => req[w].known # None

IInv == TypeOK /\ Named /\ Counted /\ Had /\ Unseen /\ Pushed

-----------------------------------------------------------------------------
(* Types                                                                   *)

LEMMA StatusFacts ==
    /\ \A s \in {PENDING, READY_FOR_PICKUP, OUT_FOR_DELIVERY, DELIVERED, CANCELLED} : s \in OrderStatus
    /\ PENDING # READY_FOR_PICKUP /\ "assigned" \notin OrderStatus
  BY DEF OrderStatus, PENDING, CONFIRMED, PREPARING, READY_FOR_PICKUP, OUT_FOR_DELIVERY, DELIVERED,
         CANCELLED

LEMMA UserFacts ==
    /\ "buyer" \in Users /\ "seller" \in Users /\ \A d \in Partners : d \in Users /\ d \notin {"buyer", "seller"}
    /\ OrderStatus \subseteq Topics /\ "assigned" \in Topics
  BY NotifyAssumption DEF Users, Topics

LEMMA IdleType == Idle \in Request /\ Idle.pc = "idle" /\ Idle.to = PENDING /\ Idle.kind = None
  BY StatusFacts DEF Idle, Request, PCs

\* What a request becomes as it goes on, or ends.
LEMMA GotoType ==
    ASSUME TypeOK, NEW w \in Workers, NEW pc \in PCs, Goto(w, pc)
    PROVE  /\ req' \in [Workers -> Request] /\ req'[w].pc = pc
           /\ \A v \in Workers : v # w => req'[v] = req[v]
           /\ pc = "idle" => req'[w] = Idle
           /\ pc # "idle" => /\ req'[w].kind = req[w].kind /\ req'[w].to = req[w].to
                             /\ req'[w].known = req[w].known /\ req'[w].at = req[w].at
  <1>1. CASE pc = "idle"
    BY <1>1, IdleType DEF Goto, TypeOK
  <1>2. CASE pc # "idle"
    <2>1. PICK r : r = [req[w] EXCEPT !.pc = pc]
      OBVIOUS
    <2>2. r \in Request /\ r.pc = pc /\ r.kind = req[w].kind /\ r.to = req[w].to
             /\ r.known = req[w].known /\ r.at = req[w].at
      BY <2>1 DEF TypeOK, Request
    <2>3. req' = [req EXCEPT ![w] = r]
      BY <1>2, <2>1 DEF Goto
    <2>4. QED
      BY <1>2, <2>2, <2>3 DEF TypeOK
  <1>3. QED
    BY <1>1, <1>2

LEMMA BeginType ==
    ASSUME TypeOK, NEW w \in Workers, NEW r \in Request, Begin(w, r)
    PROVE  /\ req' \in [Workers -> Request] /\ req'[w] = r /\ req[w].pc = "idle"
           /\ \A v \in Workers : v # w => req'[v] = req[v]
           /\ met' \subseteq {"order", "assignment"}
  <1>1. \A q \in Request : Writes(q) \subseteq {"order", "assignment"}
    BY DEF Writes
  <1>2. QED
    BY <1>1 DEF Begin, TypeOK

LEMMA SendType ==
    ASSUME TypeOK, NEW u \in Users, NEW t \in Topics, Send(u, t)
    PROVE  /\ inbox' \in [Users -> [Topics -> Nat]] /\ pushed' \subseteq Devices \X Topics
           /\ inbox'[u][t] = inbox[u][t] + 1
           /\ \A v \in Users, x \in Topics : v # u \/ x # t => inbox'[v][x] = inbox[v][x]
           /\ pushed' \subseteq pushed \cup {<<u, t>>}
  BY DEF TypeOK, Send, Push

LEMMA ArriveType ==
    ASSUME TypeOK, NEW w \in Workers, Arrive(w)
    PROVE  TypeOK'
  <1>1. CASE PlaceOrder(w)
    <2>1. PICK r : r = [Idle EXCEPT !.pc = "emit", !.kind = "place"]
      OBVIOUS
    <2>2. r \in Request
      BY <2>1, StatusFacts DEF Idle, Request, PCs, Kinds
    <2>3. Begin(w, r)
      BY <1>1, <2>1 DEF PlaceOrder
    <2>4. req' \in [Workers -> Request] /\ met' \subseteq {"order", "assignment"}
      BY <2>2, <2>3, BeginType
    <2>5. QED
      BY <1>1, <2>4, StatusFacts DEF PlaceOrder, TypeOK, told
  <1>2. CASE MoveOrder(w)
    <2>1. PICK to \in OrderStatus : Begin(w, [Idle EXCEPT !.pc = "save", !.kind = "move", !.to = to])
      BY <1>2 DEF MoveOrder
    <2>2. [Idle EXCEPT !.pc = "save", !.kind = "move", !.to = to] \in Request
      BY DEF Idle, Request, PCs, Kinds
    <2>3. req' \in [Workers -> Request] /\ met' \subseteq {"order", "assignment"}
      BY <2>1, <2>2, BeginType
    <2>4. QED
      BY <1>2, <2>3 DEF MoveOrder, TypeOK, told, table
  <1>3. CASE Confirm(w)
    <2>1. PICK to \in Confirming :
             Begin(w, [Idle EXCEPT !.pc = "saveAssignment", !.kind = "move", !.to = to, !.at = position])
      BY <1>3 DEF Confirm
    <2>2. [Idle EXCEPT !.pc = "saveAssignment", !.kind = "move", !.to = to, !.at = position] \in Request
      BY StatusFacts DEF Idle, Request, PCs, Kinds, TypeOK, Confirming
    <2>3. req' \in [Workers -> Request] /\ met' \subseteq {"order", "assignment"}
      BY <2>1, <2>2, BeginType
    <2>4. QED
      BY <1>3, <2>3 DEF Confirm, TypeOK, told, table
  <1>4. CASE AcceptBid(w)
    <2>1. [Idle EXCEPT !.pc = "assign", !.kind = "accept"] \in Request
      BY StatusFacts DEF Idle, Request, PCs, Kinds
    <2>2. Begin(w, [Idle EXCEPT !.pc = "assign", !.kind = "accept"])
      BY <1>4 DEF AcceptBid
    <2>3. req' \in [Workers -> Request] /\ met' \subseteq {"order", "assignment"}
      BY <2>1, <2>2, BeginType
    <2>4. QED
      BY <1>4, <2>3 DEF AcceptBid, TypeOK, told, table
  <1>5. CASE ReportPosition(w)
    <2>1. PICK x \in Positions : Begin(w, [Idle EXCEPT !.pc = "savePosition", !.kind = "report", !.at = x])
      BY <1>5 DEF ReportPosition
    <2>2. [Idle EXCEPT !.pc = "savePosition", !.kind = "report", !.at = x] \in Request
      BY StatusFacts DEF Idle, Request, PCs, Kinds
    <2>3. req' \in [Workers -> Request] /\ met' \subseteq {"order", "assignment"}
      BY <2>1, <2>2, BeginType
    <2>4. QED
      BY <1>5, <2>3 DEF ReportPosition, TypeOK, told, table
  <1>6. QED
    BY <1>1, <1>2, <1>3, <1>4, <1>5 DEF Arrive

LEMMA TellType ==
    ASSUME TypeOK, Named, NEW w \in Workers, TellBuyer(w) \/ TellSeller(w) \/ TellPartner(w) \/ TellAssigned(w)
    PROVE  TypeOK'
  <1> USE DEF TypeOK, table, past
  <1>1. req[w].to \in OrderStatus /\ req[w].known \in Partners \cup {None}
    BY DEF Request
  <1>2. CASE TellBuyer(w)
    <2>1. req' \in [Workers -> Request]
      <3>1. PICK pc \in {"tellSeller", "tellPartner", "idle"} : Goto(w, pc)
        BY <1>2 DEF TellBuyer
      <3>2. QED
        BY <3>1, GotoType DEF PCs
    <2>2. Send("buyer", req[w].to)
      BY <1>2 DEF TellBuyer
    <2>3. inbox' \in [Users -> [Topics -> Nat]] /\ pushed' \subseteq Devices \X Topics
      BY <2>2, <1>1, UserFacts, SendType
    <2>4. QED
      BY <1>2, <2>1, <2>3 DEF TellBuyer
  <1>3. CASE TellSeller(w)
    <2>1. req' \in [Workers -> Request]
      <3>1. PICK pc \in {"commit", "tellPartner", "idle"} : Goto(w, pc)
        BY <1>3 DEF TellSeller
      <3>2. QED
        BY <3>1, GotoType DEF PCs
    <2>2. Send("seller", req[w].to)
      BY <1>3 DEF TellSeller
    <2>3. inbox' \in [Users -> [Topics -> Nat]] /\ pushed' \subseteq Devices \X Topics
      BY <2>2, <1>1, UserFacts, SendType
    <2>4. QED
      BY <1>3, <2>1, <2>3 DEF TellSeller
  <1>4. CASE TellPartner(w)
    <2>1. req' \in [Workers -> Request]
      <3>1. [req[w] EXCEPT !.pc = "assign", !.known = partner] \in Request
        BY DEF Request, PCs
      <3>2. QED
        BY <1>4, <3>1, IdleType DEF TellPartner
    <2>2. CASE partner = None
      BY <1>4, <2>1, <2>2 DEF TellPartner
    <2>3. CASE partner # None
      <3>1. Send(partner, req[w].to) /\ partner \in Users
        BY <1>4, <2>3, UserFacts DEF TellPartner
      <3>2. inbox' \in [Users -> [Topics -> Nat]] /\ pushed' \subseteq Devices \X Topics
        BY <3>1, <1>1, UserFacts, SendType
      <3>3. QED
        BY <1>4, <2>1, <3>2 DEF TellPartner
    <2>4. QED
      BY <2>2, <2>3
  <1>5. CASE TellAssigned(w)
    <2>1. req' \in [Workers -> Request]
      BY <1>5, GotoType DEF TellAssigned, PCs
    <2>2. req[w].known \in Partners
      BY <1>5, <1>1 DEF TellAssigned, Named
    <2>3. Send(req[w].known, "assigned") /\ req[w].known \in Users
      BY <1>5, <2>2, UserFacts DEF TellAssigned
    <2>4. inbox' \in [Users -> [Topics -> Nat]] /\ pushed' \subseteq Devices \X Topics
      BY <2>3, UserFacts, SendType
    <2>5. QED
      BY <1>5, <2>1, <2>4 DEF TellAssigned
  <1>6. QED
    BY <1>2, <1>3, <1>4, <1>5

\* What a request becomes with its order's assignment.
LEMMA AssignedType ==
    ASSUME TypeOK, NEW w \in Workers, NEW d \in Partners,
           req' = [req EXCEPT ![w].pc = "tellAssigned", ![w].known = d]
    PROVE  /\ req' \in [Workers -> Request] /\ req'[w].pc = "tellAssigned" /\ req'[w].known = d
           /\ req'[w].kind = req[w].kind /\ req'[w].to = req[w].to /\ req'[w].at = req[w].at
           /\ \A v \in Workers : v # w => req'[v] = req[v]
  <1>1. PICK q : q = [req[w] EXCEPT !.pc = "tellAssigned"]
    OBVIOUS
  <1>2. PICK r : r = [q EXCEPT !.known = d]
    OBVIOUS
  <1>3. q \in Request /\ q.pc = "tellAssigned" /\ q.kind = req[w].kind /\ q.to = req[w].to /\ q.at = req[w].at
    BY <1>1 DEF TypeOK, Request, PCs
  <1>4. r \in Request /\ r.pc = q.pc /\ r.known = d /\ r.kind = q.kind /\ r.to = q.to /\ r.at = q.at
    BY <1>2, <1>3 DEF Request
  <1>5. [req EXCEPT ![w].pc = "tellAssigned"] = [req EXCEPT ![w] = q]
    BY <1>1
  <1>6. req' = [req EXCEPT ![w] = r]
    BY <1>2, <1>5 DEF TypeOK
  <1>7. /\ req' \in [Workers -> Request] /\ req'[w] = r
        /\ \A v \in Workers : v # w => req'[v] = req[v]
    BY <1>4, <1>6 DEF TypeOK
  <1>8. QED
    BY <1>3, <1>4, <1>7

LEMMA StepType ==
    ASSUME TypeOK, Named, NEW w \in Workers, Step(w)
    PROVE  TypeOK'
  <1> USE DEF TypeOK
  <1>1. CASE TellBuyer(w) \/ TellSeller(w) \/ TellPartner(w) \/ TellAssigned(w)
    BY <1>1, TellType
  <1>2. CASE CommitOrder(w)
    BY <1>2, GotoType DEF CommitOrder, told, past, PCs
  <1>3. CASE SaveAssignment(w)
    <2>1. req[w].at \in Positions \cup {None}
      BY DEF Request
    <2>2. QED
      BY <1>3, <2>1, GotoType DEF SaveAssignment, told, past, PCs
  <1>4. CASE ReadOrder(w)
    <2>1. PICK pc \in {"save", "idle"} : Goto(w, pc)
      BY <1>4 DEF ReadOrder
    <2>2. req' \in [Workers -> Request]
      BY <2>1, GotoType DEF PCs
    <2>3. QED
      BY <1>4, <2>2 DEF ReadOrder, told, table, past
  <1>5. CASE SaveOrder(w)
    <2>1. req[w].to \in OrderStatus
      BY DEF Request
    <2>2. QED
      BY <1>5, <2>1, GotoType DEF SaveOrder, told, past, PCs
  <1>6. CASE LogStatus(w)
    <2>1. req[w].to \in OrderStatus
      BY DEF Request
    <2>2. logged' \in [OrderStatus -> Nat]
      BY <1>6, <2>1 DEF LogStatus
    <2>3. req' \in [Workers -> Request]
      BY <1>6, GotoType DEF LogStatus, PCs
    <2>4. QED
      BY <1>6, <2>2, <2>3 DEF LogStatus, told, past
  <1>7. CASE EmitStatus(w)
    <2>1. req[w].to \in OrderStatus
      BY DEF Request
    <2>2. req' \in [Workers -> Request]
      BY <1>7, GotoType DEF EmitStatus, PCs
    <2>3. QED
      BY <1>7, <2>1, <2>2 DEF EmitStatus, table, past
  <1>8. CASE Assign(w)
    <2>1. CASE Goto(w, "idle") /\ UNCHANGED partner
      BY <1>8, <2>1, GotoType DEF Assign, told, past, PCs
    <2>2. CASE \E d \in Partners : /\ partner' = d
                                   /\ req' = [req EXCEPT ![w].pc = "tellAssigned", ![w].known = d]
      <3>1. PICK d \in Partners : /\ partner' = d
                                  /\ req' = [req EXCEPT ![w].pc = "tellAssigned", ![w].known = d]
        BY <2>2
      <3>2. req' \in [Workers -> Request]
        BY <3>1, AssignedType
      <3>3. QED
        BY <1>8, <3>1, <3>2 DEF Assign, told, past
    <2>3. QED
      BY <1>8, <2>1, <2>2 DEF Assign
  <1>9. CASE SavePosition(w)
    <2>1. req[w].at \in Positions \cup {None}
      BY DEF Request
    <2>2. QED
      BY <1>9, <2>1, GotoType DEF SavePosition, told, past, PCs
  <1>10. CASE EmitPosition(w)
    <2>1. req[w].at \in Positions \cup {None}
      BY DEF Request
    <2>2. req' \in [Workers -> Request]
      BY <1>10, GotoType DEF EmitPosition, PCs
    <2>3. QED
      BY <1>10, <2>1, <2>2 DEF EmitPosition, table, past
  <1>11. QED
    BY <1>1, <1>2, <1>3, <1>4, <1>5, <1>6, <1>7, <1>8, <1>9, <1>10 DEF Step

\* A request that is cut short has ended, and leaves at most an undone order.
LEMMA FailType ==
    ASSUME TypeOK, NEW w \in Workers, Fail(w)
    PROVE  TypeOK'
  <1>1. req' \in [Workers -> Request]
    BY GotoType DEF Fail, PCs
  <1>2. Empty \in [Users -> [Topics -> Nat]]
    BY DEF Empty
  <1>3. placed' \in {"no", "inside", "yes", "undone"} /\ logged' \in [OrderStatus -> Nat]
           /\ inbox' \in [Users -> [Topics -> Nat]]
    BY <1>2 DEF Fail, TypeOK
  <1>4. QED
    BY <1>1, <1>3 DEF Fail, TypeOK

-----------------------------------------------------------------------------
(* What a request still has to tell                                        *)

LEMMA OwingLess ==
    ASSUME NEW u, NEW s, Owing(u, s)' \subseteq Owing(u, s)
    PROVE  /\ Cardinality(Owing(u, s)') <= Cardinality(Owing(u, s))
           /\ Cardinality(Owing(u, s)') \in Nat /\ Cardinality(Owing(u, s)) \in Nat
  <1>1. IsFiniteSet(Owing(u, s))
    BY NotifyAssumption, FS_Subset DEF Owing
  <1>2. QED
    BY <1>1, FS_Subset, FS_CardinalityType

LEMMA OwingPaid ==
    ASSUME NEW u, NEW s, NEW w, Owing(u, s)' \subseteq Owing(u, s), w \in Owing(u, s), w \notin Owing(u, s)'
    PROVE  /\ Cardinality(Owing(u, s)') + 1 <= Cardinality(Owing(u, s))
           /\ Cardinality(Owing(u, s)') \in Nat /\ Cardinality(Owing(u, s)) \in Nat
  <1>1. IsFiniteSet(Owing(u, s))
    BY NotifyAssumption, FS_Subset DEF Owing
  <1>2. Owing(u, s)' \subseteq Owing(u, s) \ {w}
    OBVIOUS
  <1>3. Cardinality(Owing(u, s) \ {w}) = Cardinality(Owing(u, s)) - 1 /\ IsFiniteSet(Owing(u, s) \ {w})
    BY <1>1, FS_RemoveElement
  <1>4. Cardinality(Owing(u, s)') <= Cardinality(Owing(u, s) \ {w}) /\ IsFiniteSet(Owing(u, s)')
    BY <1>2, <1>3, FS_Subset
  <1>5. QED
    BY <1>1, <1>3, <1>4, FS_CardinalityType

LEMMA OwingMore ==
    ASSUME NEW u, NEW s, NEW w, Owing(u, s)' \subseteq Owing(u, s) \cup {w}
    PROVE  /\ Cardinality(Owing(u, s)') <= Cardinality(Owing(u, s)) + 1
           /\ Cardinality(Owing(u, s)') \in Nat /\ Cardinality(Owing(u, s)) \in Nat
  <1>1. IsFiniteSet(Owing(u, s))
    BY NotifyAssumption, FS_Subset DEF Owing
  <1>2. IsFiniteSet(Owing(u, s) \cup {w})
           /\ Cardinality(Owing(u, s) \cup {w}) <= Cardinality(Owing(u, s)) + 1
    <2>1. Cardinality(Owing(u, s)) \in Nat
      BY <1>1, FS_CardinalityType
    <2>2. CASE w \in Owing(u, s)
      <3>1. Owing(u, s) \cup {w} = Owing(u, s)
        BY <2>2
      <3>2. QED
        BY <1>1, <2>1, <3>1
    <2>3. CASE w \notin Owing(u, s)
      <3>1. PICK S : S = Owing(u, s)
        OBVIOUS
      <3>2. IsFiniteSet(S \cup {w}) /\ Cardinality(S \cup {w}) = Cardinality(S) + 1
        BY <1>1, <2>3, <3>1, FS_AddElement
      <3>3. QED
        BY <2>1, <3>1, <3>2
    <2>4. QED
      BY <2>2, <2>3
  <1>3. Cardinality(Owing(u, s)') <= Cardinality(Owing(u, s) \cup {w}) /\ IsFiniteSet(Owing(u, s)')
    BY <1>2, FS_Subset
  <1>4. QED
    BY <1>1, <1>2, <1>3, FS_CardinalityType

\* Nobody owes anything that no request is about to tell.
LEMMA OwingNone ==
    ASSUME NEW u, NEW s, \A v \in Workers : req'[v].pc \notin Telling
    PROVE  Cardinality(Owing(u, s)') = 0
  <1>1. Owing(u, s)' = {}
    BY DEF Owing, StillToTell, Telling
  <1>2. QED
    BY <1>1, FS_EmptySet

-----------------------------------------------------------------------------
(* What a step must show                                                   *)

\* A request that tells nobody anything, about an order that others see.
LEMMA QuietStep ==
    ASSUME IInv, NEW w \in Workers, TypeOK', placed = "yes",
           UNCHANGED <<placed, logged, inbox, pushed, reached, announced>>,
           \A v \in Workers : v # w => req'[v] = req[v],
           req'[w].kind # "place", req'[w].pc \notin Telling \cup {"log", "commit"},
           req'[w].pc = "tellAssigned" => req'[w].known # None
    PROVE  IInv'
  <1> USE DEF IInv
  <1>1. Named'
    BY DEF Named
  <1>2. Counted'
    <2>1. SUFFICES ASSUME NEW u \in Users, NEW s \in OrderStatus
                   PROVE  inbox'[u][s] + Cardinality(Owing(u, s)') <= logged'[s]
      BY DEF Counted
    <2>2. Owing(u, s)' \subseteq Owing(u, s)
      BY DEF Owing, StillToTell, Telling
    <2>3. inbox[u][s] \in Nat /\ logged[s] \in Nat
      BY UserFacts DEF TypeOK
    <2>4. QED
      BY <2>2, <2>3, OwingLess DEF Counted
  <1>3. Had'
    BY DEF Had, Telling
  <1>4. Unseen'
    <2>1. \A v \in Workers : /\ req'[v].kind = "place" <=> placed' = "inside" /\ req'[v].pc # "idle"
                             /\ req'[v].pc = "commit" => req'[v].kind = "place"
      BY DEF Unseen
    <2>2. QED
      BY <2>1 DEF Unseen
  <1>5. Pushed'
    BY DEF Pushed
  <1>6. QED
    BY <1>1, <1>2, <1>3, <1>4, <1>5

\* A request that tells u of t, and owes that notification no longer.
LEMMA TellStep ==
    ASSUME IInv, NEW w \in Workers, NEW u \in Users, NEW t \in Topics, Send(u, t), TypeOK',
           UNCHANGED <<placed, logged, reached, announced, partner>>,
           \A v \in Workers : v # w => req'[v] = req[v],
           req[w].pc # "idle", req'[w].pc \notin {"log", "emit"},
           placed # "yes" => /\ t = PENDING /\ u \in {"buyer", "seller"}
                             /\ req'[w].pc \in {"tellSeller", "commit"} /\ req'[w].to = PENDING,
           req'[w].kind = "place" <=> req[w].kind = "place",
           req'[w].pc = "commit" => req[w].kind = "place",
           req'[w].pc = "tellAssigned" => req'[w].known # None,
           \A v \in Users, s \in OrderStatus : Owing(v, s)' \subseteq Owing(v, s),
           t \in OrderStatus => w \in Owing(u, t) /\ w \notin Owing(u, t)'
    PROVE  IInv'
  <1> USE DEF IInv
  <1>1. Named'
    BY DEF Named
  <1>2. /\ inbox'[u][t] = inbox[u][t] + 1
        /\ \A v \in Users, x \in Topics : v # u \/ x # t => inbox'[v][x] = inbox[v][x]
        /\ pushed' \subseteq pushed \cup {<<u, t>>}
    BY SendType
  <1>3. Counted'
    <2>1. SUFFICES ASSUME NEW v \in Users, NEW s \in OrderStatus
                   PROVE  inbox'[v][s] + Cardinality(Owing(v, s)') <= logged'[s]
      BY DEF Counted
    <2>2. Owing(v, s)' \subseteq Owing(v, s) /\ s \in Topics
      BY UserFacts
    <2>3. /\ inbox[v][s] \in Nat /\ inbox'[v][s] \in Nat /\ logged[s] \in Nat
          /\ inbox[v][s] + Cardinality(Owing(v, s)) <= logged[s]
      BY <2>2 DEF TypeOK, Counted
    <2>4. CASE v = u /\ s = t
      <3>1. w \in Owing(v, s) /\ w \notin Owing(v, s)'
        BY <2>4
      <3>2. QED
        BY <1>2, <2>2, <2>3, <2>4, <3>1, OwingPaid
    <2>5. CASE v # u \/ s # t
      BY <1>2, <2>2, <2>3, <2>5, OwingLess
    <2>6. QED
      BY <2>4, <2>5
  <1>4. Had'
    BY DEF Had
  <1>5. Unseen'
    <2>1. placed' # "yes" => pushed' \subseteq {"buyer", "seller"} \X {PENDING}
      BY <1>2 DEF Unseen
    <2>2. placed' \notin {"no", "undone"}
      BY DEF Unseen
    <2>3. placed' # "yes" => /\ \A v \in Workers : req'[v].pc \in Placing /\ req'[v].to = PENDING
                             /\ \A v, x \in Workers : req'[v].pc # "idle" /\ req'[x].pc # "idle" => v = x
      BY DEF Unseen, Placing
    <2>4. \A v \in Workers : /\ req'[v].kind = "place" <=> placed' = "inside" /\ req'[v].pc # "idle"
                             /\ req'[v].pc = "commit" => req'[v].kind = "place"
      BY DEF Unseen, TypeOK
    <2>5. QED
      BY <2>1, <2>2, <2>3, <2>4 DEF Unseen
  <1>6. Pushed'
    <2>1. SUFFICES ASSUME placed' # "undone", NEW push \in pushed'
                   PROVE  inbox'[push[1]][push[2]] > 0
      BY DEF Pushed
    <2>2. push[1] \in Users /\ push[2] \in Topics /\ push = <<push[1], push[2]>>
      BY NotifyAssumption DEF TypeOK
    <2>3. \A v \in Users, x \in Topics : inbox[v][x] \in Nat
      BY DEF TypeOK
    <2>4. CASE push[1] = u /\ push[2] = t
      BY <1>2, <2>3, <2>4
    <2>5. CASE push[1] # u \/ push[2] # t
      <3>1. push \in pushed
        BY <1>2, <2>5
      <3>2. QED
        BY <1>2, <2>1, <2>2, <2>5, <3>1 DEF Pushed
    <2>6. QED
      BY <2>4, <2>5
  <1>7. QED
    BY <1>1, <1>3, <1>4, <1>5, <1>6

-----------------------------------------------------------------------------
(* The steps                                                               *)

\* A new order owes its parties one notification each.
LEMMA PlaceKeeps ==
    ASSUME IInv, NEW w \in Workers, PlaceOrder(w)
    PROVE  IInv'
  <1> USE DEF IInv
  <1>1. TypeOK'
    BY ArriveType DEF Arrive
  <1>2. PICK r : r = [Idle EXCEPT !.pc = "emit", !.kind = "place"]
    OBVIOUS
  <1>3. r \in Request /\ r.pc = "emit" /\ r.kind = "place" /\ r.to = PENDING
    BY <1>2, StatusFacts DEF Idle, Request, PCs, Kinds
  <1>4. Begin(w, r)
    BY <1>2 DEF PlaceOrder
  <1>5. req'[w] = r /\ \A v \in Workers : v # w => req'[v] = req[v]
    BY <1>3, <1>4, BeginType
  <1>6. /\ placed = "no" /\ placed' = "inside" /\ inbox = Empty /\ \A v \in Workers : req[v].pc = "idle"
        /\ UNCHANGED <<partner, reached, inbox, pushed, announced>>
        /\ logged' = [logged EXCEPT ![PENDING] = 1]
    BY DEF PlaceOrder, Unseen, told
  <1>7. Named' /\ Had'
    BY <1>3, <1>5, <1>6 DEF Named, Had, Unseen
  <1>8. Counted'
    <2>1. SUFFICES ASSUME NEW u \in Users, NEW s \in OrderStatus
                   PROVE  inbox'[u][s] + Cardinality(Owing(u, s)') <= logged'[s]
      BY DEF Counted
    <2>2. inbox'[u][s] = 0
      BY <1>6, UserFacts DEF Empty
    <2>3. Owing(u, s)' \subseteq {w}
      BY <1>5, <1>6 DEF Owing, StillToTell
    <2>4. CASE s = PENDING
      <3>1. Owing(u, s) = {}
        BY <1>6 DEF Owing, StillToTell
      <3>2. Cardinality(Owing(u, s)) = 0
        BY <3>1, FS_EmptySet
      <3>3. Cardinality(Owing(u, s)') <= 1 /\ Cardinality(Owing(u, s)') \in Nat
        <4>1. Owing(u, s)' \subseteq Owing(u, s) \cup {w}
          BY <2>3
        <4>2. QED
          BY <3>2, <4>1, OwingMore
      <3>4. logged'[s] = 1
        BY <1>6, <2>4 DEF TypeOK
      <3>5. QED
        BY <2>2, <3>3, <3>4
    <2>5. CASE s # PENDING
      <3>1. Owing(u, s)' = {}
        BY <1>3, <1>5, <2>3, <2>5 DEF Owing
      <3>2. Cardinality(Owing(u, s)') = 0
        BY <3>1, FS_EmptySet
      <3>3. logged'[s] \in Nat
        BY <1>1 DEF TypeOK
      <3>4. QED
        BY <2>2, <3>2, <3>3
    <2>6. QED
      BY <2>4, <2>5
  <1>9. Unseen'
    <2>1. \A v \in Workers : v # w => req'[v].pc = "idle" /\ req'[v].to = PENDING /\ req'[v].kind # "place"
      BY <1>5, <1>6 DEF Unseen
    <2>2. QED
      BY <1>3, <1>5, <1>6, <2>1 DEF Unseen, Placing
  <1>10. Pushed'
    BY <1>6 DEF Pushed
  <1>11. QED
    BY <1>1, <1>7, <1>8, <1>9, <1>10

\* The other requests find an order that others see.
LEMMA ArriveKeeps ==
    ASSUME IInv, NEW w \in Workers, Arrive(w)
    PROVE  IInv'
  <1> USE DEF IInv
  <1>1. TypeOK'
    BY ArriveType
  <1>2. CASE PlaceOrder(w)
    BY <1>2, PlaceKeeps
  <1>3. CASE MoveOrder(w) \/ Confirm(w) \/ AcceptBid(w) \/ ReportPosition(w)
    <2>1. PICK r \in Request : /\ Begin(w, r)
                               /\ r.kind # "place" /\ r.pc \notin Telling \cup {"log", "commit", "tellAssigned"}
      <3>1. CASE MoveOrder(w)
        <4>1. PICK to \in OrderStatus : Begin(w, [Idle EXCEPT !.pc = "save", !.kind = "move", !.to = to])
          BY <3>1 DEF MoveOrder
        <4>2. PICK r : r = [Idle EXCEPT !.pc = "save", !.kind = "move", !.to = to]
          OBVIOUS
        <4>3. r \in Request /\ r.kind # "place"
                 /\ r.pc \notin Telling \cup {"log", "commit", "tellAssigned"}
          BY <4>2, StatusFacts DEF Idle, Request, PCs, Kinds, Telling, TypeOK, Confirming
        <4>4. QED
          BY <4>1, <4>2, <4>3
      <3>2. CASE Confirm(w)
        <4>1. PICK to \in Confirming :
                 Begin(w, [Idle EXCEPT !.pc = "saveAssignment", !.kind = "move", !.to = to, !.at = position])
          BY <3>2 DEF Confirm
        <4>2. PICK r : r = [Idle EXCEPT !.pc = "saveAssignment", !.kind = "move", !.to = to, !.at = position]
          OBVIOUS
        <4>3. r \in Request /\ r.kind # "place"
                 /\ r.pc \notin Telling \cup {"log", "commit", "tellAssigned"}
          BY <4>2, StatusFacts DEF Idle, Request, PCs, Kinds, Telling, TypeOK, Confirming
        <4>4. QED
          BY <4>1, <4>2, <4>3
      <3>3. CASE AcceptBid(w)
        <4>1. Begin(w, [Idle EXCEPT !.pc = "assign", !.kind = "accept"])
          BY <3>3 DEF AcceptBid
        <4>2. PICK r : r = [Idle EXCEPT !.pc = "assign", !.kind = "accept"]
          OBVIOUS
        <4>3. r \in Request /\ r.kind # "place"
                 /\ r.pc \notin Telling \cup {"log", "commit", "tellAssigned"}
          BY <4>2, StatusFacts DEF Idle, Request, PCs, Kinds, Telling, TypeOK, Confirming
        <4>4. QED
          BY <4>1, <4>2, <4>3
      <3>4. CASE ReportPosition(w)
        <4>1. PICK x \in Positions : Begin(w, [Idle EXCEPT !.pc = "savePosition", !.kind = "report", !.at = x])
          BY <3>4 DEF ReportPosition
        <4>2. PICK r : r = [Idle EXCEPT !.pc = "savePosition", !.kind = "report", !.at = x]
          OBVIOUS
        <4>3. r \in Request /\ r.kind # "place"
                 /\ r.pc \notin Telling \cup {"log", "commit", "tellAssigned"}
          BY <4>2, StatusFacts DEF Idle, Request, PCs, Kinds, Telling, TypeOK, Confirming
        <4>4. QED
          BY <4>1, <4>2, <4>3
      <3>5. QED
        BY <1>3, <3>1, <3>2, <3>3, <3>4
    <2>2. req'[w] = r /\ \A v \in Workers : v # w => req'[v] = req[v]
      BY <2>1, BeginType
    <2>3. placed = "yes"
      BY <1>3, StatusFacts DEF MoveOrder, Confirm, AcceptBid, ReportPosition, Unseen
    <2>4. UNCHANGED <<placed, logged, inbox, pushed, reached, announced>>
      BY <1>3 DEF MoveOrder, Confirm, AcceptBid, ReportPosition, table, told
    <2>5. QED
      BY <1>1, <2>1, <2>2, <2>3, <2>4, QuietStep
  <1>4. QED
    BY <1>2, <1>3 DEF Arrive

\* The steps that tell nobody.
LEMMA SilentKeeps ==
    ASSUME IInv, NEW w \in Workers,
           \/ SaveAssignment(w) \/ ReadOrder(w) \/ SavePosition(w) \/ EmitPosition(w) \/ Assign(w)
    PROVE  IInv'
  <1> USE DEF IInv
  <1>1. TypeOK'
    BY StepType DEF Step
  <1>2. /\ placed = "yes" /\ req[w].kind # "place"
        /\ UNCHANGED <<placed, logged, inbox, pushed, reached, announced>>
    BY DEF SaveAssignment, ReadOrder, SavePosition, EmitPosition, Assign, Unseen, Placing, table, told
  <1>3. /\ \A v \in Workers : v # w => req'[v] = req[v]
        /\ req'[w].kind # "place"
        /\ req'[w].pc \in {"readOrder", "save", "idle", "emitPosition", "tellAssigned"}
        /\ req'[w].pc = "tellAssigned" => req'[w].known # None
    <2>1. ASSUME NEW pc \in {"readOrder", "save", "idle", "emitPosition"}, Goto(w, pc)
          PROVE  /\ \A v \in Workers : v # w => req'[v] = req[v]
                 /\ req'[w].kind # "place" /\ req'[w].pc = pc
      <3>1. None # "place"
        BY NotifyAssumption DEF Kinds
      <3>2. QED
        BY <1>2, <2>1, <3>1, GotoType, IdleType DEF PCs
    <2>2. ASSUME NEW d \in Partners, req' = [req EXCEPT ![w].pc = "tellAssigned", ![w].known = d]
          PROVE  /\ \A v \in Workers : v # w => req'[v] = req[v]
                 /\ req'[w].kind # "place" /\ req'[w].pc = "tellAssigned" /\ req'[w].known # None
      <3>1. /\ req'[w].pc = "tellAssigned" /\ req'[w].known = d /\ req'[w].kind = req[w].kind
            /\ \A v \in Workers : v # w => req'[v] = req[v]
        BY <2>2, AssignedType
      <3>2. d # None
        BY NotifyAssumption
      <3>3. QED
        BY <1>2, <3>1, <3>2
    <2>3. CASE Assign(w)
      BY <2>1, <2>2, <2>3 DEF Assign
    <2>4. CASE ReadOrder(w)
      BY <2>1, <2>4 DEF ReadOrder
    <2>5. CASE SaveAssignment(w) \/ SavePosition(w) \/ EmitPosition(w)
      BY <2>1, <2>5 DEF SaveAssignment, SavePosition, EmitPosition
    <2>6. QED
      BY <2>3, <2>4, <2>5
  <1>4. QED
    BY <1>1, <1>2, <1>3, QuietStep DEF Telling

\* What is saved has been; it is not said yet.
LEMMA SaveOrderKeeps ==
    ASSUME IInv, NEW w \in Workers, SaveOrder(w)
    PROVE  IInv'
  <1> USE DEF IInv
  <1>1. TypeOK'
    BY StepType DEF Step
  <1>2. /\ placed = "yes" /\ req[w].kind # "place" /\ req[w].pc = "save"
        /\ UNCHANGED <<placed, logged, inbox, pushed, announced>>
        /\ reached' = reached \cup {req[w].to}
    BY DEF SaveOrder, Unseen, Placing, told
  <1>3. /\ \A v \in Workers : v # w => req'[v] = req[v]
        /\ req'[w].kind # "place" /\ req'[w].pc = "log" /\ req'[w].to = req[w].to
    BY <1>2, GotoType DEF SaveOrder, PCs
  <1>4. Named' /\ Had' /\ Pushed'
    BY <1>2, <1>3 DEF Named, Had, Pushed
  <1>5. Counted'
    <2>1. SUFFICES ASSUME NEW u \in Users, NEW s \in OrderStatus
                   PROVE  inbox'[u][s] + Cardinality(Owing(u, s)') <= logged'[s]
      BY DEF Counted
    <2>2. Owing(u, s)' \subseteq Owing(u, s)
      BY <1>3 DEF Owing, StillToTell
    <2>3. inbox[u][s] \in Nat /\ logged[s] \in Nat
      BY UserFacts DEF TypeOK
    <2>4. QED
      BY <1>2, <2>2, <2>3, OwingLess DEF Counted
  <1>6. Unseen'
    <2>1. \A v \in Workers : /\ req'[v].kind = "place" <=> placed' = "inside" /\ req'[v].pc # "idle"
                             /\ req'[v].pc = "commit" => req'[v].kind = "place"
      BY <1>2, <1>3 DEF Unseen
    <2>2. QED
      BY <1>2, <2>1 DEF Unseen
  <1>7. QED
    BY <1>1, <1>4, <1>5, <1>6

\* The entry that pays for the notifications to come.
LEMMA LogKeeps ==
    ASSUME IInv, NEW w \in Workers, LogStatus(w)
    PROVE  IInv'
  <1> USE DEF IInv
  <1>1. TypeOK'
    BY StepType DEF Step
  <1>2. /\ placed = "yes" /\ req[w].kind # "place" /\ req[w].pc = "log"
        /\ UNCHANGED <<placed, reached, inbox, pushed, announced>>
        /\ req[w].to \in OrderStatus /\ logged' = [logged EXCEPT ![req[w].to] = @ + 1]
    BY DEF LogStatus, Unseen, Placing, told, TypeOK, Request
  <1>3. /\ \A v \in Workers : v # w => req'[v] = req[v]
        /\ req'[w].kind # "place" /\ req'[w].pc = "emit" /\ req'[w].to = req[w].to
    BY <1>2, GotoType DEF LogStatus, PCs
  <1>4. Named' /\ Had' /\ Pushed'
    BY <1>2, <1>3 DEF Named, Had, Pushed
  <1>5. Counted'
    <2>1. SUFFICES ASSUME NEW u \in Users, NEW s \in OrderStatus
                   PROVE  inbox'[u][s] + Cardinality(Owing(u, s)') <= logged'[s]
      BY DEF Counted
    <2>2. /\ inbox[u][s] \in Nat /\ logged[s] \in Nat /\ inbox'[u][s] = inbox[u][s]
          /\ inbox[u][s] + Cardinality(Owing(u, s)) <= logged[s]
      BY <1>2, UserFacts DEF TypeOK, Counted
    <2>3. CASE s = req[w].to
      <3>1. Owing(u, s)' \subseteq Owing(u, s) \cup {w}
        BY <1>3 DEF Owing
      <3>2. logged'[s] = logged[s] + 1
        BY <1>2, <2>3 DEF TypeOK
      <3>3. QED
        <4>1. /\ Cardinality(Owing(u, s)') <= Cardinality(Owing(u, s)) + 1
              /\ Cardinality(Owing(u, s)') \in Nat /\ Cardinality(Owing(u, s)) \in Nat
          BY <3>1, OwingMore
        <4>2. QED
          BY <2>2, <3>2, <4>1
    <2>4. CASE s # req[w].to
      <3>1. Owing(u, s)' \subseteq Owing(u, s)
        BY <1>3, <2>4 DEF Owing
      <3>2. logged'[s] = logged[s]
        BY <1>2, <2>4 DEF TypeOK
      <3>3. QED
        BY <2>2, <3>1, <3>2, OwingLess
    <2>5. QED
      BY <2>3, <2>4
  <1>6. Unseen'
    <2>1. \A v \in Workers : /\ req'[v].kind = "place" <=> placed' = "inside" /\ req'[v].pc # "idle"
                             /\ req'[v].pc = "commit" => req'[v].kind = "place"
      BY <1>2, <1>3 DEF Unseen
    <2>2. QED
      BY <1>2, <2>1 DEF Unseen
  <1>7. QED
    BY <1>1, <1>4, <1>5, <1>6

\* What is emitted has been saved, or is a new order's.
LEMMA EmitKeeps ==
    ASSUME IInv, NEW w \in Workers, EmitStatus(w)
    PROVE  IInv'
  <1> USE DEF IInv
  <1>1. TypeOK'
    BY StepType DEF Step
  <1>2. /\ req[w].pc = "emit" /\ announced' = announced \cup {req[w].to}
        /\ UNCHANGED <<placed, reached, inbox, pushed, logged, partner>>
    BY DEF EmitStatus, table
  <1>3. /\ \A v \in Workers : v # w => req'[v] = req[v]
        /\ req'[w].kind = req[w].kind /\ req'[w].pc = "tellBuyer" /\ req'[w].to = req[w].to
    BY <1>2, GotoType DEF EmitStatus, PCs
  <1>4. Named' /\ Had' /\ Pushed'
    BY <1>2, <1>3 DEF Named, Had, Pushed
  <1>5. Counted'
    <2>1. SUFFICES ASSUME NEW u \in Users, NEW s \in OrderStatus
                   PROVE  inbox'[u][s] + Cardinality(Owing(u, s)') <= logged'[s]
      BY DEF Counted
    <2>2. Owing(u, s)' \subseteq Owing(u, s)
      BY <1>2, <1>3 DEF Owing, StillToTell
    <2>3. inbox[u][s] \in Nat /\ logged[s] \in Nat
      BY UserFacts DEF TypeOK
    <2>4. QED
      BY <1>2, <2>2, <2>3, OwingLess DEF Counted
  <1>6. Unseen'
    <2>1. placed # "yes" => req[w].to = PENDING
      BY DEF Unseen
    <2>2. placed \notin {"no", "undone"}
      BY <1>2 DEF Unseen
    <2>3. placed # "yes" => /\ \A v \in Workers : req'[v].pc \in Placing /\ req'[v].to = PENDING
                            /\ \A v, x \in Workers : req'[v].pc # "idle" /\ req'[x].pc # "idle" => v = x
      BY <1>2, <1>3 DEF Unseen, Placing
    <2>4. \A v \in Workers : /\ req'[v].kind = "place" <=> placed' = "inside" /\ req'[v].pc # "idle"
                             /\ req'[v].pc = "commit" => req'[v].kind = "place"
      BY <1>2, <1>3 DEF Unseen
    <2>5. QED
      BY <1>2, <2>1, <2>2, <2>3, <2>4 DEF Unseen
  <1>7. QED
    BY <1>1, <1>4, <1>5, <1>6

\* A new order is told to buyer and seller, not to a partner.
LEMMA CopyFacts == "seller" \in Copy(PENDING) /\ "delivery" \notin Copy(PENDING)
  BY DEF Copy, PENDING, READY_FOR_PICKUP, DELIVERED, CANCELLED

LEMMA TellBuyerKeeps ==
    ASSUME IInv, NEW w \in Workers, TellBuyer(w)
    PROVE  IInv'
  <1> USE DEF IInv
  <1>1. TypeOK'
    BY StepType DEF Step
  <1>2. /\ req[w].pc = "tellBuyer" /\ Send("buyer", req[w].to)
        /\ UNCHANGED <<placed, reached, logged, partner, announced>>
        /\ req[w].to \in OrderStatus /\ "buyer" \in Users /\ req[w].to \in Topics
    BY UserFacts DEF TellBuyer, table, TypeOK, Request
  <1>3. PICK pc \in {"tellSeller", "tellPartner", "idle"} :
           Goto(w, pc) /\ (req[w].to = PENDING => pc = "tellSeller")
    BY CopyFacts DEF TellBuyer
  <1>4. /\ \A v \in Workers : v # w => req'[v] = req[v]
        /\ req'[w].pc = pc
        /\ pc # "idle" => req'[w].kind = req[w].kind /\ req'[w].to = req[w].to
        /\ pc = "idle" => req'[w].kind = None
    BY <1>3, GotoType, IdleType DEF PCs
  <1>5. placed # "yes" => req[w].to = PENDING /\ pc = "tellSeller"
    BY <1>3 DEF Unseen
  <1>6. req'[w].kind = "place" <=> req[w].kind = "place"
    <2>1. CASE pc # "idle"
      BY <1>4, <2>1
    <2>2. CASE pc = "idle"
      <3>1. placed = "yes"
        BY <1>5, <2>2
      <3>2. req[w].kind # "place"
        BY <3>1 DEF Unseen
      <3>3. None # "place"
        BY NotifyAssumption DEF Kinds
      <3>4. QED
        BY <1>4, <2>2, <3>2, <3>3
    <2>3. QED
      BY <2>1, <2>2
  <1>7. \A v \in Users, s \in OrderStatus : Owing(v, s)' \subseteq Owing(v, s)
    BY <1>2, <1>3, <1>4 DEF Owing, StillToTell
  <1>8. PICK t \in OrderStatus : t = req[w].to
    BY <1>2
  <1>9. w \in Owing("buyer", t) /\ w \notin Owing("buyer", t)'
    BY <1>2, <1>3, <1>4, <1>8 DEF Owing, StillToTell
  <1>10. placed # "yes" => /\ t = PENDING /\ "buyer" \in {"buyer", "seller"}
                           /\ req'[w].pc \in {"tellSeller", "commit"} /\ req'[w].to = PENDING
    BY <1>4, <1>5, <1>8
  <1>11. req'[w].pc \notin {"log", "emit", "tellAssigned"} /\ (req'[w].pc = "commit" => req[w].kind = "place")
    BY <1>3, <1>4
  <1>12. QED
    BY <1>1, <1>2, <1>4, <1>6, <1>7, <1>8, <1>9, <1>10, <1>11, TellStep

LEMMA TellSellerKeeps ==
    ASSUME IInv, NEW w \in Workers, TellSeller(w)
    PROVE  IInv'
  <1> USE DEF IInv
  <1>1. TypeOK'
    BY StepType DEF Step
  <1>2. /\ req[w].pc = "tellSeller" /\ Send("seller", req[w].to)
        /\ UNCHANGED <<placed, reached, logged, partner, announced>>
        /\ req[w].to \in OrderStatus /\ "seller" \in Users /\ req[w].to \in Topics
    BY UserFacts DEF TellSeller, table, TypeOK, Request
  <1>3. PICK pc \in {"commit", "tellPartner", "idle"} :
           /\ Goto(w, pc) /\ (req[w].to = PENDING /\ req[w].kind = "place" => pc = "commit")
           /\ pc = "commit" => req[w].kind = "place"
    BY CopyFacts DEF TellSeller
  <1>4. /\ \A v \in Workers : v # w => req'[v] = req[v]
        /\ req'[w].pc = pc
        /\ pc # "idle" => req'[w].kind = req[w].kind /\ req'[w].to = req[w].to
        /\ pc = "idle" => req'[w].kind = None
    BY <1>3, GotoType, IdleType DEF PCs
  <1>5. placed # "yes" => req[w].to = PENDING /\ pc = "commit"
    BY <1>2, <1>3 DEF Unseen, TypeOK
  <1>6. req'[w].kind = "place" <=> req[w].kind = "place"
    <2>1. CASE pc # "idle"
      BY <1>4, <2>1
    <2>2. CASE pc = "idle"
      <3>1. placed = "yes"
        BY <1>5, <2>2
      <3>2. req[w].kind # "place"
        BY <3>1 DEF Unseen
      <3>3. None # "place"
        BY NotifyAssumption DEF Kinds
      <3>4. QED
        BY <1>4, <2>2, <3>2, <3>3
    <2>3. QED
      BY <2>1, <2>2
  <1>7. \A v \in Users, s \in OrderStatus : Owing(v, s)' \subseteq Owing(v, s)
    BY <1>2, <1>3, <1>4 DEF Owing, StillToTell
  <1>8. PICK t \in OrderStatus : t = req[w].to
    BY <1>2
  <1>9. w \in Owing("seller", t) /\ w \notin Owing("seller", t)'
    BY <1>2, <1>3, <1>4, <1>8 DEF Owing, StillToTell
  <1>10. placed # "yes" => /\ t = PENDING /\ "seller" \in {"buyer", "seller"}
                           /\ req'[w].pc \in {"tellSeller", "commit"} /\ req'[w].to = PENDING
    BY <1>4, <1>5, <1>8
  <1>11. req'[w].pc \notin {"log", "emit", "tellAssigned"} /\ (req'[w].pc = "commit" => req[w].kind = "place")
    BY <1>3, <1>4
  <1>12. QED
    BY <1>1, <1>2, <1>4, <1>6, <1>7, <1>8, <1>9, <1>10, <1>11, TellStep

\* The partner, if there is one, is told; whoever it is, nobody is owed any more.
LEMMA TellPartnerKeeps ==
    ASSUME IInv, NEW w \in Workers, TellPartner(w)
    PROVE  IInv'
  <1> USE DEF IInv
  <1>1. TypeOK'
    BY StepType DEF Step
  <1>2. /\ req[w].pc = "tellPartner" /\ placed = "yes" /\ req[w].kind # "place"
        /\ UNCHANGED <<placed, reached, logged, partner, announced>>
        /\ req[w].to \in OrderStatus /\ req[w].to \in Topics
    BY UserFacts DEF TellPartner, table, TypeOK, Request, Unseen, Placing
  <1>3. /\ \A v \in Workers : v # w => req'[v] = req[v]
        /\ req'[w].kind # "place" /\ req'[w].pc \in {"assign", "idle"}
    <2>1. CASE req' = [req EXCEPT ![w] = Idle]
      <3>1. None # "place"
        BY NotifyAssumption DEF Kinds
      <3>2. QED
        BY <2>1, <3>1, IdleType DEF TypeOK
    <2>2. CASE req' = [req EXCEPT ![w] = [req[w] EXCEPT !.pc = "assign", !.known = partner]]
      <3>1. PICK r : r = [req[w] EXCEPT !.pc = "assign", !.known = partner]
        OBVIOUS
      <3>2. r.pc = "assign" /\ r.kind = req[w].kind
        BY <3>1 DEF TypeOK, Request
      <3>3. QED
        BY <1>2, <2>2, <3>1, <3>2 DEF TypeOK
    <2>3. QED
      BY <2>1, <2>2 DEF TellPartner
  <1>4. CASE partner = None
    <2>1. UNCHANGED <<inbox, pushed>>
      BY <1>4 DEF TellPartner
    <2>2. QED
      BY <1>1, <1>2, <1>3, <2>1, QuietStep DEF Telling
  <1>5. CASE partner # None
    <2>1. Send(partner, req[w].to) /\ partner \in Partners /\ partner \in Users
      BY <1>5, UserFacts DEF TellPartner, TypeOK
    <2>2. \A v \in Users, s \in OrderStatus : Owing(v, s)' \subseteq Owing(v, s)
      BY <1>3 DEF Owing, StillToTell
    <2>3. PICK d \in Partners, t \in OrderStatus : d = partner /\ t = req[w].to
      BY <1>2, <2>1
    <2>4. d \in Users /\ t \in Topics /\ Send(d, t)
      BY <2>1, <2>3, UserFacts
    <2>5. w \in Owing(d, t) /\ w \notin Owing(d, t)'
      BY <1>2, <1>3, <2>3, UserFacts DEF Owing, StillToTell
    <2>6. QED
      BY <1>1, <1>2, <1>3, <2>2, <2>4, <2>5, TellStep
  <1>6. QED
    BY <1>4, <1>5

LEMMA TellAssignedKeeps ==
    ASSUME IInv, NEW w \in Workers, TellAssigned(w)
    PROVE  IInv'
  <1> USE DEF IInv
  <1>1. TypeOK'
    BY StepType DEF Step
  <1>2. /\ req[w].pc = "tellAssigned" /\ placed = "yes" /\ req[w].kind # "place"
        /\ UNCHANGED <<placed, reached, logged, partner, announced>>
        /\ req[w].known \in Users /\ "assigned" \in Topics /\ Send(req[w].known, "assigned")
    BY UserFacts DEF TellAssigned, table, TypeOK, Request, Unseen, Placing, Named
  <1>3. /\ \A v \in Workers : v # w => req'[v] = req[v]
        /\ req'[w].kind = None /\ req'[w].pc = "idle"
    BY GotoType, IdleType DEF TellAssigned, PCs
  <1>4. None # "place"
    BY NotifyAssumption DEF Kinds
  <1>5. \A v \in Users, s \in OrderStatus : Owing(v, s)' \subseteq Owing(v, s)
    BY <1>3 DEF Owing, StillToTell
  <1>6. QED
    BY <1>1, <1>2, <1>3, <1>4, <1>5, StatusFacts, TellStep

\* The order that everybody has been told of can be seen.
LEMMA CommitKeeps ==
    ASSUME IInv, NEW w \in Workers, CommitOrder(w)
    PROVE  IInv'
  <1> USE DEF IInv
  <1>1. TypeOK'
    BY StepType DEF Step
  <1>2. /\ req[w].pc = "commit" /\ placed = "inside" /\ placed' = "yes"
        /\ UNCHANGED <<reached, logged, partner, announced, inbox, pushed>>
    BY DEF CommitOrder, Unseen, told
  <1>3. /\ \A v \in Workers : v # w => req'[v] = req[v]
        /\ req'[w] = Idle
    BY GotoType DEF CommitOrder, PCs
  <1>4. \A v \in Workers : req'[v].pc = "idle" /\ req'[v].kind # "place"
    <2>1. None # "place"
      BY NotifyAssumption DEF Kinds
    <2>2. ASSUME NEW v \in Workers, v # w
          PROVE  req[v].pc = "idle" /\ req[v].kind # "place"
      BY <1>2, <2>2 DEF Unseen
    <2>3. QED
      BY <1>3, <2>1, <2>2, IdleType
  <1>5. Named' /\ Had' /\ Pushed'
    BY <1>2, <1>4 DEF Named, Had, Pushed
  <1>6. Counted'
    <2>1. SUFFICES ASSUME NEW u \in Users, NEW s \in OrderStatus
                   PROVE  inbox'[u][s] + Cardinality(Owing(u, s)') <= logged'[s]
      BY DEF Counted
    <2>2. Owing(u, s)' \subseteq Owing(u, s)
      BY <1>4 DEF Owing, StillToTell
    <2>3. inbox[u][s] \in Nat /\ logged[s] \in Nat
      BY UserFacts DEF TypeOK
    <2>4. QED
      BY <1>2, <2>2, <2>3, OwingLess DEF Counted
  <1>7. Unseen'
    BY <1>2, <1>4 DEF Unseen
  <1>8. QED
    BY <1>1, <1>5, <1>6, <1>7

\* A new order is undone whole, but for what has been pushed and emitted.
LEMMA FailKept ==
    ASSUME IInv, NEW w \in Workers, Fail(w)
    PROVE  IInv'
  <1> USE DEF IInv
  <1>1. TypeOK'
    BY FailType
  <1>2. /\ req[w].pc # "idle"
        /\ UNCHANGED <<reached, partner, announced, pushed>>
    BY DEF Fail
  <1>3. /\ \A v \in Workers : v # w => req'[v] = req[v]
        /\ req'[w] = Idle
    BY GotoType DEF Fail, PCs
  <1>4. None # "place"
    BY NotifyAssumption DEF Kinds
  <1>5. CASE placed = "yes"
    <2>1. UNCHANGED <<placed, logged, inbox>>
      BY <1>5 DEF Fail
    <2>2. QED
      BY <1>1, <1>2, <1>3, <1>4, <1>5, <2>1, IdleType, QuietStep DEF Telling
  <1>6. CASE placed = "inside"
    <2>1. placed' = "undone" /\ logged' = [s \in OrderStatus |-> 0] /\ inbox' = Empty
      BY <1>6 DEF Fail
    <2>2. \A v \in Workers : req'[v].pc = "idle" /\ req'[v].kind # "place" /\ req'[v].to = PENDING
      <3>1. ASSUME NEW v \in Workers, v # w
            PROVE  req[v].pc = "idle" /\ req[v].kind # "place" /\ req[v].to = PENDING
        BY <1>2, <1>6, <3>1 DEF Unseen
      <3>2. QED
        BY <1>3, <1>4, <3>1, IdleType
    <2>3. Named' /\ Had' /\ Pushed'
      BY <1>2, <2>1, <2>2 DEF Named, Had, Pushed
    <2>4. Counted'
      <3>1. SUFFICES ASSUME NEW u \in Users, NEW s \in OrderStatus
                     PROVE  inbox'[u][s] + Cardinality(Owing(u, s)') <= logged'[s]
        BY DEF Counted
      <3>2. inbox'[u][s] = 0 /\ logged'[s] = 0
        BY <2>1, UserFacts DEF Empty
      <3>3. Cardinality(Owing(u, s)') = 0
        BY <2>2, OwingNone DEF Telling
      <3>4. QED
        BY <3>2, <3>3
    <2>5. Unseen'
      BY <1>2, <1>6, <2>1, <2>2 DEF Unseen, Placing
    <2>6. QED
      BY <1>1, <2>3, <2>4, <2>5
  <1>7. CASE placed \in {"no", "undone"}
    BY <1>2, <1>7 DEF Unseen
  <1>8. QED
    BY <1>5, <1>6, <1>7 DEF TypeOK

-----------------------------------------------------------------------------
(* The specification                                                       *)

\* The buyer's socket comes and goes.
LEMMA OthersKeep ==
    ASSUME IInv, UNCHANGED <<placed, status, logged, partner, inbox, pushed, position, req, reached,
                             announced, met, cut>>,
           joined' \in BOOLEAN, screen' \in [status : OrderStatus \cup {None}, at : Positions \cup {None}]
    PROVE  IInv'
  <1> USE DEF IInv
  <1>1. TypeOK' /\ Named' /\ Had' /\ Pushed' /\ Unseen'
    BY DEF TypeOK, Named, Had, Pushed, Unseen
  <1>2. Counted'
    <2>1. \A u, s : Owing(u, s)' = Owing(u, s)
      BY DEF Owing
    <2>2. QED
      BY <2>1 DEF Counted
  <1>3. QED
    BY <1>1, <1>2

LEMMA InitHolds ==
    ASSUME Init
    PROVE  IInv
  <1>1. TypeOK
    BY StatusFacts, IdleType DEF Init, TypeOK, Empty, Blank
  <1>2. \A w \in Workers : req[w].pc = "idle" /\ req[w].to = PENDING /\ req[w].kind # "place"
    BY IdleType, NotifyAssumption DEF Init, Kinds
  <1>3. Named /\ Had /\ Pushed
    BY <1>2 DEF Init, Named, Had, Pushed
  <1>4. Counted
    <2>1. SUFFICES ASSUME NEW u \in Users, NEW s \in OrderStatus
                   PROVE  inbox[u][s] + Cardinality(Owing(u, s)) <= logged[s]
      BY DEF Counted
    <2>2. Owing(u, s) = {}
      BY <1>2 DEF Owing, StillToTell
    <2>3. Cardinality(Owing(u, s)) = 0
      BY <2>2, FS_EmptySet
    <2>4. inbox[u][s] = 0 /\ logged[s] = 0
      BY UserFacts DEF Init, Empty
    <2>5. QED
      BY <2>3, <2>4
  <1>5. Unseen
    BY <1>2 DEF Init, Unseen, Placing
  <1>6. QED
    BY <1>1, <1>3, <1>4, <1>5 DEF IInv

LEMMA NextKeeps ==
    ASSUME IInv, [Next]_vars
    PROVE  IInv'
  <1>1. TypeOK
    BY DEF IInv
  <1>2. CASE Subscribe \/ Unsubscribe
    <2>1. Blank \in [status : OrderStatus \cup {None}, at : Positions \cup {None}]
      BY DEF Blank
    <2>2. joined' \in BOOLEAN /\ screen' \in [status : OrderStatus \cup {None}, at : Positions \cup {None}]
      BY <1>1, <1>2, <2>1 DEF Subscribe, Unsubscribe, TypeOK
    <2>3. UNCHANGED <<placed, status, logged, partner, inbox, pushed, position, req, reached, announced, met, cut>>
      BY <1>2 DEF Subscribe, Unsubscribe, table, past
    <2>4. QED
      BY <2>2, <2>3, OthersKeep
  <1>3. CASE UNCHANGED vars
    BY <1>1, <1>3, OthersKeep DEF vars, TypeOK
  <1>4. ASSUME NEW w \in Workers, Arrive(w)
        PROVE  IInv'
    BY <1>4, ArriveKeeps
  <1>5. ASSUME NEW w \in Workers, Step(w)
        PROVE  IInv'
    BY <1>5, CommitKeeps, SilentKeeps, SaveOrderKeeps, LogKeeps, EmitKeeps, TellBuyerKeeps,
       TellSellerKeeps, TellPartnerKeeps, TellAssignedKeeps DEF Step
  <1>6. ASSUME NEW w \in Workers, Fail(w)
        PROVE  IInv'
    BY <1>6, FailKept
  <1>7. QED
    BY <1>2, <1>3, <1>4, <1>5, <1>6 DEF Next

\* What each request of the fan-out knows at each of its statements.
THEOREM Invariance == Spec => []IInv
  <1>1. Init => IInv
    BY InitHolds
  <1>2. IInv /\ [Next]_vars => IInv'
    BY NextKeeps
  <1>3. QED
    BY <1>1, <1>2, PTL DEF Spec

\* Tables, notifications and requests keep their types.
THEOREM TypeCorrect == Spec => []TypeOK
  <1>1. IInv => TypeOK
    BY DEF IInv
  <1>2. QED
    BY <1>1, Invariance, PTL

\* However many requests overlap, and wherever one is cut short, nobody is told
\* of a status that the order has not had, or more often than it has (on_status_log,
\* create_order): the log's entries pay for the notifications.
THEOREM ToldOnlyWhatHappened == Spec => []OnlyWhatHappened
  <1>1. IInv => OnlyWhatHappened
    <2>1. SUFFICES ASSUME IInv PROVE OnlyWhatHappened
      OBVIOUS
    <2>2. \A u \in Users, s \in OrderStatus : inbox[u][s] <= logged[s]
      <3>1. SUFFICES ASSUME NEW u \in Users, NEW s \in OrderStatus PROVE inbox[u][s] <= logged[s]
        OBVIOUS
      <3>2. IsFiniteSet(Owing(u, s))
        BY NotifyAssumption, FS_Subset DEF Owing
      <3>3. Cardinality(Owing(u, s)) \in Nat
        BY <3>2, FS_CardinalityType
      <3>4. inbox[u][s] \in Nat /\ logged[s] \in Nat
        BY <2>1, UserFacts DEF IInv, TypeOK
      <3>5. inbox[u][s] + Cardinality(Owing(u, s)) <= logged[s]
        BY <2>1 DEF IInv, Counted
      <3>6. QED
        BY <3>3, <3>4, <3>5
    <2>3. announced \subseteq reached
      BY <2>1 DEF IInv, Had
    <2>4. placed \in {"no", "inside", "undone"} => announced \subseteq {PENDING}
      BY <2>1 DEF IInv, Unseen
    <2>5. placed = "undone" => inbox = Empty /\ pushed \subseteq {"buyer", "seller"} \X {PENDING}
      BY <2>1 DEF IInv, Unseen
    <2>6. placed # "undone" => \A push \in pushed : inbox[push[1]][push[2]] > 0
      BY <2>1 DEF IInv, Pushed
    <2>7. QED
      BY <2>2, <2>3, <2>4, <2>5, <2>6 DEF OnlyWhatHappened
  <1>2. QED
    BY <1>1, Invariance, PTL

-----------------------------------------------------------------------------
(* What a subscriber sees                                                  *)

Moving(w)   == req[w].kind = "move"
Saying(w)   == Moving(w) /\ req[w].pc \in {"log", "emit"}
Locating(w) == req[w].kind = "report" \/ req[w].to \in Confirming
Locates     == {"saveAssignment", "emitPosition"}

\* Which requests can stand where.
Kinded ==
    \A w \in Workers :
        /\ req[w].pc = "idle" => req[w] = Idle
        /\ req[w].pc \in {"save", "log", "readOrder", "saveAssignment"} => Moving(w)
        /\ req[w].pc = "emit" => Moving(w) \/ req[w].kind = "place"
        /\ req[w].pc \in {"savePosition", "emitPosition"} => req[w].kind = "report"
        /\ req[w].pc = "saveAssignment" => req[w].to \in Confirming
        /\ req[w].kind = "place" => req[w].to = PENDING
        /\ Locating(w) => partner # None

\* A lone writer of the order has saved what it is about to say, and until it
\* has, what the subscriber was told last is what the row says.
StatusShown ==
    /\ status \in reached
    /\ ~joined => screen = Blank
    /\ "order" \notin met =>
          /\ \A v, w \in Workers : Moving(v) /\ Moving(w) => v = w
          /\ \A w \in Workers : Saying(w) => status = req[w].to
          /\ ~cut => screen.status \in {None, status} \/ \E w \in Workers : Saying(w)

\* A lone writer of the assignment writes the position that it has read, or is
\* about to say what it has written.
PositionShown ==
    "assignment" \notin met =>
        /\ \A v, w \in Workers : Locating(v) /\ Locating(w) => v = w
        /\ \A w \in Workers : req[w].pc \in Locates => req[w].at = position
        /\ ~cut => screen.at \in {None, position} \/ \E w \in Workers : req[w].pc = "emitPosition"

ScreenInv == Kinded /\ StatusShown /\ PositionShown

\* A request that has begun, and one that goes on.
Begun(r) ==
    /\ r.pc \in {"emit", "save", "saveAssignment", "assign", "savePosition"}
    /\ r.pc = "emit" <=> r.kind = "place"
    /\ r.pc \in {"save", "saveAssignment"} => r.kind = "move"
    /\ r.pc = "savePosition" <=> r.kind = "report"
    /\ r.pc = "saveAssignment" => r.to \in Confirming /\ r.at = position
    /\ r.kind = "place" => r.to = PENDING
    /\ r.kind = "report" \/ r.to \in Confirming => partner # None

GoesOn(w) ==
    /\ \A v \in Workers : v # w => req'[v] = req[v]
    /\ \/ req'[w] = Idle
       \/ /\ req'[w].kind = req[w].kind /\ req'[w].to = req[w].to /\ req'[w].at = req[w].at
          /\ req'[w].pc \notin {"idle", "saveAssignment", "savePosition"}
          /\ req'[w].pc = "readOrder" => req[w].pc = "saveAssignment"
          /\ req'[w].pc = "save" => req[w].pc = "readOrder"
          /\ req'[w].pc = "log" => req[w].pc = "save"
          /\ req'[w].pc = "emit" => req[w].pc = "log"
          /\ req'[w].pc = "emitPosition" => req[w].pc = "savePosition"

LEMMA ConfirmingFacts == PENDING \notin Confirming /\ Confirming \subseteq OrderStatus
  BY DEF Confirming, PENDING, OUT_FOR_DELIVERY, DELIVERED, OrderStatus

LEMMA IdleFacts == /\ Idle.pc = "idle" /\ Idle.kind \notin Kinds /\ Idle.kind \notin {"move", "place", "report"}
                   /\ Idle.to \notin Confirming
  BY NotifyAssumption, ConfirmingFacts DEF Idle, Kinds

LEMMA ArrivesAs ==
    ASSUME TypeOK, NEW w \in Workers, Arrive(w)
    PROVE  \E r \in Request : Begin(w, r) /\ Begun(r)
  <1> USE StatusFacts, ConfirmingFacts, NotifyAssumption DEF Idle, Request, PCs, Kinds, Begun
  <1>1. CASE PlaceOrder(w)
    <2>1. PICK r : r = [Idle EXCEPT !.pc = "emit", !.kind = "place"]
      OBVIOUS
    <2>2. r \in Request /\ Begun(r)
      BY <2>1
    <2>3. QED
      BY <1>1, <2>1, <2>2 DEF PlaceOrder
  <1>2. CASE MoveOrder(w)
    <2>1. PICK to \in OrderStatus \ Confirming : Begin(w, [Idle EXCEPT !.pc = "save", !.kind = "move", !.to = to])
      BY <1>2 DEF MoveOrder
    <2>2. PICK r : r = [Idle EXCEPT !.pc = "save", !.kind = "move", !.to = to]
      OBVIOUS
    <2>3. r \in Request /\ Begun(r)
      BY <2>2
    <2>4. QED
      BY <2>1, <2>2, <2>3
  <1>3. CASE Confirm(w)
    <2>1. PICK to \in Confirming :
             Begin(w, [Idle EXCEPT !.pc = "saveAssignment", !.kind = "move", !.to = to, !.at = position])
      BY <1>3 DEF Confirm
    <2>2. PICK r : r = [Idle EXCEPT !.pc = "saveAssignment", !.kind = "move", !.to = to, !.at = position]
      OBVIOUS
    <2>3. r \in Request /\ Begun(r)
      BY <1>3, <2>2 DEF TypeOK, Confirm
    <2>4. QED
      BY <2>1, <2>2, <2>3
  <1>4. CASE AcceptBid(w)
    <2>1. PICK r : r = [Idle EXCEPT !.pc = "assign", !.kind = "accept"]
      OBVIOUS
    <2>2. r \in Request /\ Begun(r)
      BY <2>1
    <2>3. QED
      BY <1>4, <2>1, <2>2 DEF AcceptBid
  <1>5. CASE ReportPosition(w)
    <2>1. PICK x \in Positions : Begin(w, [Idle EXCEPT !.pc = "savePosition", !.kind = "report", !.at = x])
      BY <1>5 DEF ReportPosition
    <2>2. PICK r : r = [Idle EXCEPT !.pc = "savePosition", !.kind = "report", !.at = x]
      OBVIOUS
    <2>3. r \in Request /\ Begun(r)
      BY <1>5, <2>2 DEF ReportPosition
    <2>4. QED
      BY <2>1, <2>2, <2>3
  <1>6. QED
    BY <1>1, <1>2, <1>3, <1>4, <1>5 DEF Arrive

LEMMA StepGoesOn ==
    ASSUME TypeOK, NEW w \in Workers, Step(w) \/ Fail(w)
    PROVE  GoesOn(w)
  <1>1. ASSUME NEW pc \in PCs, Goto(w, pc), pc \notin {"saveAssignment", "savePosition"},
               pc = "readOrder" => req[w].pc = "saveAssignment",
               pc = "save" => req[w].pc = "readOrder", pc = "log" => req[w].pc = "save",
               pc = "emit" => req[w].pc = "log", pc = "emitPosition" => req[w].pc = "savePosition"
        PROVE  GoesOn(w)
    BY <1>1, GotoType DEF GoesOn
  <1> USE DEF PCs
  <1>2. CASE CommitOrder(w) \/ Fail(w) \/ EmitPosition(w) \/ TellAssigned(w)
    BY <1>1, <1>2 DEF CommitOrder, Fail, EmitPosition, TellAssigned
  <1>3. CASE SaveAssignment(w) \/ SaveOrder(w) \/ LogStatus(w) \/ EmitStatus(w) \/ SavePosition(w)
    BY <1>1, <1>3 DEF SaveAssignment, SaveOrder, LogStatus, EmitStatus, SavePosition
  <1>4. CASE ReadOrder(w)
    <2>1. PICK pc \in {"save", "idle"} : Goto(w, pc)
      BY <1>4 DEF ReadOrder
    <2>2. QED
      BY <1>1, <1>4, <2>1 DEF ReadOrder
  <1>5. CASE TellBuyer(w)
    <2>1. PICK pc \in {"tellSeller", "tellPartner", "idle"} : Goto(w, pc)
      BY <1>5 DEF TellBuyer
    <2>2. QED
      BY <1>1, <2>1
  <1>6. CASE TellSeller(w)
    <2>1. PICK pc \in {"commit", "tellPartner", "idle"} : Goto(w, pc)
      BY <1>6 DEF TellSeller
    <2>2. QED
      BY <1>1, <2>1
  <1>7. CASE TellPartner(w)
    <2>1. CASE req' = [req EXCEPT ![w] = Idle]
      BY <2>1 DEF GoesOn, TypeOK
    <2>2. CASE req' = [req EXCEPT ![w] = [req[w] EXCEPT !.pc = "assign", !.known = partner]]
      <3>1. PICK r : r = [req[w] EXCEPT !.pc = "assign", !.known = partner]
        OBVIOUS
      <3>2. r.pc = "assign" /\ r.kind = req[w].kind /\ r.to = req[w].to /\ r.at = req[w].at
        BY <3>1 DEF TypeOK, Request
      <3>3. req'[w] = r /\ \A v \in Workers : v # w => req'[v] = req[v]
        BY <2>2, <3>1 DEF TypeOK
      <3>4. QED
        BY <3>2, <3>3 DEF GoesOn
    <2>3. QED
      BY <1>7, <2>1, <2>2 DEF TellPartner
  <1>8. CASE Assign(w)
    <2>1. CASE Goto(w, "idle")
      BY <1>1, <2>1
    <2>2. CASE \E d \in Partners : req' = [req EXCEPT ![w].pc = "tellAssigned", ![w].known = d]
      BY <2>2, AssignedType DEF GoesOn
    <2>3. QED
      BY <1>8, <2>1, <2>2 DEF Assign
  <1>9. QED
    BY <1>2, <1>3, <1>4, <1>5, <1>6, <1>7, <1>8 DEF Step

LEMMA KindedBegins ==
    ASSUME TypeOK, Kinded, NEW w \in Workers, NEW r \in Request, Begin(w, r), Begun(r), UNCHANGED partner
    PROVE  Kinded'
  <1>1. req'[w] = r /\ \A v \in Workers : v # w => req'[v] = req[v]
    BY BeginType
  <1>2. SUFFICES ASSUME NEW v \in Workers
                 PROVE  /\ req'[v].pc = "idle" => req'[v] = Idle
                        /\ req'[v].pc \in {"save", "log", "readOrder", "saveAssignment"} => Moving(v)'
                        /\ req'[v].pc = "emit" => Moving(v)' \/ req'[v].kind = "place"
                        /\ req'[v].pc \in {"savePosition", "emitPosition"} => req'[v].kind = "report"
                        /\ req'[v].pc = "saveAssignment" => req'[v].to \in Confirming
                        /\ req'[v].kind = "place" => req'[v].to = PENDING
                        /\ Locating(v)' => partner' # None
    BY DEF Kinded
  <1>3. CASE v = w
    BY <1>1, <1>3 DEF Begun, Moving, Locating
  <1>4. CASE v # w
    BY <1>1, <1>4 DEF Kinded, Moving, Locating
  <1>5. QED
    BY <1>3, <1>4

LEMMA KindedGoes ==
    ASSUME TypeOK, Kinded, NEW w \in Workers, GoesOn(w), partner # None => partner' # None
    PROVE  Kinded'
  <1>1. SUFFICES ASSUME NEW v \in Workers
                 PROVE  /\ req'[v].pc = "idle" => req'[v] = Idle
                        /\ req'[v].pc \in {"save", "log", "readOrder", "saveAssignment"} => Moving(v)'
                        /\ req'[v].pc = "emit" => Moving(v)' \/ req'[v].kind = "place"
                        /\ req'[v].pc \in {"savePosition", "emitPosition"} => req'[v].kind = "report"
                        /\ req'[v].pc = "saveAssignment" => req'[v].to \in Confirming
                        /\ req'[v].kind = "place" => req'[v].to = PENDING
                        /\ Locating(v)' => partner' # None
    BY DEF Kinded
  <1>2. CASE v # w
    BY <1>2 DEF Kinded, GoesOn, Moving, Locating
  <1>3. CASE v = w /\ req'[w] = Idle
    BY <1>3, IdleFacts DEF Moving, Locating
  <1>4. CASE v = w /\ req'[w] # Idle
    BY <1>4 DEF Kinded, GoesOn, Moving, Locating
  <1>5. QED
    BY <1>2, <1>3, <1>4

\* A request that writes what another one is writing is noticed.
LEMMA BeginsApart ==
    ASSUME NEW w \in Workers, NEW r \in Request, Begin(w, r)
    PROVE  /\ met \subseteq met'
           /\ "order" \notin met' /\ r.kind = "move" => \A v \in Workers : ~Moving(v)
           /\ "assignment" \notin met' /\ (r.kind = "report" \/ r.to \in Confirming)
                 => \A v \in Workers : ~Locating(v)
  <1>1. met' = met \cup UNION {Writes(r) \cap Writes(req[v]) : v \in Workers}
    BY DEF Begin
  <1>2. ASSUME NEW v \in Workers, r.kind = "move", Moving(v)
        PROVE  "order" \in met'
    <2>1. "order" \in Writes(r) /\ "order" \in Writes(req[v])
      BY <1>2 DEF Writes, Moving
    <2>2. QED
      BY <1>1, <2>1
  <1>3. ASSUME NEW v \in Workers, r.kind = "report" \/ r.to \in Confirming, Locating(v)
        PROVE  "assignment" \in met'
    <2>1. "assignment" \in Writes(r) /\ "assignment" \in Writes(req[v])
      BY <1>3 DEF Writes, Locating
    <2>2. QED
      BY <1>1, <2>1
  <1>4. QED
    BY <1>1, <1>2, <1>3

\* A request that begins has neither saved nor said anything.
LEMMA ScreenBegins ==
    ASSUME IInv, ScreenInv, NEW w \in Workers, Arrive(w)
    PROVE  ScreenInv'
  <1>1. TypeOK
    BY DEF IInv
  <1>2. PICK r \in Request : Begin(w, r) /\ Begun(r)
    BY <1>1, ArrivesAs
  <1>3. UNCHANGED <<status, partner, position, reached, joined, screen, cut>>
    BY DEF Arrive, PlaceOrder, MoveOrder, Confirm, AcceptBid, ReportPosition, table, told
  <1>4. Kinded'
    BY <1>1, <1>2, <1>3, KindedBegins DEF ScreenInv
  <1>5. req'[w] = r /\ req[w].pc = "idle" /\ \A v \in Workers : v # w => req'[v] = req[v]
    BY <1>1, <1>2, BeginType
  <1>6. /\ met \subseteq met'
        /\ "order" \notin met' /\ r.kind = "move" => \A v \in Workers : ~Moving(v)
        /\ "assignment" \notin met' /\ (r.kind = "report" \/ r.to \in Confirming)
              => \A v \in Workers : ~Locating(v)
    BY <1>2, BeginsApart
  <1>7. StatusShown'
    <2>1. status' \in reached' /\ (~joined' => screen' = Blank)
      BY <1>3 DEF ScreenInv, StatusShown
    <2>2. \A v \in Workers : Saying(v)' <=> Saying(v)
      BY <1>2, <1>5 DEF Saying, Moving, Begun
    <2>3. \A v \in Workers : Saying(v) => v # w
      BY <1>5 DEF Saying
    <2>4. ASSUME "order" \notin met'
          PROVE  /\ \A v, x \in Workers : Moving(v)' /\ Moving(x)' => v = x
                 /\ \A v \in Workers : Saying(v)' => status' = req'[v].to
                 /\ ~cut' => screen'.status \in {None, status'} \/ \E v \in Workers : Saying(v)'
      <3>1. "order" \notin met
        BY <1>6, <2>4
      <3>2. \A v, x \in Workers : Moving(v)' /\ Moving(x)' => v = x
        BY <1>5, <1>6, <2>4, <3>1 DEF ScreenInv, StatusShown, Moving
      <3>3. \A v \in Workers : Saying(v)' => status' = req'[v].to
        BY <1>3, <1>5, <2>2, <2>3, <3>1 DEF ScreenInv, StatusShown
      <3>4. ~cut' => screen'.status \in {None, status'} \/ \E v \in Workers : Saying(v)'
        BY <1>3, <2>2, <3>1 DEF ScreenInv, StatusShown
      <3>5. QED
        BY <3>2, <3>3, <3>4
    <2>5. QED
      BY <2>1, <2>4 DEF StatusShown
  <1>8. PositionShown'
    <2>1. SUFFICES ASSUME "assignment" \notin met'
                   PROVE  /\ \A v, x \in Workers : Locating(v)' /\ Locating(x)' => v = x
                          /\ \A v \in Workers : req'[v].pc \in Locates => req'[v].at = position'
                          /\ ~cut' => \/ screen'.at \in {None, position'}
                                      \/ \E v \in Workers : req'[v].pc = "emitPosition"
      BY DEF PositionShown
    <2>2. "assignment" \notin met
      BY <1>6, <2>1
    <2>3. \A v, x \in Workers : Locating(v)' /\ Locating(x)' => v = x
      BY <1>5, <1>6, <2>1, <2>2 DEF ScreenInv, PositionShown, Locating
    <2>4. \A v \in Workers : req'[v].pc \in Locates => req'[v].at = position'
      BY <1>2, <1>3, <1>5, <2>2 DEF ScreenInv, PositionShown, Locates, Begun
    <2>5. ~cut' => screen'.at \in {None, position'} \/ \E v \in Workers : req'[v].pc = "emitPosition"
      BY <1>3, <1>5, <2>2 DEF ScreenInv, PositionShown
    <2>6. QED
      BY <2>3, <2>4, <2>5
  <1>9. QED
    BY <1>4, <1>7, <1>8 DEF ScreenInv

\* Going on, no request comes to write what it did not.
LEMMA StillOne ==
    ASSUME NEW w \in Workers, GoesOn(w)
    PROVE  \A v \in Workers : (Moving(v)' => Moving(v)) /\ (Locating(v)' => Locating(v))
  BY IdleFacts DEF GoesOn, Moving, Locating

\* A request that does not save the order, and says nothing of it.
LEMMA StatusStays ==
    ASSUME StatusShown, NEW w \in Workers, GoesOn(w),
           UNCHANGED <<status, reached, joined, met>>,
           ~joined => screen' = screen, screen'.status = screen.status,
           req[w].pc # "save" \/ req'[w] = Idle,
           cut' \/ (~cut /\ ~Saying(w)) \/ (~cut /\ Saying(w)')
    PROVE  StatusShown'
  <1>1. \A v \in Workers : Saying(v)' => Saying(v) /\ req'[v].to = req[v].to
    <2>1. SUFFICES ASSUME NEW v \in Workers, Saying(v)'
                   PROVE  Saying(v) /\ req'[v].to = req[v].to
      OBVIOUS
    <2>2. CASE v # w
      BY <2>1, <2>2 DEF GoesOn, Saying, Moving
    <2>3. CASE v = w
      <3>1. req'[w] # Idle
        BY <2>1, <2>3, IdleFacts DEF Saying, Moving
      <3>2. QED
        BY <2>1, <2>3, <3>1 DEF GoesOn, Saying, Moving
    <2>4. QED
      BY <2>2, <2>3
  <1>2. status' \in reached' /\ (~joined' => screen' = Blank)
    BY DEF StatusShown
  <1>3. ASSUME "order" \notin met'
        PROVE  /\ \A v, x \in Workers : Moving(v)' /\ Moving(x)' => v = x
               /\ \A v \in Workers : Saying(v)' => status' = req'[v].to
               /\ ~cut' => screen'.status \in {None, status'} \/ \E v \in Workers : Saying(v)'
    <2>1. \A v, x \in Workers : Moving(v)' /\ Moving(x)' => v = x
      BY <1>3, StillOne DEF StatusShown
    <2>2. \A v \in Workers : Saying(v)' => status' = req'[v].to
      BY <1>1, <1>3 DEF StatusShown
    <2>3. ASSUME ~cut', NEW v \in Workers, Saying(v)
          PROVE  \E x \in Workers : Saying(x)'
      <3>1. CASE v = w
        BY <2>3, <3>1
      <3>2. CASE v # w
        BY <2>3, <3>2 DEF GoesOn, Saying, Moving
      <3>3. QED
        BY <3>1, <3>2
    <2>4. ~cut' => screen'.status \in {None, status'} \/ \E v \in Workers : Saying(v)'
      BY <1>3, <2>3 DEF StatusShown
    <2>5. QED
      BY <2>1, <2>2, <2>4
  <1>4. QED
    BY <1>2, <1>3 DEF StatusShown

LEMMA StatusSaved ==
    ASSUME TypeOK, Kinded, StatusShown, NEW w \in Workers, SaveOrder(w)
    PROVE  StatusShown'
  <1>1. /\ req[w].pc = "save" /\ status' = req[w].to /\ reached' = reached \cup {req[w].to}
        /\ UNCHANGED <<joined, screen, met, cut>>
    BY DEF SaveOrder, told, past
  <1>2. /\ \A v \in Workers : v # w => req'[v] = req[v]
        /\ req'[w].pc = "log" /\ req'[w].kind = req[w].kind /\ req'[w].to = req[w].to
    BY GotoType DEF SaveOrder, PCs
  <1>3. Moving(w) /\ Saying(w)'
    BY <1>1, <1>2 DEF Kinded, Moving, Saying
  <1>4. status' \in reached' /\ (~joined' => screen' = Blank)
    BY <1>1 DEF StatusShown
  <1>5. ASSUME "order" \notin met'
        PROVE  /\ \A v, x \in Workers : Moving(v)' /\ Moving(x)' => v = x
               /\ \A v \in Workers : Saying(v)' => status' = req'[v].to
    <2>1. \A v, x \in Workers : Moving(v)' /\ Moving(x)' => v = x
      BY <1>1, <1>2, <1>5 DEF StatusShown, Moving
    <2>2. \A v \in Workers : Saying(v)' => v = w
      BY <1>3, <2>1 DEF Saying
    <2>3. QED
      BY <1>1, <1>2, <2>1, <2>2
  <1>6. QED
    BY <1>3, <1>4, <1>5 DEF StatusShown

\* What is said has been saved, unless it is a new order, which is still new.
LEMMA StatusSaid ==
    ASSUME IInv, Kinded, StatusShown, NEW w \in Workers, EmitStatus(w)
    PROVE  StatusShown'
  <1>1. /\ req[w].pc = "emit" /\ UNCHANGED <<status, reached, joined, met, cut>>
        /\ screen' = IF joined THEN [screen EXCEPT !.status = req[w].to] ELSE screen
    BY DEF EmitStatus, table, past
  <1>2. TypeOK /\ Unseen
    BY DEF IInv
  <1>3. /\ \A v \in Workers : v # w => req'[v] = req[v]
        /\ req'[w].pc = "tellBuyer" /\ req'[w].kind = req[w].kind
    BY <1>2, GotoType DEF EmitStatus, PCs
  <1>4. status' \in reached' /\ (~joined' => screen' = Blank)
    BY <1>1 DEF StatusShown
  <1>5. ASSUME "order" \notin met'
        PROVE  /\ \A v, x \in Workers : Moving(v)' /\ Moving(x)' => v = x
               /\ \A v \in Workers : Saying(v)' => status' = req'[v].to
               /\ screen'.status \in {None, status'}
    <2>1. \A v, x \in Workers : Moving(v)' /\ Moving(x)' => v = x
      BY <1>1, <1>3, <1>5 DEF StatusShown, Moving
    <2>2. \A v \in Workers : Saying(v)' => Saying(v) /\ req'[v] = req[v]
      BY <1>3 DEF Saying, Moving
    <2>3. \A v \in Workers : Saying(v)' => status' = req'[v].to
      BY <1>1, <1>5, <2>2 DEF StatusShown
    <2>4. status = req[w].to
      <3>1. CASE Moving(w)
        BY <1>1, <1>5, <3>1 DEF StatusShown, Saying
      <3>2. CASE req[w].kind = "place"
        BY <1>1, <1>2, <3>2 DEF StatusShown, Unseen, Kinded
      <3>3. QED
        BY <1>1, <3>1, <3>2 DEF Kinded
    <2>5. screen'.status \in {None, status'}
      <3>1. CASE joined
        BY <1>1, <1>2, <2>4, <3>1 DEF TypeOK
      <3>2. CASE ~joined
        BY <1>1, <3>2 DEF StatusShown, Blank
      <3>3. QED
        BY <3>1, <3>2
    <2>6. QED
      BY <2>1, <2>3, <2>5
  <1>6. QED
    BY <1>4, <1>5 DEF StatusShown

\* A request that leaves the position where it is, and says nothing of it.
LEMMA PositionStays ==
    ASSUME PositionShown, NEW w \in Workers, GoesOn(w), UNCHANGED met, screen'.at = screen.at,
           "assignment" \notin met => position' = position,
           req'[w].pc # "emitPosition", cut' \/ (~cut /\ req[w].pc # "emitPosition")
    PROVE  PositionShown'
  <1>1. SUFFICES ASSUME "assignment" \notin met'
                 PROVE  /\ \A v, x \in Workers : Locating(v)' /\ Locating(x)' => v = x
                        /\ \A v \in Workers : req'[v].pc \in Locates => req'[v].at = position'
                        /\ ~cut' => \/ screen'.at \in {None, position'}
                                    \/ \E v \in Workers : req'[v].pc = "emitPosition"
    BY DEF PositionShown
  <1>2. position' = position
    BY <1>1
  <1>3. \A v, x \in Workers : Locating(v)' /\ Locating(x)' => v = x
    BY <1>1, StillOne DEF PositionShown
  <1>4. \A v \in Workers : v # w => req'[v] = req[v]
    BY DEF GoesOn
  <1>5. req'[w].pc \notin Locates
    BY IdleFacts DEF GoesOn, Locates
  <1>6. \A v \in Workers : req'[v].pc \in Locates => req'[v].at = position'
    BY <1>1, <1>2, <1>4, <1>5 DEF PositionShown
  <1>7. ~cut' => screen'.at \in {None, position'} \/ \E v \in Workers : req'[v].pc = "emitPosition"
    BY <1>1, <1>2, <1>4 DEF PositionShown
  <1>8. QED
    BY <1>3, <1>6, <1>7

LEMMA PositionSaved ==
    ASSUME TypeOK, Kinded, PositionShown, NEW w \in Workers, SavePosition(w)
    PROVE  PositionShown'
  <1>1. /\ req[w].pc = "savePosition" /\ position' = req[w].at
        /\ UNCHANGED <<screen, met, cut>>
    BY DEF SavePosition, told, past
  <1>2. /\ \A v \in Workers : v # w => req'[v] = req[v]
        /\ req'[w].pc = "emitPosition" /\ req'[w].at = req[w].at
        /\ req'[w].kind = req[w].kind /\ req'[w].to = req[w].to
    BY GotoType DEF SavePosition, PCs
  <1>3. SUFFICES ASSUME "assignment" \notin met'
                 PROVE  /\ \A v, x \in Workers : Locating(v)' /\ Locating(x)' => v = x
                        /\ \A v \in Workers : req'[v].pc \in Locates => req'[v].at = position'
    BY <1>2 DEF PositionShown
  <1>4. \A v, x \in Workers : Locating(v)' /\ Locating(x)' => v = x
    BY <1>1, <1>2, <1>3 DEF PositionShown, Locating
  <1>5. \A v \in Workers : v # w => req[v].pc \notin Locates
    BY <1>1, <1>3 DEF PositionShown, Kinded, Locating, Locates
  <1>6. QED
    BY <1>1, <1>2, <1>4, <1>5

LEMMA PositionSaid ==
    ASSUME TypeOK, Kinded, StatusShown, PositionShown, NEW w \in Workers, EmitPosition(w)
    PROVE  PositionShown'
  <1>1. /\ req[w].pc = "emitPosition" /\ UNCHANGED <<position, met, cut>>
        /\ screen' = IF joined THEN [screen EXCEPT !.at = req[w].at] ELSE screen
    BY DEF EmitPosition, table, past
  <1>2. /\ \A v \in Workers : v # w => req'[v] = req[v]
        /\ req'[w] = Idle
    BY GotoType DEF EmitPosition, PCs
  <1>3. SUFFICES ASSUME "assignment" \notin met'
                 PROVE  /\ \A v, x \in Workers : Locating(v)' /\ Locating(x)' => v = x
                        /\ \A v \in Workers : req'[v].pc \in Locates => req'[v].at = position'
                        /\ screen'.at \in {None, position'}
    BY DEF PositionShown
  <1>4. \A v, x \in Workers : Locating(v)' /\ Locating(x)' => v = x
    BY <1>1, <1>2, <1>3, IdleFacts DEF PositionShown, Locating
  <1>5. \A v \in Workers : req'[v].pc \in Locates => req'[v].at = position'
    BY <1>1, <1>2, <1>3, IdleFacts DEF PositionShown, Locates
  <1>6. req[w].at = position
    BY <1>1, <1>3 DEF PositionShown, Locates
  <1>7. screen'.at \in {None, position'}
    <2>1. CASE joined
      BY <1>1, <1>6, <2>1 DEF TypeOK
    <2>2. CASE ~joined
      BY <1>1, <2>2 DEF StatusShown, Blank
    <2>3. QED
      BY <2>1, <2>2
  <1>8. QED
    BY <1>4, <1>5, <1>7

LEMMA PartnerSet ==
    ASSUME NEW w \in Workers, Step(w) \/ Fail(w)
    PROVE  partner # None => partner' = partner
  BY DEF Step, CommitOrder, SaveAssignment, ReadOrder, SaveOrder, LogStatus, EmitStatus, TellBuyer,
         TellSeller, TellPartner, Assign, TellAssigned, SavePosition, EmitPosition, Fail, table

LEMMA ScreenGoesOn ==
    ASSUME IInv, ScreenInv, NEW w \in Workers, Step(w) \/ Fail(w)
    PROVE  ScreenInv'
  <1>1. TypeOK /\ Kinded /\ StatusShown /\ PositionShown
    BY DEF IInv, ScreenInv
  <1>2. GoesOn(w)
    BY <1>1, StepGoesOn
  <1>3. Kinded'
    BY <1>1, <1>2, PartnerSet, KindedGoes
  <1>4. CASE Fail(w)
    <2>1. /\ UNCHANGED <<status, reached, joined, screen, position, met>> /\ cut'
          /\ req'[w] = Idle
      BY <1>1, <1>4, GotoType DEF Fail, PCs
    <2>2. StatusShown'
      BY <1>1, <1>2, <2>1, StatusStays
    <2>3. PositionShown'
      BY <1>1, <1>2, <2>1, IdleFacts, PositionStays
    <2>4. QED
      BY <1>3, <2>2, <2>3 DEF ScreenInv
  <1>5. CASE SaveOrder(w)
    <2>1. UNCHANGED <<screen, position, met, cut>> /\ req[w].pc = "save" /\ req'[w].pc = "log"
      BY <1>1, <1>5, GotoType DEF SaveOrder, told, past, PCs
    <2>2. PositionShown'
      BY <1>1, <1>2, <2>1, PositionStays
    <2>3. StatusShown'
      BY <1>1, <1>5, StatusSaved
    <2>4. QED
      BY <1>3, <2>2, <2>3 DEF ScreenInv
  <1>6. CASE EmitStatus(w)
    <2>1. UNCHANGED <<position, met, cut>> /\ req[w].pc = "emit" /\ req'[w].pc = "tellBuyer"
      BY <1>1, <1>6, GotoType DEF EmitStatus, table, past, PCs
    <2>2. screen'.at = screen.at
      BY <1>1, <1>6 DEF EmitStatus, TypeOK
    <2>3. PositionShown'
      BY <1>1, <1>2, <2>1, <2>2, PositionStays
    <2>4. StatusShown'
      BY <1>1, <1>6, StatusSaid
    <2>5. QED
      BY <1>3, <2>3, <2>4 DEF ScreenInv
  <1>7. CASE SavePosition(w)
    <2>1. UNCHANGED <<status, reached, joined, screen, met, cut>> /\ req[w].pc = "savePosition"
      BY <1>7 DEF SavePosition, told, past
    <2>2. StatusShown'
      BY <1>1, <1>2, <2>1, StatusStays DEF Saying
    <2>3. PositionShown'
      BY <1>1, <1>7, PositionSaved
    <2>4. QED
      BY <1>3, <2>2, <2>3 DEF ScreenInv
  <1>8. CASE EmitPosition(w)
    <2>1. UNCHANGED <<status, reached, joined, met, cut>> /\ req[w].pc = "emitPosition"
      BY <1>8 DEF EmitPosition, table, past
    <2>2. (~joined => screen' = screen) /\ screen'.status = screen.status
      BY <1>1, <1>8 DEF EmitPosition, TypeOK
    <2>3. StatusShown'
      BY <1>1, <1>2, <2>1, <2>2, StatusStays DEF Saying
    <2>4. PositionShown'
      BY <1>1, <1>8, PositionSaid
    <2>5. QED
      BY <1>3, <2>3, <2>4 DEF ScreenInv
  <1>9. CASE SaveAssignment(w)
    <2>1. /\ UNCHANGED <<status, reached, joined, screen, met, cut>>
          /\ req[w].pc = "saveAssignment" /\ position' = req[w].at /\ req'[w].pc = "readOrder"
      BY <1>1, <1>9, GotoType DEF SaveAssignment, told, past, PCs
    <2>2. StatusShown'
      BY <1>1, <1>2, <2>1, StatusStays DEF Saying
    <2>3. "assignment" \notin met => position' = position
      BY <1>1, <2>1 DEF PositionShown, Locates
    <2>4. PositionShown'
      BY <1>1, <1>2, <2>1, <2>3, PositionStays
    <2>5. QED
      BY <1>3, <2>2, <2>4 DEF ScreenInv
  <1>10. CASE LogStatus(w)
    <2>1. /\ UNCHANGED <<status, reached, joined, screen, position, met, cut>>
          /\ req[w].pc = "log" /\ req'[w].pc = "emit" /\ req'[w].kind = req[w].kind
      BY <1>1, <1>10, GotoType DEF LogStatus, told, past, PCs
    <2>2. Saying(w) => Saying(w)'
      BY <2>1 DEF Saying, Moving
    <2>3. StatusShown'
      BY <1>1, <1>2, <2>1, <2>2, StatusStays
    <2>4. PositionShown'
      BY <1>1, <1>2, <2>1, PositionStays
    <2>5. QED
      BY <1>3, <2>3, <2>4 DEF ScreenInv
  <1>11. CASE CommitOrder(w) \/ ReadOrder(w) \/ TellBuyer(w) \/ TellSeller(w) \/ TellPartner(w)
                 \/ Assign(w) \/ TellAssigned(w)
    <2>1. /\ UNCHANGED <<status, reached, joined, screen, position, met, cut>>
          /\ req[w].pc \in {"commit", "readOrder", "tellBuyer", "tellSeller", "tellPartner",
                            "assign", "tellAssigned"}
      BY <1>11 DEF CommitOrder, ReadOrder, TellBuyer, TellSeller, TellPartner, Assign, TellAssigned,
                   table, told, past
    <2>2. req'[w].pc # "emitPosition"
      BY <1>2, <2>1, IdleFacts DEF GoesOn
    <2>3. StatusShown'
      BY <1>1, <1>2, <2>1, StatusStays DEF Saying
    <2>4. PositionShown'
      BY <1>1, <1>2, <2>1, <2>2, PositionStays
    <2>5. QED
      BY <1>3, <2>3, <2>4 DEF ScreenInv
  <1>12. QED
    BY <1>4, <1>5, <1>6, <1>7, <1>8, <1>9, <1>10, <1>11 DEF Step

\* Whoever subscribes late, or again, has been told nothing yet.
LEMMA ScreenComesAndGoes ==
    ASSUME ScreenInv, Subscribe \/ Unsubscribe \/ UNCHANGED vars
    PROVE  ScreenInv'
  <1>1. /\ UNCHANGED <<partner, status, reached, position, req, met, cut>>
        /\ screen' \in {screen, Blank} /\ (~joined' => screen' = Blank)
    BY DEF Subscribe, Unsubscribe, table, past, vars, ScreenInv, StatusShown
  <1>2. Kinded'
    BY <1>1 DEF ScreenInv, Kinded, Moving, Locating
  <1>3. \A v \in Workers : (Saying(v)' <=> Saying(v)) /\ (Moving(v)' <=> Moving(v))
                             /\ (Locating(v)' <=> Locating(v))
    BY <1>1 DEF Saying, Moving, Locating
  <1>4. Blank.status = None /\ Blank.at = None
    BY DEF Blank
  <1>5. StatusShown'
    BY <1>1, <1>3, <1>4 DEF ScreenInv, StatusShown
  <1>6. PositionShown'
    BY <1>1, <1>3, <1>4 DEF ScreenInv, PositionShown
  <1>7. QED
    BY <1>2, <1>5, <1>6 DEF ScreenInv

LEMMA ScreenStart == Init => ScreenInv
  <1> SUFFICES ASSUME Init PROVE ScreenInv
    OBVIOUS
  <1>1. \A w \in Workers : req[w] = Idle
    BY DEF Init
  <1>2. \A w \in Workers : ~Moving(w) /\ ~Saying(w) /\ ~Locating(w)
    BY <1>1, IdleFacts DEF Moving, Saying, Locating
  <1>3. Kinded
    BY <1>1, <1>2, IdleFacts DEF Kinded
  <1>4. StatusShown
    BY <1>2 DEF StatusShown, Init, Blank
  <1>5. PositionShown
    BY <1>1, <1>2, IdleFacts DEF PositionShown, Init, Blank, Locates
  <1>6. QED
    BY <1>3, <1>4, <1>5 DEF ScreenInv

\* What a subscriber was told last is what the tables say, when nobody is at
\* work and no two requests have met on the same row: emit_order_update follows
\* the write, and a position is confirmed as it was read.
THEOREM SubscribersFollow == Spec => []ScreenFollows
  <1>1. IInv /\ ScreenInv /\ [Next]_vars => ScreenInv'
    BY ScreenBegins, ScreenGoesOn, ScreenComesAndGoes DEF Next
  <1>2. IInv /\ ScreenInv => ScreenFollows
    <2>1. SUFFICES ASSUME ScreenInv, Quiet, ~cut
                   PROVE  /\ "order" \notin met => screen.status \in {None, status}
                          /\ "assignment" \notin met => screen.at \in {None, position}
      BY DEF ScreenFollows
    <2>2. \A w \in Workers : ~Saying(w) /\ req[w].pc # "emitPosition"
      BY <2>1 DEF Quiet, Saying
    <2>3. QED
      BY <2>1, <2>2 DEF ScreenInv, StatusShown, PositionShown
  <1>3. QED
    BY <1>1, <1>2, ScreenStart, Invariance, PTL DEF Spec

-----------------------------------------------------------------------------
(* That nobody is forgotten                                                *)

SellerHears == {PENDING, OUT_FOR_DELIVERY, DELIVERED, CANCELLED}

\* Whom a status concerns, among those that STATUS_COPY names for it: a partner
\* may be assigned after the order was ready, but not after it was delivered.
Hears(u, s) == \/ u = "buyer"
               \/ u = "seller" /\ s \in SellerHears
               \/ u \in Partners /\ u = partner /\ s = DELIVERED

\* Unless a request has been cut short, whom a status concerns has been told of
\* it as often as it was logged, or some request still has to tell.
Settled == ~cut => \A u \in Users, s \in OrderStatus :
                       Hears(u, s) => inbox[u][s] + Cardinality(Owing(u, s)) = logged[s]

\* Nobody but the partner is told anything, and of the assignment by the one
\* request that made it.
Naming(w) == req[w].pc = "tellAssigned"
AssignmentTold ==
    /\ \A v, w \in Workers : Naming(v) /\ Naming(w) => v = w
    /\ \A w \in Workers : Naming(w) => req[w].known = partner /\ partner # None
    /\ \A d \in Partners : d # partner => inbox[d] = [t \in Topics |-> 0]
    /\ ~cut => \A d \in Partners :
                   d = partner => inbox[d]["assigned"] = (IF \E w \in Workers : Naming(w) THEN 0 ELSE 1)

CarriedFirst == partner = None => logged[DELIVERED] = 0

ToldInv == Settled /\ AssignmentTold /\ CarriedFirst

\* What a statement of w does to u's account of s: nothing, an entry that is yet
\* to be told, or a notification.
Balanced(w, u, s) ==
    \/ /\ inbox'[u][s] = inbox[u][s] /\ logged'[s] = logged[s]
       /\ w \in Owing(u, s)' <=> w \in Owing(u, s)
    \/ /\ inbox'[u][s] = inbox[u][s] /\ logged'[s] = logged[s] + 1
       /\ w \in Owing(u, s)' /\ w \notin Owing(u, s)
    \/ /\ inbox'[u][s] = inbox[u][s] + 1 /\ logged'[s] = logged[s]
       /\ w \notin Owing(u, s)' /\ w \in Owing(u, s)

LEMMA BalanceKept ==
    ASSUME TypeOK, NEW w \in Workers, NEW u \in Users, NEW s \in OrderStatus, Balanced(w, u, s),
           \A v \in Workers : v # w => req'[v] = req[v],
           inbox[u][s] + Cardinality(Owing(u, s)) = logged[s]
    PROVE  inbox'[u][s] + Cardinality(Owing(u, s)') = logged'[s]
  <1>1. PICK S, T : S = Owing(u, s) /\ T = Owing(u, s)'
    OBVIOUS
  <1>2. IsFiniteSet(S) /\ IsFiniteSet(T) /\ Cardinality(S) \in Nat /\ Cardinality(T) \in Nat
    BY <1>1, NotifyAssumption, FS_Subset, FS_CardinalityType DEF Owing
  <1>3. S \subseteq Workers /\ T \subseteq Workers /\ \A v \in Workers : v # w => (v \in S <=> v \in T)
    BY <1>1 DEF Owing
  <1>4. s \in Topics /\ inbox[u][s] \in Nat /\ logged[s] \in Nat
    BY UserFacts DEF TypeOK
  <1>5. CASE w \in S <=> w \in T
    <2>1. S = T
      BY <1>3, <1>5
    <2>2. QED
      BY <1>1, <1>4, <1>5, <2>1 DEF Balanced
  <1>6. CASE w \in T /\ w \notin S
    <2>1. T = S \cup {w}
      BY <1>3, <1>6
    <2>2. Cardinality(T) = Cardinality(S) + 1
      BY <1>2, <1>6, <2>1, FS_AddElement
    <2>3. QED
      BY <1>1, <1>2, <1>4, <1>6, <2>2 DEF Balanced
  <1>7. CASE w \in S /\ w \notin T
    <2>1. T = S \ {w}
      BY <1>3, <1>7
    <2>2. Cardinality(T) = Cardinality(S) - 1
      BY <1>2, <1>7, <2>1, FS_RemoveElement
    <2>3. QED
      BY <1>1, <1>2, <1>4, <1>7, <2>2 DEF Balanced
  <1>8. QED
    BY <1>5, <1>6, <1>7

LEMMA SettledStep ==
    ASSUME TypeOK, Settled, NEW w \in Workers, cut' = cut,
           \A v \in Workers : v # w => req'[v] = req[v],
           \A u \in Users, s \in OrderStatus : Hears(u, s)' => Hears(u, s) /\ Balanced(w, u, s)
    PROVE  Settled'
  <1>1. SUFFICES ASSUME ~cut, NEW u \in Users, NEW s \in OrderStatus, Hears(u, s)'
                 PROVE  inbox'[u][s] + Cardinality(Owing(u, s)') = logged'[s]
    BY DEF Settled
  <1>2. Balanced(w, u, s) /\ inbox[u][s] + Cardinality(Owing(u, s)) = logged[s]
    BY <1>1 DEF Settled
  <1>3. QED
    BY <1>2, BalanceKept

\* A request that has nothing to tell, before and after, or not yet.
LEMMA SettledQuiet ==
    ASSUME TypeOK, Settled, NEW w \in Workers, UNCHANGED <<cut, partner, logged>>,
           \A v \in Workers : v # w => req'[v] = req[v],
           \A u \in Users, s \in OrderStatus : inbox'[u][s] = inbox[u][s],
           \/ req[w].pc \notin Telling /\ req'[w].pc \notin Telling
           \/ req[w].pc = "emit" /\ req'[w].pc = "tellBuyer" /\ req'[w].to = req[w].to
    PROVE  Settled'
  <1>1. ASSUME NEW u \in Users, NEW s \in OrderStatus, Hears(u, s)'
        PROVE  Hears(u, s) /\ Balanced(w, u, s)
    <2>1. Hears(u, s)
      BY <1>1 DEF Hears
    <2>2. w \in Owing(u, s)' <=> w \in Owing(u, s)
      BY DEF Owing, StillToTell, Telling
    <2>3. QED
      BY <2>1, <2>2 DEF Balanced
  <1>2. QED
    BY <1>1, SettledStep

\* A request that has logged t and begins to tell it.
LEMMA SettledLogged ==
    ASSUME TypeOK, Settled, NEW w \in Workers, NEW t \in OrderStatus, UNCHANGED <<cut, partner, inbox>>,
           \A v \in Workers : v # w => req'[v] = req[v],
           \A s \in OrderStatus : logged'[s] = IF s = t THEN logged[s] + 1 ELSE logged[s],
           req[w].pc \notin Telling, req'[w].pc = "emit", req'[w].to = t
    PROVE  Settled'
  <1>1. ASSUME NEW u \in Users, NEW s \in OrderStatus, Hears(u, s)'
        PROVE  Hears(u, s) /\ Balanced(w, u, s)
    <2>1. Hears(u, s)
      BY <1>1 DEF Hears
    <2>2. w \notin Owing(u, s) /\ (w \in Owing(u, s)' <=> s = t)
      BY DEF Owing, StillToTell, Telling
    <2>3. QED
      BY <2>1, <2>2 DEF Balanced
  <1>2. QED
    BY <1>1, SettledStep

LEMMA CopyRoles ==
    /\ \A s \in SellerHears : "seller" \in Copy(s)
    /\ "delivery" \in Copy(DELIVERED) /\ DELIVERED \in SellerHears
    /\ DELIVERED # READY_FOR_PICKUP /\ DELIVERED \in Confirming
  BY DEF SellerHears, Copy, Confirming, DELIVERED, READY_FOR_PICKUP

LEMMA SettledTold ==
    ASSUME IInv, Settled, NEW w \in Workers, TellBuyer(w) \/ TellSeller(w)
    PROVE  Settled'
  <1>1. TypeOK /\ req[w].to \in OrderStatus /\ req[w].to \in Topics
    BY UserFacts DEF IInv, TypeOK, Request
  <1>2. UNCHANGED <<cut, partner, logged>>
    BY DEF TellBuyer, TellSeller, table, past
  <1>3. GoesOn(w) /\ \A v \in Workers : v # w => req'[v] = req[v]
    BY <1>1, StepGoesOn DEF Step, GoesOn
  <1>4. PICK u0 \in {"buyer", "seller"} :
           /\ Send(u0, req[w].to) /\ u0 \in Users
           /\ req[w].pc = IF u0 = "buyer" THEN "tellBuyer" ELSE "tellSeller"
    BY UserFacts DEF TellBuyer, TellSeller
  <1>5. /\ inbox'[u0][req[w].to] = inbox[u0][req[w].to] + 1
        /\ \A v \in Users, x \in Topics : v # u0 \/ x # req[w].to => inbox'[v][x] = inbox[v][x]
    BY <1>1, <1>4, SendType
  <1>6. PICK pc \in {"tellSeller", "tellPartner", "commit", "idle"} :
           /\ Goto(w, pc)
           /\ u0 = "buyer" => pc # "commit" /\ ("seller" \in Copy(req[w].to) => pc = "tellSeller")
           /\ u0 = "seller" => pc # "tellSeller" /\ ("delivery" \in Copy(req[w].to) => pc = "tellPartner")
    BY <1>4 DEF TellBuyer, TellSeller
  <1>7. req'[w].pc = pc /\ (pc # "idle" => req'[w].to = req[w].to)
    BY <1>1, <1>6, GotoType DEF PCs
  <1>8. ASSUME NEW u \in Users, NEW s \in OrderStatus, Hears(u, s)'
        PROVE  Hears(u, s) /\ Balanced(w, u, s)
    <2>1. Hears(u, s) /\ s \in Topics
      BY <1>2, <1>8, UserFacts DEF Hears
    <2>2. CASE u = u0 /\ s = req[w].to
      <3>1. w \in Owing(u, s) /\ w \notin Owing(u, s)'
        BY <1>4, <1>6, <1>7, <2>2 DEF Owing, StillToTell
      <3>2. QED
        BY <1>2, <1>5, <2>1, <2>2, <3>1 DEF Balanced
    <2>3. CASE s # req[w].to
      <3>1. w \notin Owing(u, s) /\ w \notin Owing(u, s)'
        BY <1>6, <1>7, <2>3 DEF Owing, StillToTell
      <3>2. QED
        BY <1>2, <1>5, <2>1, <2>3, <3>1 DEF Balanced
    <2>4. CASE u # u0 /\ s = req[w].to
      <3>1. w \in Owing(u, s)' <=> w \in Owing(u, s)
        <4>1. CASE u0 = "buyer"
          <5>1. "seller" \in Copy(s)
            BY <2>1, <2>4, <4>1, CopyRoles DEF Hears
          <5>2. QED
            BY <1>4, <1>6, <1>7, <2>4, <4>1, <5>1 DEF Owing, StillToTell
        <4>2. CASE u0 = "seller" /\ u = "buyer"
          BY <1>4, <1>6, <1>7, <4>2 DEF Owing, StillToTell
        <4>3. CASE u0 = "seller" /\ u # "buyer"
          <5>1. "delivery" \in Copy(s) /\ u \notin {"buyer", "seller"}
            BY <2>1, <2>4, <4>3, CopyRoles DEF Hears
          <5>2. QED
            BY <1>4, <1>6, <1>7, <2>4, <4>3, <5>1 DEF Owing, StillToTell
        <4>4. QED
          BY <1>4, <4>1, <4>2, <4>3
      <3>2. QED
        BY <1>2, <1>5, <2>1, <2>4, <3>1 DEF Balanced
    <2>5. QED
      BY <2>2, <2>3, <2>4
  <1>9. QED
    BY <1>1, <1>2, <1>3, <1>8, SettledStep

LEMMA SettledPartner ==
    ASSUME IInv, Kinded, Settled, NEW w \in Workers, TellPartner(w)
    PROVE  Settled'
  <1>1. /\ TypeOK /\ req[w].to \in OrderStatus /\ req[w].to \in Topics
        /\ req[w].pc = "tellPartner" /\ UNCHANGED <<cut, partner, logged>>
    BY UserFacts DEF IInv, TypeOK, Request, TellPartner, table, past
  <1>2. GoesOn(w) /\ (\A v \in Workers : v # w => req'[v] = req[v]) /\ req'[w].pc \in {"assign", "idle"}
    <2>1. CASE req' = [req EXCEPT ![w] = Idle]
      BY <1>1, <2>1, IdleFacts, StepGoesOn DEF Step, GoesOn, TypeOK
    <2>2. CASE req' = [req EXCEPT ![w] = [req[w] EXCEPT !.pc = "assign", !.known = partner]]
      <3>1. PICK r : r = [req[w] EXCEPT !.pc = "assign", !.known = partner]
        OBVIOUS
      <3>2. r.pc = "assign"
        BY <1>1, <3>1 DEF TypeOK, Request
      <3>3. QED
        BY <1>1, <2>2, <3>1, <3>2, StepGoesOn DEF Step, GoesOn, TypeOK
    <2>3. QED
      BY <2>1, <2>2 DEF TellPartner
  <1>3. ASSUME NEW u \in Users, NEW s \in OrderStatus, Hears(u, s)'
        PROVE  Hears(u, s) /\ Balanced(w, u, s)
    <2>1. Hears(u, s) /\ s \in Topics
      BY <1>1, <1>3, UserFacts DEF Hears
    <2>2. CASE u \in {"buyer", "seller"}
      <3>1. w \in Owing(u, s)' <=> w \in Owing(u, s)
        BY <1>1, <1>2, <2>2 DEF Owing, StillToTell
      <3>2. inbox'[u][s] = inbox[u][s]
        <4>1. CASE partner = None
          BY <4>1 DEF TellPartner
        <4>2. CASE partner # None
          <5>1. partner \in Users /\ partner # u /\ Send(partner, req[w].to)
            BY <1>1, <2>2, <4>2, UserFacts DEF TellPartner, TypeOK
          <5>2. QED
            BY <1>1, <2>1, <5>1, SendType
        <4>3. QED
          BY <4>1, <4>2
      <3>3. QED
        BY <1>1, <2>1, <3>1, <3>2 DEF Balanced
    <2>3. CASE u \notin {"buyer", "seller"}
      <3>1. u \in Partners /\ u = partner /\ s = DELIVERED
        BY <2>1, <2>3 DEF Hears
      <3>2. partner # None /\ Send(u, req[w].to)
        BY <3>1, NotifyAssumption DEF TellPartner
      <3>3. w \notin Owing(u, s)' /\ (w \in Owing(u, s) <=> s = req[w].to)
        BY <1>1, <1>2, <2>3 DEF Owing, StillToTell
      <3>4. inbox'[u][s] = IF s = req[w].to THEN inbox[u][s] + 1 ELSE inbox[u][s]
        BY <1>1, <2>1, <3>2, SendType
      <3>5. QED
        BY <1>1, <2>1, <3>3, <3>4 DEF Balanced
    <2>4. QED
      BY <2>2, <2>3
  <1>4. QED
    BY <1>1, <1>2, <1>3, SettledStep

\* Whoever becomes the partner has not been told anything, nor has the order
\* been delivered.
LEMMA SettledAssign ==
    ASSUME IInv, Kinded, ToldInv, NEW w \in Workers, Assign(w)
    PROVE  Settled'
  <1>1. /\ TypeOK /\ Settled /\ req[w].pc = "assign" /\ UNCHANGED <<cut, logged, inbox>>
        /\ \A v \in Workers : v # w => req'[v] = req[v]
    BY StepGoesOn DEF IInv, ToldInv, Assign, told, past, Step, GoesOn
  <1>2. req'[w].pc \in {"tellAssigned", "idle"}
    <2>1. CASE Goto(w, "idle")
      BY <1>1, <2>1, GotoType DEF PCs
    <2>2. CASE \E d \in Partners : req' = [req EXCEPT ![w].pc = "tellAssigned", ![w].known = d]
      BY <1>1, <2>2, AssignedType
    <2>3. QED
      BY <2>1, <2>2 DEF Assign
  <1>3. CASE partner' = partner
    BY <1>1, <1>2, <1>3, SettledQuiet DEF Telling
  <1>4. CASE partner' # partner
    <2>1. partner = None
      BY <1>4, PartnerSet DEF Step
    <2>2. SUFFICES ASSUME ~cut, NEW u \in Users, NEW s \in OrderStatus, Hears(u, s)'
                   PROVE  inbox'[u][s] + Cardinality(Owing(u, s)') = logged'[s]
      BY <1>1 DEF Settled
    <2>3. CASE Hears(u, s)
      <3>1. inbox[u][s] + Cardinality(Owing(u, s)) = logged[s]
        BY <1>1, <2>2, <2>3 DEF Settled
      <3>2. Balanced(w, u, s)
        BY <1>1, <1>2 DEF Balanced, Owing, StillToTell
      <3>3. QED
        BY <1>1, <3>1, <3>2, BalanceKept
    <2>4. CASE ~Hears(u, s)
      <3>1. u \in Partners /\ s = DELIVERED
        BY <2>2, <2>4 DEF Hears
      <3>2. u # partner
        BY <2>1, <3>1, NotifyAssumption
      <3>3. inbox'[u][s] = 0
        BY <1>1, <3>1, <3>2, UserFacts DEF ToldInv, AssignmentTold
      <3>4. logged'[s] = 0
        BY <1>1, <2>1, <3>1 DEF ToldInv, CarriedFirst
      <3>5. Owing(u, s)' = {}
        <4>1. ASSUME NEW v \in Owing(u, s)'
              PROVE  FALSE
          <5>1. v # w /\ v \in Workers /\ req[v].to = DELIVERED
            BY <1>1, <1>2, <3>1 DEF Owing, StillToTell
          <5>2. Locating(v)
            BY <5>1, CopyRoles DEF Locating
          <5>3. QED
            BY <2>1, <5>1, <5>2 DEF Kinded
        <4>2. QED
          BY <4>1
      <3>6. Cardinality(Owing(u, s)') = 0
        BY <3>5, FS_EmptySet
      <3>7. QED
        BY <3>3, <3>4, <3>6
    <2>5. QED
      BY <2>3, <2>4
  <1>5. QED
    BY <1>3, <1>4

LEMMA SettledPlaced ==
    ASSUME IInv, Settled, NEW w \in Workers, PlaceOrder(w)
    PROVE  Settled'
  <1>1. /\ TypeOK /\ UNCHANGED <<cut, partner, inbox>> /\ inbox = Empty
        /\ \A v \in Workers : req[v].pc = "idle"
        /\ logged' = [logged EXCEPT ![PENDING] = 1]
    BY DEF IInv, Unseen, PlaceOrder, told
  <1>2. SUFFICES ASSUME ~cut PROVE Settled'
    BY <1>1 DEF Settled
  <1>3. ASSUME NEW s \in OrderStatus
        PROVE  logged[s] = 0
    <2>1. inbox["buyer"][s] + Cardinality(Owing("buyer", s)) = logged[s]
      BY <1>2, UserFacts DEF Settled, Hears
    <2>2. Owing("buyer", s) = {}
      BY <1>1 DEF Owing, StillToTell
    <2>3. Cardinality(Owing("buyer", s)) = 0 /\ inbox["buyer"][s] = 0
      BY <1>1, <2>2, FS_EmptySet, UserFacts DEF Empty
    <2>4. QED
      BY <2>1, <2>3
  <1>4. PICK r : r = [Idle EXCEPT !.pc = "emit", !.kind = "place"]
    OBVIOUS
  <1>5. r \in Request /\ r.pc = "emit" /\ r.to = PENDING /\ Begin(w, r)
    BY <1>4, StatusFacts DEF Idle, Request, PCs, Kinds, PlaceOrder
  <1>6. req'[w] = r /\ \A v \in Workers : v # w => req'[v] = req[v]
    BY <1>1, <1>5, BeginType
  <1>7. \A s \in OrderStatus : logged'[s] = IF s = PENDING THEN logged[s] + 1 ELSE logged[s]
    BY <1>1, <1>3 DEF TypeOK
  <1>8. QED
    BY <1>1, <1>5, <1>6, <1>7, StatusFacts, SettledLogged DEF Telling

\* A step that has nothing to do with the announcement of an assignment.
LEMMA AssignmentStays ==
    ASSUME AssignmentTold, NEW w \in Workers, UNCHANGED partner, cut' \/ ~cut,
           \A v \in Workers : v # w => req'[v] = req[v],
           ~Naming(w) \/ cut', ~Naming(w)',
           \A d \in Partners :
              /\ inbox'[d] = inbox[d] \/ (d = partner /\ inbox'[d]["assigned"] = inbox[d]["assigned"])
                    \/ (cut' /\ inbox'[d] = [t \in Topics |-> 0])
    PROVE  AssignmentTold'
  <1>1. \A v \in Workers : Naming(v)' => Naming(v) /\ req'[v] = req[v]
    BY DEF Naming
  <1>2. \A v, x \in Workers : Naming(v)' /\ Naming(x)' => v = x
    BY <1>1 DEF AssignmentTold
  <1>3. \A v \in Workers : Naming(v)' => req'[v].known = partner' /\ partner' # None
    BY <1>1 DEF AssignmentTold
  <1>4. \A d \in Partners : d # partner' => inbox'[d] = [t \in Topics |-> 0]
    BY DEF AssignmentTold
  <1>5. ~cut' => \A d \in Partners :
                    d = partner' => inbox'[d]["assigned"] = (IF \E v \in Workers : Naming(v)' THEN 0 ELSE 1)
    <2>1. SUFFICES ASSUME ~cut', NEW d \in Partners, d = partner
                   PROVE  inbox'[d]["assigned"] = (IF \E v \in Workers : Naming(v)' THEN 0 ELSE 1)
      OBVIOUS
    <2>2. inbox'[d]["assigned"] = inbox[d]["assigned"]
      BY <2>1
    <2>3. (\E v \in Workers : Naming(v)') <=> (\E v \in Workers : Naming(v))
      BY <1>1, <2>1 DEF Naming
    <2>4. QED
      BY <2>1, <2>2, <2>3 DEF AssignmentTold
  <1>6. QED
    BY <1>2, <1>3, <1>4, <1>5 DEF AssignmentTold

LEMMA AssignmentMade ==
    ASSUME TypeOK, AssignmentTold, NEW w \in Workers, Assign(w)
    PROVE  AssignmentTold'
  <1>1. req[w].pc = "assign" /\ UNCHANGED <<cut, inbox>> /\ ~Naming(w)
    BY DEF Assign, told, past, Naming
  <1>2. CASE Goto(w, "idle") /\ UNCHANGED partner
    <2>1. (\A v \in Workers : v # w => req'[v] = req[v]) /\ ~Naming(w)'
      BY <1>2, GotoType DEF PCs, Naming
    <2>2. CASE cut
      BY <1>1, <1>2, <2>1, <2>2, AssignmentStays
    <2>3. CASE ~cut
      BY <1>1, <1>2, <2>1, <2>3, AssignmentStays
    <2>4. QED
      BY <2>2, <2>3
  <1>3. CASE partner = None /\ \E d \in Partners :
                /\ partner' = d
                /\ req' = [req EXCEPT ![w].pc = "tellAssigned", ![w].known = d]
    <2>1. PICK d \in Partners : /\ partner' = d
                                /\ req' = [req EXCEPT ![w].pc = "tellAssigned", ![w].known = d]
      BY <1>3
    <2>2. /\ Naming(w)' /\ req'[w].known = d /\ d # None
          /\ \A v \in Workers : v # w => req'[v] = req[v]
      BY <2>1, AssignedType, NotifyAssumption DEF Naming
    <2>3. \A v \in Workers : Naming(v)' => v = w
      BY <1>3, <2>2 DEF AssignmentTold, Naming
    <2>4. \A x \in Partners : inbox'[x] = [t \in Topics |-> 0]
      BY <1>1, <1>3, NotifyAssumption DEF AssignmentTold
    <2>5. inbox'[d]["assigned"] = 0
      BY <2>4, UserFacts
    <2>6. QED
      BY <2>1, <2>2, <2>3, <2>4, <2>5 DEF AssignmentTold
  <1>4. QED
    BY <1>2, <1>3 DEF Assign

LEMMA AssignmentSaid ==
    ASSUME TypeOK, AssignmentTold, NEW w \in Workers, TellAssigned(w)
    PROVE  AssignmentTold'
  <1>1. /\ Naming(w) /\ UNCHANGED <<cut, partner>>
        /\ Send(req[w].known, "assigned") /\ req[w].known = partner /\ partner # None
    BY DEF TellAssigned, table, past, Naming, AssignmentTold
  <1>2. (\A v \in Workers : v # w => req'[v] = req[v]) /\ ~Naming(w)'
    BY GotoType DEF TellAssigned, PCs, Naming
  <1>3. \A v \in Workers : ~Naming(v)'
    BY <1>1, <1>2 DEF AssignmentTold, Naming
  <1>4. partner \in Partners /\ partner \in Users /\ Send(partner, "assigned")
    BY <1>1, UserFacts DEF TypeOK
  <1>5. inbox'[partner]["assigned"] = inbox[partner]["assigned"] + 1
    BY <1>4, UserFacts, SendType
  <1>6. \A d \in Partners : d # partner => inbox'[d] = inbox[d]
    BY <1>4, UserFacts DEF Send, TypeOK
  <1>7. ~cut => inbox[partner]["assigned"] = 0
    BY <1>1, <1>4 DEF AssignmentTold
  <1>8. QED
    BY <1>1, <1>3, <1>5, <1>6, <1>7 DEF AssignmentTold

LEMMA ToldBegins ==
    ASSUME IInv, Kinded, ToldInv, NEW w \in Workers, Arrive(w)
    PROVE  ToldInv'
  <1>1. TypeOK /\ Settled /\ AssignmentTold /\ CarriedFirst
    BY DEF IInv, ToldInv
  <1>2. UNCHANGED <<partner, inbox, cut>> /\ req[w].pc = "idle"
    BY DEF Arrive, PlaceOrder, MoveOrder, Confirm, AcceptBid, ReportPosition, table, told, Begin
  <1>3. PICK r \in Request : Begin(w, r) /\ Begun(r)
    BY <1>1, ArrivesAs
  <1>4. req'[w] = r /\ \A v \in Workers : v # w => req'[v] = req[v]
    BY <1>1, <1>3, BeginType
  <1>5. AssignmentTold'
    <2>1. ~Naming(w) /\ ~Naming(w)'
      BY <1>2, <1>3, <1>4 DEF Naming, Begun
    <2>2. CASE cut
      BY <1>1, <1>2, <1>4, <2>1, <2>2, AssignmentStays
    <2>3. CASE ~cut
      BY <1>1, <1>2, <1>4, <2>1, <2>3, AssignmentStays
    <2>4. QED
      BY <2>2, <2>3
  <1>6. CASE PlaceOrder(w)
    <2>1. Settled'
      BY <1>1, <1>6, SettledPlaced
    <2>2. PENDING # DELIVERED /\ logged' = [logged EXCEPT ![PENDING] = 1]
      BY <1>6 DEF PlaceOrder, PENDING, DELIVERED
    <2>3. CarriedFirst'
      BY <1>1, <1>2, <2>2, StatusFacts DEF CarriedFirst, TypeOK
    <2>4. QED
      BY <1>5, <2>1, <2>3 DEF ToldInv
  <1>7. CASE MoveOrder(w) \/ Confirm(w) \/ AcceptBid(w) \/ ReportPosition(w)
    <2>1. UNCHANGED logged /\ placed = "yes"
      BY <1>7, StatusFacts DEF IInv, Unseen, MoveOrder, Confirm, AcceptBid, ReportPosition, table
    <2>2. req'[w].kind # "place"
      <3>1. IInv'
        BY ArriveKeeps
      <3>2. placed' = "yes"
        BY <1>7, <2>1 DEF MoveOrder, Confirm, AcceptBid, ReportPosition, table
      <3>3. QED
        BY <3>1, <3>2 DEF IInv, Unseen
    <2>3. req'[w].pc \notin Telling /\ req[w].pc \notin Telling
      BY <1>2, <1>3, <1>4, <2>2 DEF Begun, Telling
    <2>4. Settled'
      BY <1>1, <1>2, <1>4, <2>1, <2>3, SettledQuiet
    <2>5. QED
      BY <1>1, <1>2, <1>5, <2>1, <2>4 DEF ToldInv, CarriedFirst
  <1>8. QED
    BY <1>6, <1>7 DEF Arrive

LEMMA SettledGoesOn ==
    ASSUME IInv, Kinded, ToldInv, NEW w \in Workers, Step(w)
    PROVE  Settled'
  <1>1. TypeOK /\ Settled /\ Named
    BY DEF IInv, ToldInv
  <1>2. GoesOn(w) /\ \A v \in Workers : v # w => req'[v] = req[v]
    BY <1>1, StepGoesOn DEF GoesOn
  <1>3. CASE CommitOrder(w) \/ SaveAssignment(w) \/ SaveOrder(w) \/ SavePosition(w) \/ EmitPosition(w)
    <2>1. UNCHANGED <<cut, partner, logged, inbox>> /\ req[w].pc \notin Telling
      BY <1>3 DEF CommitOrder, SaveAssignment, SaveOrder, SavePosition, EmitPosition, table, told, past, Telling
    <2>2. req'[w].pc \in {"idle", "readOrder", "log", "emitPosition"}
      BY <1>1, <1>3, GotoType DEF CommitOrder, SaveAssignment, SaveOrder, SavePosition, EmitPosition, PCs
    <2>3. QED
      BY <1>1, <1>2, <2>1, <2>2, SettledQuiet DEF Telling
  <1>4. CASE ReadOrder(w)
    <2>1. UNCHANGED <<cut, partner, logged, inbox>> /\ req[w].pc \notin Telling
      BY <1>4 DEF ReadOrder, table, told, past, Telling
    <2>2. PICK pc \in {"save", "idle"} : Goto(w, pc)
      BY <1>4 DEF ReadOrder
    <2>3. req'[w].pc = pc
      BY <1>1, <2>2, GotoType DEF PCs
    <2>4. QED
      BY <1>1, <1>2, <2>1, <2>3, SettledQuiet DEF Telling
  <1>5. CASE EmitStatus(w)
    <2>1. /\ UNCHANGED <<cut, partner, logged, inbox>> /\ req[w].pc = "emit"
          /\ req'[w].pc = "tellBuyer" /\ req'[w].to = req[w].to
      BY <1>1, <1>5, GotoType DEF EmitStatus, table, past, PCs
    <2>2. QED
      BY <1>1, <1>2, <2>1, SettledQuiet
  <1>6. CASE LogStatus(w)
    <2>1. /\ UNCHANGED <<cut, partner, inbox>> /\ req[w].pc = "log" /\ req[w].to \in OrderStatus
          /\ req'[w].pc = "emit" /\ req'[w].to = req[w].to
          /\ logged' = [logged EXCEPT ![req[w].to] = @ + 1]
      BY <1>1, <1>6, GotoType DEF LogStatus, told, past, PCs, TypeOK, Request
    <2>2. PICK t \in OrderStatus : t = req[w].to
      BY <2>1
    <2>3. \A s \in OrderStatus : logged'[s] = IF s = t THEN logged[s] + 1 ELSE logged[s]
      BY <1>1, <2>1, <2>2 DEF TypeOK
    <2>4. QED
      BY <1>1, <1>2, <2>1, <2>2, <2>3, SettledLogged DEF Telling
  <1>7. CASE TellAssigned(w)
    <2>1. /\ UNCHANGED <<cut, partner, logged>> /\ req[w].pc = "tellAssigned" /\ req'[w].pc = "idle"
          /\ Send(req[w].known, "assigned") /\ req[w].known \in Users
      BY <1>1, <1>7, GotoType, UserFacts DEF TellAssigned, table, past, PCs, TypeOK, Request, Named
    <2>2. \A u \in Users, s \in OrderStatus : inbox'[u][s] = inbox[u][s]
      BY <1>1, <2>1, UserFacts, StatusFacts, SendType
    <2>3. QED
      BY <1>1, <1>2, <2>1, <2>2, SettledQuiet DEF Telling
  <1>8. QED
    BY <1>1, <1>3, <1>4, <1>5, <1>6, <1>7, SettledTold, SettledPartner, SettledAssign DEF Step

LEMMA AssignmentGoesOn ==
    ASSUME IInv, ToldInv, NEW w \in Workers, Step(w)
    PROVE  AssignmentTold'
  <1>1. TypeOK /\ AssignmentTold
    BY DEF IInv, ToldInv
  <1>2. GoesOn(w) /\ \A v \in Workers : v # w => req'[v] = req[v]
    BY <1>1, StepGoesOn DEF GoesOn
  <1>3. CASE Assign(w) \/ TellAssigned(w)
    BY <1>1, <1>3, AssignmentMade, AssignmentSaid
  <1>4. CASE ~Assign(w) /\ ~TellAssigned(w)
    <2>1. UNCHANGED <<partner, cut>> /\ ~Naming(w)
      BY <1>4 DEF Step, CommitOrder, SaveAssignment, ReadOrder, SaveOrder, LogStatus, EmitStatus,
         TellBuyer, TellSeller, TellPartner, SavePosition, EmitPosition, table, past, Naming
    <2>2. ~Naming(w)'
      <3>1. ASSUME NEW pc \in PCs, Goto(w, pc), pc # "tellAssigned"
            PROVE  ~Naming(w)'
        BY <1>1, <3>1, GotoType DEF Naming
      <3>2. CASE TellPartner(w)
        <4>1. PICK r : r = [req[w] EXCEPT !.pc = "assign", !.known = partner]
          OBVIOUS
        <4>2. r.pc = "assign"
          BY <1>1, <4>1 DEF TypeOK, Request
        <4>3. req'[w] \in {r, Idle}
          BY <1>1, <3>2, <4>1 DEF TellPartner, TypeOK
        <4>4. QED
          BY <4>2, <4>3, IdleFacts DEF Naming
      <3>3. CASE CommitOrder(w) \/ SaveAssignment(w) \/ SaveOrder(w) \/ LogStatus(w) \/ EmitStatus(w)
                     \/ SavePosition(w) \/ EmitPosition(w)
        BY <3>1, <3>3 DEF CommitOrder, SaveAssignment, SaveOrder, LogStatus, EmitStatus,
           SavePosition, EmitPosition, PCs
      <3>4. CASE ReadOrder(w) \/ TellBuyer(w) \/ TellSeller(w)
        <4>1. PICK pc \in {"save", "idle", "tellSeller", "tellPartner", "commit"} : Goto(w, pc)
          BY <3>4 DEF ReadOrder, TellBuyer, TellSeller
        <4>2. QED
          BY <3>1, <4>1 DEF PCs
      <3>5. QED
        BY <1>4, <3>2, <3>3, <3>4 DEF Step
    <2>3. ASSUME NEW d \in Partners
          PROVE  inbox'[d] = inbox[d] \/ (d = partner /\ inbox'[d]["assigned"] = inbox[d]["assigned"])
      <3>1. ASSUME NEW u \in Users, NEW t \in OrderStatus, Send(u, t), u \in {"buyer", "seller", partner}
            PROVE  inbox'[d] = inbox[d] \/ (d = partner /\ inbox'[d]["assigned"] = inbox[d]["assigned"])
        <4>1. CASE u # d
          BY <1>1, <3>1, <4>1, UserFacts DEF Send, TypeOK
        <4>2. CASE u = d
          <5>1. d = partner /\ t # "assigned" /\ t \in Topics /\ "assigned" \in Topics
            BY <3>1, <4>2, UserFacts, StatusFacts
          <5>2. QED
            BY <1>1, <3>1, <5>1, SendType, UserFacts
        <4>3. QED
          BY <4>1, <4>2
      <3>2. req[w].to \in OrderStatus /\ "buyer" \in Users /\ "seller" \in Users
        BY <1>1, UserFacts DEF TypeOK, Request
      <3>3. CASE TellBuyer(w) \/ TellSeller(w)
        BY <3>1, <3>2, <3>3 DEF TellBuyer, TellSeller
      <3>4. CASE TellPartner(w)
        <4>1. CASE partner = None
          BY <3>4, <4>1 DEF TellPartner
        <4>2. CASE partner # None
          BY <1>1, <3>1, <3>2, <3>4, <4>2, UserFacts DEF TellPartner, TypeOK
        <4>3. QED
          BY <4>1, <4>2
      <3>5. CASE UNCHANGED inbox
        BY <3>5
      <3>6. QED
        BY <1>4, <3>3, <3>4, <3>5 DEF Step, CommitOrder, SaveAssignment, ReadOrder, SaveOrder, LogStatus,
           EmitStatus, SavePosition, EmitPosition, told
    <2>4. CASE cut
      BY <1>1, <1>2, <2>1, <2>2, <2>3, <2>4, AssignmentStays
    <2>5. CASE ~cut
      BY <1>1, <1>2, <2>1, <2>2, <2>3, <2>5, AssignmentStays
    <2>6. QED
      BY <2>4, <2>5
  <1>5. QED
    BY <1>3, <1>4

\* An order is delivered by its partner.
LEMMA CarriedGoesOn ==
    ASSUME IInv, Kinded, ToldInv, NEW w \in Workers, Step(w)
    PROVE  CarriedFirst'
  <1>1. TypeOK /\ CarriedFirst /\ req[w].to \in OrderStatus
    BY DEF IInv, ToldInv, TypeOK, Request
  <1>2. SUFFICES ASSUME partner' = None
                 PROVE  logged'[DELIVERED] = 0
    BY DEF CarriedFirst
  <1>3. partner = None /\ logged[DELIVERED] = 0
    BY <1>1, <1>2, PartnerSet DEF CarriedFirst
  <1>4. CASE LogStatus(w)
    <2>1. req[w].to # DELIVERED
      BY <1>3, CopyRoles DEF Kinded, Locating
    <2>2. QED
      BY <1>1, <1>3, <1>4, <2>1, StatusFacts DEF LogStatus, TypeOK
  <1>5. CASE ~LogStatus(w)
    <2>1. logged' = logged
      BY <1>5 DEF Step, CommitOrder, SaveAssignment, ReadOrder, SaveOrder, EmitStatus, TellBuyer,
         TellSeller, TellPartner, Assign, TellAssigned, SavePosition, EmitPosition, table
    <2>2. QED
      BY <1>3, <2>1
  <1>6. QED
    BY <1>4, <1>5

LEMMA ToldFails ==
    ASSUME IInv, ToldInv, NEW w \in Workers, Fail(w)
    PROVE  ToldInv'
  <1>1. TypeOK /\ AssignmentTold /\ CarriedFirst
    BY DEF IInv, ToldInv
  <1>2. /\ cut' /\ UNCHANGED partner
        /\ \/ logged' = [s \in OrderStatus |-> 0] /\ inbox' = Empty
           \/ UNCHANGED <<logged, inbox>>
    BY DEF Fail
  <1>3. (\A v \in Workers : v # w => req'[v] = req[v]) /\ ~Naming(w)'
    BY <1>1, GotoType, IdleFacts DEF Fail, PCs, Naming
  <1>4. \A d \in Partners : inbox'[d] = inbox[d] \/ inbox'[d] = [t \in Topics |-> 0]
    BY <1>2, UserFacts DEF Empty
  <1>5. AssignmentTold'
    BY <1>1, <1>2, <1>3, <1>4, AssignmentStays
  <1>6. Settled' /\ CarriedFirst'
    BY <1>1, <1>2, StatusFacts DEF Settled, CarriedFirst
  <1>7. QED
    BY <1>5, <1>6 DEF ToldInv

LEMMA ToldRests ==
    ASSUME ToldInv, UNCHANGED <<cut, partner, logged, inbox, req>>
    PROVE  ToldInv'
  <1>1. \A u, s : Owing(u, s)' = Owing(u, s)
    BY DEF Owing
  <1>2. Settled'
    BY <1>1 DEF ToldInv, Settled, Hears
  <1>3. AssignmentTold'
    BY DEF ToldInv, AssignmentTold, Naming
  <1>4. QED
    BY <1>2, <1>3 DEF ToldInv, CarriedFirst

LEMMA ToldStart == Init => ToldInv
  <1> SUFFICES ASSUME Init PROVE ToldInv
    OBVIOUS
  <1>1. \A w \in Workers : req[w].pc = "idle"
    BY IdleFacts DEF Init
  <1>2. Settled
    <2>1. SUFFICES ASSUME NEW u \in Users, NEW s \in OrderStatus
                   PROVE  inbox[u][s] + Cardinality(Owing(u, s)) = logged[s]
      BY DEF Settled
    <2>2. Owing(u, s) = {}
      BY <1>1 DEF Owing, StillToTell
    <2>3. Cardinality(Owing(u, s)) = 0
      BY <2>2, FS_EmptySet
    <2>4. inbox[u][s] = 0 /\ logged[s] = 0
      BY UserFacts DEF Init, Empty
    <2>5. QED
      BY <2>3, <2>4
  <1>3. AssignmentTold
    BY <1>1, UserFacts, NotifyAssumption DEF AssignmentTold, Naming, Init, Empty
  <1>4. CarriedFirst
    BY StatusFacts DEF CarriedFirst, Init
  <1>5. QED
    BY <1>2, <1>3, <1>4 DEF ToldInv

-----------------------------------------------------------------------------
(* That no pickup is cancelled unheard                                     *)

Late == {READY_FOR_PICKUP, OUT_FOR_DELIVERY, DELIVERED}

\* A partner is assigned to an order that has been ready.  As long as no two moves
\* of it have overlapped, an order that has been ready is not cancelled any more:
\* a move that is about to be saved is one that the row still allows.
Uncancelled ==
    /\ partner # None => READY_FOR_PICKUP \in reached
    /\ logged[CANCELLED] > 0 => CANCELLED \in reached
    /\ \A w \in Workers :
          /\ req[w].pc \in Telling \cup {"log"} => req[w].to \in reached
          /\ req[w].pc = "assign" => READY_FOR_PICKUP \in reached
    /\ "order" \notin met =>
          /\ READY_FOR_PICKUP \in reached => status \in Late
          /\ CANCELLED \in reached => status = CANCELLED
          /\ \A w \in Workers : req[w].pc = "save" => <<status, req[w].to>> \in TRANSITIONS

\* The table leads from a ready order to a delivered one only, and from a
\* cancelled one nowhere.
LEMMA LateFacts ==
    /\ CANCELLED \notin Late /\ CANCELLED # PENDING /\ READY_FOR_PICKUP \in Late
    /\ \A s, t : <<s, t>> \in TRANSITIONS => s # CANCELLED /\ (s \in Late => t \in Late)
  BY DEF Late, TRANSITIONS, PENDING, CONFIRMED, PREPARING, READY_FOR_PICKUP, OUT_FOR_DELIVERY,
         DELIVERED, CANCELLED

\* A step that does not save the order.
LEMMA UncancelledStays ==
    ASSUME Uncancelled, NEW w \in Workers, \A v \in Workers : v # w => req'[v] = req[v],
           UNCHANGED <<status, reached>>, met \subseteq met',
           logged'[CANCELLED] > 0 => CANCELLED \in reached,
           partner' # None => READY_FOR_PICKUP \in reached,
           req'[w].pc \in Telling \cup {"log"} => req'[w].to \in reached,
           req'[w].pc = "assign" => READY_FOR_PICKUP \in reached,
           req'[w].pc = "save" => <<status, req'[w].to>> \in TRANSITIONS
    PROVE  Uncancelled'
  <1>1. \A v \in Workers :
           /\ req'[v].pc \in Telling \cup {"log"} => req'[v].to \in reached'
           /\ req'[v].pc = "assign" => READY_FOR_PICKUP \in reached'
    BY DEF Uncancelled
  <1>2. "order" \notin met' =>
           /\ READY_FOR_PICKUP \in reached' => status' \in Late
           /\ CANCELLED \in reached' => status' = CANCELLED
           /\ \A v \in Workers : req'[v].pc = "save" => <<status', req'[v].to>> \in TRANSITIONS
    BY DEF Uncancelled
  <1>3. QED
    BY <1>1, <1>2 DEF Uncancelled

LEMMA UncancelledBegins ==
    ASSUME IInv, Uncancelled, NEW w \in Workers, Arrive(w)
    PROVE  Uncancelled'
  <1>1. TypeOK /\ PENDING \in reached
    BY DEF IInv, Had
  <1>2. PICK r \in Request : Begin(w, r) /\ Begun(r)
    BY <1>1, ArrivesAs
  <1>3. req'[w] = r /\ \A v \in Workers : v # w => req'[v] = req[v]
    BY <1>1, <1>2, BeginType
  <1>4. UNCHANGED <<status, partner, reached>> /\ met \subseteq met'
    BY <1>2, BeginsApart DEF Arrive, PlaceOrder, MoveOrder, Confirm, AcceptBid, ReportPosition, table
  <1>5. logged'[CANCELLED] = logged[CANCELLED]
    BY <1>1, LateFacts, StatusFacts DEF Arrive, PlaceOrder, MoveOrder, Confirm, AcceptBid,
       ReportPosition, table, TypeOK
  <1>6. r.pc \in Telling \cup {"log"} => r.to \in reached
    BY <1>1, <1>2 DEF Begun, Telling
  <1>7. /\ r.pc = "assign" => READY_FOR_PICKUP \in reached
        /\ r.pc = "save" => <<status, r.to>> \in TRANSITIONS
    <2>1. CASE PlaceOrder(w) \/ Confirm(w) \/ ReportPosition(w)
      <3>1. r.pc \in {"emit", "saveAssignment", "savePosition"}
        <4>1. CASE PlaceOrder(w)
          BY <1>1, <1>3, <4>1 DEF PlaceOrder, Begin, TypeOK, Idle
        <4>2. CASE Confirm(w)
          <5>1. PICK to \in Confirming :
                   req' = [req EXCEPT ![w] = [Idle EXCEPT !.pc = "saveAssignment", !.kind = "move",
                                                          !.to = to, !.at = position]]
            BY <4>2 DEF Confirm, Begin
          <5>2. QED
            BY <1>1, <1>3, <5>1 DEF TypeOK, Idle
        <4>3. CASE ReportPosition(w)
          <5>1. PICK x \in Positions :
                   req' = [req EXCEPT ![w] = [Idle EXCEPT !.pc = "savePosition", !.kind = "report",
                                                          !.at = x]]
            BY <4>3 DEF ReportPosition, Begin
          <5>2. QED
            BY <1>1, <1>3, <5>1 DEF TypeOK, Idle
        <4>4. QED
          BY <2>1, <4>1, <4>2, <4>3
      <3>2. QED
        BY <3>1
    <2>2. CASE MoveOrder(w)
      <3>1. PICK to \in OrderStatus :
               /\ <<status, to>> \in TRANSITIONS
               /\ req' = [req EXCEPT ![w] = [Idle EXCEPT !.pc = "save", !.kind = "move", !.to = to]]
        BY <2>2 DEF MoveOrder, Begin
      <3>2. r.pc = "save" /\ r.to = to
        BY <1>1, <1>3, <3>1 DEF TypeOK, Idle
      <3>3. QED
        BY <3>1, <3>2
    <2>3. CASE AcceptBid(w)
      BY <1>1, <1>3, <2>3 DEF AcceptBid, Begin, TypeOK, Idle
    <2>4. QED
      BY <2>1, <2>2, <2>3 DEF Arrive
  <1>8. QED
    BY <1>3, <1>4, <1>5, <1>6, <1>7, UncancelledStays DEF Uncancelled

\* The one move that is being made saves what the row allows.
LEMMA UncancelledSaved ==
    ASSUME TypeOK, ScreenInv, Uncancelled, NEW w \in Workers, SaveOrder(w)
    PROVE  Uncancelled'
  <1>1. /\ req[w].pc = "save" /\ status' = req[w].to /\ reached' = reached \cup {req[w].to}
        /\ UNCHANGED <<logged, partner, met>>
    BY DEF SaveOrder, past
  <1>2. /\ req'[w].pc = "log" /\ req'[w].to = req[w].to
        /\ \A v \in Workers : v # w => req'[v] = req[v]
    BY GotoType DEF SaveOrder, PCs
  <1>3. \A v \in Workers :
           /\ req'[v].pc \in Telling \cup {"log"} => req'[v].to \in reached'
           /\ req'[v].pc = "assign" => READY_FOR_PICKUP \in reached'
    BY <1>1, <1>2 DEF Uncancelled
  <1>4. ASSUME "order" \notin met
        PROVE  /\ READY_FOR_PICKUP \in reached' => status' \in Late
               /\ CANCELLED \in reached' => status' = CANCELLED
               /\ \A v \in Workers : req'[v].pc = "save" => <<status', req'[v].to>> \in TRANSITIONS
    <2>1. <<status, req[w].to>> \in TRANSITIONS
      BY <1>1, <1>4 DEF Uncancelled
    <2>2. \A v \in Workers : req[v].pc = "save" => v = w
      BY <1>1, <1>4 DEF ScreenInv, Kinded, StatusShown
    <2>3. \A v \in Workers : req'[v].pc # "save"
      BY <1>2, <2>2
    <2>4. QED
      BY <1>1, <1>4, <2>1, <2>3, LateFacts DEF Uncancelled
  <1>5. QED
    BY <1>1, <1>3, <1>4 DEF Uncancelled

LEMMA UncancelledGoesOn ==
    ASSUME IInv, ScreenInv, Uncancelled, NEW w \in Workers, Step(w) \/ Fail(w)
    PROVE  Uncancelled'
  <1>1. TypeOK /\ req[w] \in Request
    BY DEF IInv, TypeOK
  <1>2. \A v \in Workers : v # w => req'[v] = req[v]
    BY <1>1, StepGoesOn DEF GoesOn
  <1>3. CASE SaveOrder(w)
    BY <1>1, <1>3, UncancelledSaved
  <1>4. ASSUME NEW pc \in PCs, Goto(w, pc), pc \notin {"assign", "save"},
               pc \in Telling \cup {"log"} => req[w].to \in reached,
               UNCHANGED <<status, reached, partner, met>>,
               logged'[CANCELLED] > 0 => CANCELLED \in reached
        PROVE  Uncancelled'
    <2>1. pc = "idle" => req'[w].pc = "idle"
      BY <1>1, <1>4, GotoType
    <2>2. pc # "idle" => req'[w].pc = pc /\ req'[w].to = req[w].to
      BY <1>1, <1>4, GotoType
    <2>3. req'[w].pc \notin {"assign", "save"} /\ (req'[w].pc \in Telling \cup {"log"} => req'[w].to \in reached)
      BY <1>4, <2>1, <2>2 DEF Telling
    <2>4. QED
      BY <1>2, <1>4, <2>3, UncancelledStays DEF Uncancelled
  <1>5. CASE Fail(w)
    <2>1. UNCHANGED <<status, reached, partner, met>> /\ Goto(w, "idle")
      BY <1>5 DEF Fail
    <2>2. logged'[CANCELLED] > 0 => CANCELLED \in reached
      BY <1>5, StatusFacts DEF Fail, Uncancelled
    <2>3. QED
      BY <1>4, <2>1, <2>2 DEF PCs, Telling
  <1>6. CASE LogStatus(w)
    <2>1. /\ req[w].pc = "log" /\ logged' = [logged EXCEPT ![req[w].to] = @ + 1] /\ Goto(w, "emit")
          /\ UNCHANGED <<status, reached, partner, met>>
      BY <1>6 DEF LogStatus, past
    <2>2. req[w].to \in reached
      BY <2>1 DEF Uncancelled
    <2>3. logged'[CANCELLED] > 0 => CANCELLED \in reached
      <3>1. CASE req[w].to = CANCELLED
        BY <2>2, <3>1
      <3>2. CASE req[w].to # CANCELLED
        BY <1>1, <2>1, <3>2, StatusFacts DEF Uncancelled, TypeOK
      <3>3. QED
        BY <3>1, <3>2
    <2>4. QED
      BY <1>4, <2>1, <2>2, <2>3 DEF PCs
  <1>7. CASE CommitOrder(w) \/ SaveAssignment(w) \/ SavePosition(w) \/ EmitPosition(w) \/ TellAssigned(w)
    <2>1. PICK pc \in {"idle", "readOrder", "emitPosition"} : Goto(w, pc)
      BY <1>7 DEF CommitOrder, SaveAssignment, SavePosition, EmitPosition, TellAssigned
    <2>2. UNCHANGED <<status, reached, partner, met, logged>>
      BY <1>7 DEF CommitOrder, SaveAssignment, SavePosition, EmitPosition, TellAssigned, table, past
    <2>3. QED
      BY <1>4, <2>1, <2>2 DEF PCs, Telling, Uncancelled
  <1>8. CASE EmitStatus(w) \/ TellBuyer(w) \/ TellSeller(w)
    <2>1. PICK pc \in {"idle", "tellBuyer", "tellSeller", "tellPartner", "commit"} : Goto(w, pc)
      BY <1>8 DEF EmitStatus, TellBuyer, TellSeller
    <2>2. UNCHANGED <<status, reached, partner, met, logged>> /\ req[w].pc \in Telling
      BY <1>8 DEF EmitStatus, TellBuyer, TellSeller, table, past, Telling
    <2>3. QED
      BY <1>4, <2>1, <2>2 DEF PCs, Uncancelled
  <1>9. CASE ReadOrder(w)
    <2>1. UNCHANGED <<status, reached, partner, met, logged>>
      BY <1>9 DEF ReadOrder, table, past
    <2>2. PICK pc \in {"save", "idle"} : Goto(w, pc) /\ (pc = "save" => <<status, req[w].to>> \in TRANSITIONS)
      BY <1>9 DEF ReadOrder
    <2>3. req'[w].pc = pc /\ (pc = "save" => req'[w].to = req[w].to)
      BY <1>1, <2>2, GotoType DEF PCs
    <2>4. QED
      BY <1>2, <2>1, <2>2, <2>3, UncancelledStays DEF Uncancelled, Telling
  <1>10. CASE TellPartner(w)
    <2>1. UNCHANGED <<status, reached, partner, met, logged>> /\ req[w].to \in reached
      BY <1>10 DEF TellPartner, table, past, Uncancelled, Telling
    <2>2. req'[w].pc = "idle" \/ (req'[w].pc = "assign" /\ req[w].to = READY_FOR_PICKUP)
      BY <1>1, <1>10 DEF TellPartner, TypeOK, Request, Idle
    <2>3. QED
      BY <1>2, <2>1, <2>2, UncancelledStays DEF Uncancelled, Telling
  <1>11. CASE Assign(w)
    <2>1. UNCHANGED <<status, reached, met, logged>> /\ READY_FOR_PICKUP \in reached
      BY <1>11 DEF Assign, past, Uncancelled
    <2>2. req'[w].pc \in {"idle", "tellAssigned"}
      <3>1. CASE Goto(w, "idle")
        BY <1>1, <3>1, GotoType DEF PCs
      <3>2. CASE \E d \in Partners : req' = [req EXCEPT ![w].pc = "tellAssigned", ![w].known = d]
        BY <1>1, <3>2, AssignedType
      <3>3. QED
        BY <1>11, <3>1, <3>2 DEF Assign
    <2>3. QED
      BY <1>2, <2>1, <2>2, UncancelledStays DEF Uncancelled, Telling
  <1>12. QED
    BY <1>3, <1>5, <1>6, <1>7, <1>8, <1>9, <1>10, <1>11 DEF Step

LEMMA UncancelledStart == Init => Uncancelled
  <1> SUFFICES ASSUME Init PROVE Uncancelled
    OBVIOUS
  <1>1. \A w \in Workers : req[w].pc = "idle"
    BY IdleFacts DEF Init
  <1>2. /\ partner = None /\ logged[CANCELLED] = 0
        /\ READY_FOR_PICKUP \notin reached /\ CANCELLED \notin reached
    BY StatusFacts, LateFacts DEF Init
  <1>3. QED
    BY <1>1, <1>2 DEF Uncancelled, Telling

\* When every request has run to its end, the buyer has been told of each entry
\* of the log, the seller of those that concern a seller, and the partner, and
\* no other, of the assignment and the delivery (notify_order_status,
\* notify_delivery_assigned), for any number of partners and requests; and the
\* partner's pickup has not been cancelled unheard, as long as no two moves of the
\* order have overlapped.
THEOREM NobodyForgotten == Spec => []EverybodyTold
  <1>1. IInv /\ ScreenInv /\ [Next]_vars => ScreenInv'
    BY ScreenBegins, ScreenGoesOn, ScreenComesAndGoes DEF Next
  <1>2. IInv /\ ScreenInv /\ ToldInv /\ [Next]_vars => ToldInv'
    <2> SUFFICES ASSUME IInv, ScreenInv, ToldInv, [Next]_vars PROVE ToldInv'
      OBVIOUS
    <2>1. Kinded
      BY DEF ScreenInv
    <2>2. ASSUME NEW w \in Workers, Arrive(w) \/ Step(w) \/ Fail(w) PROVE ToldInv'
      BY <2>1, <2>2, ToldBegins, ToldFails, SettledGoesOn, AssignmentGoesOn, CarriedGoesOn DEF ToldInv
    <2>3. CASE Subscribe \/ Unsubscribe \/ UNCHANGED vars
      BY <2>3, ToldRests DEF Subscribe, Unsubscribe, table, past, vars
    <2>4. QED
      BY <2>2, <2>3 DEF Next
  <1>3. IInv /\ ScreenInv /\ Uncancelled /\ [Next]_vars => Uncancelled'
    <2> SUFFICES ASSUME IInv, ScreenInv, Uncancelled, [Next]_vars PROVE Uncancelled'
      OBVIOUS
    <2>1. CASE Subscribe \/ Unsubscribe \/ UNCHANGED vars
      BY <2>1 DEF Subscribe, Unsubscribe, table, past, vars, Uncancelled
    <2>2. QED
      BY <2>1, UncancelledBegins, UncancelledGoesOn DEF Next
  <1>4. IInv /\ ToldInv /\ Uncancelled => EverybodyTold
    <2> SUFFICES ASSUME IInv, ToldInv, Uncancelled, Quiet, ~cut PROVE EverybodyTold
      BY DEF EverybodyTold
    <2>1. ASSUME NEW u \in Users, NEW s \in OrderStatus, Hears(u, s)
          PROVE  inbox[u][s] = logged[s]
      <3>1. inbox[u][s] + Cardinality(Owing(u, s)) = logged[s] /\ inbox[u][s] \in Nat
        BY <2>1, UserFacts DEF ToldInv, Settled, IInv, TypeOK
      <3>2. Owing(u, s) = {}
        BY DEF Owing, StillToTell, Quiet
      <3>3. Cardinality(Owing(u, s)) = 0
        BY <3>2, FS_EmptySet
      <3>4. QED
        BY <3>1, <3>3
    <2>2. \A s \in OrderStatus : inbox["buyer"][s] = logged[s]
      BY <2>1, UserFacts DEF Hears
    <2>3. \A s \in SellerHears : s \in OrderStatus => inbox["seller"][s] = logged[s]
      BY <2>1, UserFacts DEF Hears
    <2>4. ASSUME NEW d \in Partners
          PROVE  /\ inbox[d]["assigned"] = IF d = partner THEN 1 ELSE 0
                 /\ d # partner => inbox[d] = [t \in Topics |-> 0]
                 /\ d = partner => inbox[d][DELIVERED] = logged[DELIVERED]
                 /\ d = partner /\ "order" \notin met => inbox[d][CANCELLED] = logged[CANCELLED]
      <3>1. d # partner => inbox[d] = [t \in Topics |-> 0]
        BY DEF ToldInv, AssignmentTold
      <3>2. d = partner => inbox[d]["assigned"] = 1
        BY DEF ToldInv, AssignmentTold, Naming, Quiet
      <3>3. d = partner => inbox[d][DELIVERED] = logged[DELIVERED]
        BY <2>1, UserFacts, StatusFacts DEF Hears
      <3>4. d = partner /\ "order" \notin met => inbox[d][CANCELLED] = logged[CANCELLED]
        <4>1. SUFFICES ASSUME d = partner, "order" \notin met
                       PROVE  inbox[d][CANCELLED] = logged[CANCELLED]
          OBVIOUS
        <4>2. d \in Users /\ d # None /\ CANCELLED \in OrderStatus /\ CANCELLED \in Topics
          BY UserFacts, StatusFacts, NotifyAssumption
        <4>3. inbox[d][CANCELLED] \in Nat /\ logged[CANCELLED] \in Nat
          BY <4>2 DEF IInv, TypeOK
        <4>4. logged[CANCELLED] = 0
          BY <4>1, <4>2, <4>3, LateFacts DEF Uncancelled
        <4>5. Owing(d, CANCELLED) = {}
          BY DEF Owing, StillToTell, Quiet
        <4>6. inbox[d][CANCELLED] + 0 <= logged[CANCELLED]
          BY <4>2, <4>5, FS_EmptySet DEF IInv, Counted
        <4>7. QED
          BY <4>3, <4>4, <4>6
      <3>5. QED
        BY <3>1, <3>2, <3>3, <3>4, UserFacts
    <2>5. QED
      BY <2>2, <2>3, <2>4 DEF EverybodyTold, SellerHears
  <1>5. QED
    BY <1>1, <1>2, <1>3, <1>4, ScreenStart, ToldStart, UncancelledStart, Invariance, PTL DEF Spec
=============================================================================
