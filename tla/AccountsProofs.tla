---------------------------- MODULE AccountsProofs ----------------------------
(***************************************************************************)
(* What keeps accounts and one-time codes in order however many requests   *)
(* overlap, and wherever they are cut short; and what more is true when    *)
(* requests are served one by one: how often a code can be guessed, which  *)
(* device is kept, and how many requests a window of time lets through.    *)
(***************************************************************************)
EXTENDS Accounts, Positions, FiniteSetTheorems

-----------------------------------------------------------------------------
(* The inductive invariant                                                 *)

\* i is a challenge for resetting the password, and has been passed.
ByReset(i) == i \in DOMAIN challenge /\ challenge[i].purpose = "reset_password" /\ accepted[i] > 0

\* What a request has found out stays true until it acts on it.
Sound(w) ==
    /\ req[w].view = "confirm" => req[w].purpose = "reset_password"
    /\ req[w].pc = "newest" => req[w].view = "verify"
    /\ req[w].pc \in {"checkUser", "insertUser", "insertProfile", "insertStore"}
          => req[w].view \in {"signup", "register"}
    /\ req[w].pc # "idle" /\ req[w].view \in {"signup", "register"} => req[w].copy.role \in Roles
    /\ req[w].pc \in {"insertProfile", "insertStore"}
          => req[w].copy.role # "user" /\ user[Key(w)].role = req[w].copy.role
    /\ req[w].pc = "insertStore" => req[w].copy.role = "vendor" /\ Key(w) \in profile
    /\ req[w].pc \in {"send", "consumeOld", "insert"} => Has("phone")
    /\ req[w].pc # "idle" /\ req[w].view = "device" => Has("phone")
    /\ req[w].pc = "saveDevice" => req[w].view = "device"
    /\ req[w].pc \in {"saveAttempts", "lock", "consume"}
          => req[w].row \in DOMAIN challenge /\ challenge[req[w].row].purpose = req[w].purpose
    /\ req[w].pc = "readUser" => ByReset(req[w].row)
    /\ req[w].pc = "saveUser" => ByReset(req[w].copy.password) /\ req[w].copy.role = user["phone"].role
    /\ req[w].pc # "saveUser" => req[w].copy.password = 0

\* A challenge that was passed is consumed.
Passed == \A i \in DOMAIN challenge : accepted[i] > 0 => challenge[i].consumed

\* Whoever writes the missing rows of an account.
Completing(k, w) == req[w].pc \in {"insertProfile", "insertStore"} /\ Key(w) = k

\* An account is whole, or being completed by a request that has not been cut short.
Whole ==
    /\ challenge # <<>> => Has("phone")
    /\ store \subseteq profile
    /\ \A k \in profile : Has(k)
    /\ faults = 0 => \A k \in Contacts :
          /\ user[k].role = "vendor" => k \in store \/ \E w \in Workers : Completing(k, w)
          /\ user[k].role = "delivery_partner" =>
                k \in profile \/ \E w \in Workers : Completing(k, w)

IInv ==
    /\ TypeOK
    /\ \A w \in Workers : Sound(w)
    /\ Passed
    /\ Whole
    /\ PasswordByReset
    /\ OpenBounded
    /\ CodeUsesBounded

-----------------------------------------------------------------------------
(* Types                                                                   *)

\* The rows of the phone, and the histories that go with them.
LEMMA Rows ==
    ASSUME TypeOK
    PROVE  /\ Len(challenge) \in Nat
           /\ challenge \in [1 .. Len(challenge) -> Challenge]
           /\ accepted \in [1 .. Len(challenge) -> Nat]
           /\ guessed \in [1 .. Len(challenge) -> Nat]
           /\ \A p : Open(p) \subseteq 1 .. Len(challenge)
  BY DEF TypeOK, Open

\* A function over the rows is a sequence again.
LEMMA Rewritten ==
    ASSUME NEW S, NEW n \in Nat, NEW f \in [1 .. n -> S]
    PROVE  f \in Seq(S) /\ Len(f) = n
  OBVIOUS

\* Counting keeps the types of the limits.
LEMMA CountTyped ==
    ASSUME LimitTyped, NEW k \in Keys, NEW n \in Nat, Count(k, n)
    PROVE  LimitTyped'
  <1>1. cache' \in [Keys -> [count : Nat, ttl : Nat]]
    <2>1. cache' = [cache EXCEPT ![k] = [count |-> n + 1, ttl |-> Window[k]]]
      BY DEF Count
    <2>2. [count |-> n + 1, ttl |-> Window[k]] \in [count : Nat, ttl : Nat]
      BY LimitAssumption
    <2>3. QED
      BY <2>1, <2>2 DEF LimitTyped
  <1>2. DOMAIN recent' = Keys
    BY DEF LimitTyped, Count
  <1>3. ASSUME NEW j \in Keys
        PROVE  recent'[j] \in [Ages(j) -> Nat]
    <2>1. recent[j] \in [Ages(j) -> Nat] /\ recent[k] \in [Ages(k) -> Nat]
      BY DEF LimitTyped
    <2>2. recent' = [recent EXCEPT ![k] = [recent[k] EXCEPT ![0] = @ + 1]]
      BY DEF Count
    <2>3. 0 \in Ages(k)
      BY LimitAssumption DEF Ages
    <2>4. [recent[k] EXCEPT ![0] = @ + 1] \in [Ages(k) -> Nat]
      BY <2>1, <2>3
    <2>5. QED
      BY <2>1, <2>2, <2>4 DEF LimitTyped
  <1>4. QED
    BY <1>1, <1>2, <1>3 DEF LimitTyped, Ages

\* So does the passing of time.
LEMMA ElapseTyped ==
    ASSUME LimitTyped, Elapse
    PROVE  LimitTyped'
  <1>1. cache' \in [Keys -> [count : Nat, ttl : Nat]]
    <2>1. ASSUME NEW k \in Keys
          PROVE  cache'[k] \in [count : Nat, ttl : Nat]
      <3>1. cache[k] \in [count : Nat, ttl : Nat]
        BY DEF LimitTyped
      <3>2. CASE cache[k].ttl <= 1
        BY <3>2 DEF Elapse, Gone
      <3>3. CASE cache[k].ttl > 1
        BY <3>1, <3>3 DEF Elapse
      <3>4. QED
        BY <3>1, <3>2, <3>3
    <2>2. QED
      BY <2>1 DEF Elapse
  <1>2. ASSUME NEW k \in Keys
        PROVE  recent'[k] \in [Ages(k) -> Nat]
    <2>1. recent[k] \in [Ages(k) -> Nat]
      BY DEF LimitTyped
    <2>2. recent'[k] = [a \in Ages(k) |-> IF a = 0 THEN 0 ELSE recent[k][a - 1]]
      BY DEF Elapse
    <2>3. \A a \in Ages(k) : a = 0 \/ a - 1 \in Ages(k)
      BY LimitAssumption DEF Ages
    <2>4. QED
      BY <2>1, <2>2, <2>3
  <1>3. QED
    BY <1>1, <1>2 DEF LimitTyped, Elapse, Ages

LEMMA InitTyped ==
    ASSUME Init
    PROVE  TypeOK
  <1>1. /\ Gone \in [count : Nat, ttl : Nat]
        /\ \A k \in Keys : /\ [count |-> 1, ttl |-> Window[k]] \in [count : Nat, ttl : Nat]
                           /\ [a \in Ages(k) |-> 0] \in [Ages(k) -> Nat]
                           /\ [a \in Ages(k) |-> IF a = 0 /\ Limit[k] > 0 THEN 1 ELSE 0] \in [Ages(k) -> Nat]
    BY LimitAssumption DEF Gone
  <1>2. LimitTyped
    <2>1. CASE LimitInit
      BY <1>1, <2>1 DEF LimitTyped, LimitInit
    <2>2. CASE ~LimitInit
      BY <1>1, <2>2 DEF LimitTyped, Init
    <2>3. QED
      BY <2>1, <2>2
  <1>3. Idle \in Request /\ NoUser \in User /\ [NoUser EXCEPT !.role = "vendor"] \in User
    BY AccountsAssumption DEF Idle, Request, PCs, Views, Purposes, NoUser, User
  <1>4. req \in [Workers -> Request] /\ user \in [Contacts -> User]
    BY <1>3 DEF Init
  <1>5. /\ challenge \in Seq(Challenge)
        /\ accepted \in Seq(Nat) /\ Len(accepted) = Len(challenge)
        /\ guessed \in Seq(Nat) /\ Len(guessed) = Len(challenge)
    <2>1. [purpose |-> "login", left |-> Lifetime, attempts |-> 0, consumed |-> FALSE] \in Challenge
      BY OtpAssumption DEF Challenge, Purposes
    <2>2. <<0>> \in Seq(Nat) /\ Len(<<0>>) = 1
      OBVIOUS
    <2>3. CASE challenge = <<>> /\ accepted = <<>> /\ guessed = <<>>
      BY <2>3
    <2>4. CASE /\ challenge = <<[purpose |-> "login", left |-> Lifetime, attempts |-> 0, consumed |-> FALSE]>>
               /\ accepted = <<0>> /\ guessed = <<0>>
      BY <2>1, <2>2, <2>4
    <2>5. QED
      BY <2>3, <2>4 DEF Init
  <1>6. profile \subseteq Contacts /\ store \subseteq Contacts
    BY DEF Init, Contacts
  <1>7. registered = None /\ overlapped \in BOOLEAN /\ requests = 0 /\ faults = 0
    BY DEF Init
  <1>8. requests \in 0 .. MaxRequests /\ faults \in 0 .. MaxFaults
    BY <1>7, AccountsAssumption
  <1>9. QED
    BY <1>2, <1>4, <1>5, <1>6, <1>7, <1>8 DEF TypeOK
-----------------------------------------------------------------------------
(* What a step leaves as it was                                            *)

\* What the other requests rely on.
Kept ==
    /\ \A i \in DOMAIN challenge : /\ i \in DOMAIN challenge'
                                   /\ challenge'[i].purpose = challenge[i].purpose
                                   /\ accepted'[i] >= accepted[i]
    /\ \A k \in Contacts : Has(k) => user'[k].role = user[k].role
    /\ profile \subseteq profile'

\* A passed challenge stays one.
LEMMA ByResetKept ==
    ASSUME TypeOK, TypeOK', Kept, NEW i, ByReset(i)
    PROVE  ByReset(i)'
  <1>1. accepted[i] \in Nat /\ accepted'[i] \in Nat
    <2>1. i \in 1 .. Len(challenge)
      BY Rows DEF ByReset
    <2>2. i \in DOMAIN challenge'
      BY DEF ByReset, Kept
    <2>3. accepted' \in Seq(Nat) /\ Len(accepted') = Len(challenge') /\ challenge' \in Seq(Challenge)
      BY DEF TypeOK
    <2>4. QED
      BY <2>1, <2>2, <2>3, Rows
  <1>2. QED
    BY <1>1 DEF ByReset, Kept

\* An account that exists keeps its role, and so still exists.
LEMMA RolesKept ==
    ASSUME TypeOK, Kept, NEW k \in Contacts, Has(k)
    PROVE  Has(k)' /\ user'[k].role = user[k].role
  BY DEF Has, Kept

\* Whoever is about to save the account of the phone knows it exists.
LEMMA SavesAccount ==
    ASSUME IInv, NEW w \in Workers, req[w].pc \in {"readUser", "saveUser"}
    PROVE  Has("phone")
  BY DEF IInv, Sound, ByReset, Whole

LEMMA KeyIsContact ==
    ASSUME NEW w
    PROVE  Key(w) \in Contacts
  BY DEF Key, Contacts

\* A request that does not move stays sound.
LEMMA OthersSound ==
    ASSUME IInv, TypeOK', Kept, NEW v \in Workers, req'[v] = req[v]
    PROVE  Sound(v)'
  <1>1. Sound(v) /\ TypeOK
    BY DEF IInv
  <1>2. Key(v)' = Key(v) /\ Key(v) \in Contacts
    BY KeyIsContact DEF Key
  <1>3. Has("phone") => Has("phone")'
    BY <1>1, RolesKept DEF Contacts
  <1>4. req[v].pc \in {"insertProfile", "insertStore"} =>
           req[v].copy.role # "user" /\ user'[Key(v)].role = req[v].copy.role
    <2>1. SUFFICES ASSUME req[v].pc \in {"insertProfile", "insertStore"}
                   PROVE  user'[Key(v)].role = req[v].copy.role
      BY <1>1 DEF Sound
    <2>2. user[Key(v)].role = req[v].copy.role
      BY <1>1, <2>1 DEF Sound
    <2>3. req[v].copy.role \in Roles
      BY <1>1, <2>1 DEF Sound
    <2>4. Has(Key(v))
      BY <2>2, <2>3, AccountsAssumption DEF Has
    <2>5. QED
      BY <1>1, <1>2, <2>2, <2>4, RolesKept
  <1>5. req[v].pc = "insertStore" => req[v].copy.role = "vendor" /\ Key(v) \in profile'
    BY <1>1 DEF Sound, Kept
  <1>6. req[v].pc \in {"saveAttempts", "lock", "consume"}
           => req[v].row \in DOMAIN challenge' /\ challenge'[req[v].row].purpose = req[v].purpose
    BY <1>1 DEF Sound, Kept
  <1>7. req[v].pc = "readUser" => ByReset(req[v].row)'
    <2>1. ASSUME req[v].pc = "readUser"
          PROVE  ByReset(req[v].row)'
      <3> DEFINE r == req[v].row
      <3>1. ByReset(r)
        BY <1>1, <2>1 DEF Sound
      <3>2. r' = r
        OBVIOUS
      <3>3. \A i : ByReset(i) => ByReset(i)'
        BY <1>1, ByResetKept
      <3>4. QED
        BY <3>1, <3>2, <3>3 DEF ByReset
    <2>2. QED
      BY <2>1
  <1>8. req[v].pc = "saveUser" =>
           ByReset(req[v].copy.password)' /\ req[v].copy.role = user'["phone"].role
    <2>1. ASSUME req[v].pc = "saveUser"
          PROVE  ByReset(req[v].copy.password)' /\ req[v].copy.role = user'["phone"].role
      <3>1. ByReset(req[v].copy.password) /\ req[v].copy.role = user["phone"].role
        BY <1>1, <2>1 DEF Sound
      <3>2. \A i : ByReset(i) => ByReset(i)'
        BY <1>1, ByResetKept
      <3>3. ByReset(req[v].copy.password)'
        BY <3>1, <3>2 DEF ByReset
      <3>4. user'["phone"].role = user["phone"].role
        BY <1>1, <2>1, SavesAccount, RolesKept DEF Contacts
      <3>5. QED
        BY <3>1, <3>3, <3>4
    <2>2. QED
      BY <2>1
  <1>9. QED
    BY <1>1, <1>2, <1>3, <1>4, <1>5, <1>6, <1>7, <1>8 DEF Sound

-----------------------------------------------------------------------------
(* Counting                                                                *)

\* The sets that are counted are finite.
LEMMA Countable ==
    ASSUME TypeOK
    PROVE  /\ Cardinality(Workers) \in Nat
           /\ \A S \in SUBSET Workers : /\ IsFiniteSet(S) /\ Cardinality(S) \in Nat
                                        /\ Cardinality(S) <= Cardinality(Workers)
           /\ \A P : IsFiniteSet(Open(P)) /\ Cardinality(Open(P)) \in Nat
  <1>1. \A S \in SUBSET Workers : /\ IsFiniteSet(S)
                                  /\ Cardinality(S) <= Cardinality(Workers)
    BY OtpAssumption, FS_Subset
  <1>2. ASSUME NEW P
        PROVE  IsFiniteSet(Open(P))
    <2>1. IsFiniteSet(1 .. Len(challenge))
      BY Rows, FS_Interval
    <2>2. Open(P) \subseteq 1 .. Len(challenge)
      BY Rows
    <2>3. QED
      BY <2>1, <2>2, FS_Subset
  <1>3. QED
    BY <1>1, <1>2, OtpAssumption, FS_CardinalityType

\* No challenge opens, and nobody else comes to insert one.
LEMMA OpenStays ==
    ASSUME TypeOK, OpenBounded, TypeOK',
           \A i \in DOMAIN challenge' :
              ~challenge'[i].consumed => /\ i \in DOMAIN challenge /\ ~challenge[i].consumed
                                         /\ challenge'[i].purpose = challenge[i].purpose,
           \A v \in Workers :
              req'[v].pc = "insert" => req[v].pc = "insert" /\ req'[v].purpose = req[v].purpose
    PROVE  OpenBounded'
  <1>1. ASSUME NEW p \in Purposes
        PROVE  Cardinality(Open({p}))' + Cardinality(Sending(p))' <= Cardinality(Workers)
    <2>1. Open({p})' \subseteq Open({p}) /\ Sending(p)' \subseteq Sending(p)
      BY DEF Open, Sending
    <2>2. IsFiniteSet(Open({p})) /\ Cardinality(Open({p})) \in Nat
      BY Countable
    <2>3. Sending(p) \subseteq Workers
      BY DEF Sending
    <2>4. IsFiniteSet(Sending(p)) /\ Cardinality(Sending(p)) \in Nat
      BY <2>3, Countable
    <2>5. /\ Cardinality(Open({p})') <= Cardinality(Open({p})) /\ Cardinality(Open({p})') \in Nat
          /\ Cardinality(Sending(p)') <= Cardinality(Sending(p)) /\ Cardinality(Sending(p)') \in Nat
      BY <2>1, <2>2, <2>4, FS_Subset, FS_CardinalityType
    <2>6. Cardinality(Open({p})) + Cardinality(Sending(p)) <= Cardinality(Workers)
      BY DEF OpenBounded
    <2>7. Cardinality(Workers) \in Nat
      BY Countable
    <2>8. QED
      BY <2>2, <2>4, <2>5, <2>6, <2>7
  <1>2. QED
    BY <1>1 DEF OpenBounded

\* Nothing is passed, and nobody else comes to hold a challenge.
LEMMA UsesStay ==
    ASSUME TypeOK, CodeUsesBounded, TypeOK', accepted' = accepted,
           \A v \in Workers :
              req'[v].pc \in {"saveAttempts", "consume"} =>
                 req[v].pc \in {"saveAttempts", "consume"} /\ req'[v].row = req[v].row
    PROVE  CodeUsesBounded'
  <1>1. ASSUME NEW i \in DOMAIN challenge'
        PROVE  accepted'[i] + Cardinality(Holding(i))' <= Cardinality(Workers)
    <2>1. i \in DOMAIN challenge
      <3>1. Len(challenge') = Len(challenge) /\ challenge' \in Seq(Challenge) /\ challenge \in Seq(Challenge)
        BY DEF TypeOK
      <3>2. QED
        BY <3>1
    <2>2. accepted[i] + Cardinality(Holding(i)) <= Cardinality(Workers)
      BY <2>1 DEF CodeUsesBounded
    <2>3. Holding(i)' \subseteq Holding(i) /\ Holding(i) \subseteq Workers
      BY DEF Holding
    <2>4. IsFiniteSet(Holding(i)) /\ Cardinality(Holding(i)) \in Nat
      BY <2>3, Countable
    <2>5. Cardinality(Holding(i)') <= Cardinality(Holding(i)) /\ Cardinality(Holding(i)') \in Nat
      BY <2>3, <2>4, FS_Subset, FS_CardinalityType
    <2>6. accepted[i] \in Nat
      BY <2>1, Rows
    <2>7. Cardinality(Workers) \in Nat
      BY Countable
    <2>8. QED
      BY <2>2, <2>4, <2>5, <2>6, <2>7
  <1>2. QED
    BY <1>1 DEF CodeUsesBounded
\* The password is left alone.
LEMMA PasswordStays ==
    ASSUME IInv, TypeOK', Kept, user'["phone"].password = user["phone"].password
    PROVE  PasswordByReset'
  <1>1. TypeOK /\ PasswordByReset
    BY DEF IInv
  <1>2. \A i : ByReset(i) => ByReset(i)'
    BY <1>1, ByResetKept
  <1>3. user["phone"].password # 0 => ByReset(user["phone"].password)
    BY <1>1 DEF PasswordByReset, ByReset
  <1>4. user["phone"].password # 0 => ByReset(user["phone"].password)'
    BY <1>2, <1>3 DEF ByReset
  <1>5. QED
    BY <1>4 DEF PasswordByReset, ByReset

\* The tables are left alone, and the request goes on completing what it was.
LEMMA WholeStays ==
    ASSUME IInv, NEW w \in Workers, UNCHANGED tables,
           \A v \in Workers \ {w} : req'[v] = req[v],
           challenge' # <<>> => Has("phone"),
           faults' = 0 => faults = 0 /\ \A k \in Contacts : Completing(k, w) => Completing(k, w)'
    PROVE  Whole'
  <1>1. \A k : Has(k)' = Has(k)
    BY DEF Has, tables
  <1>2. ASSUME faults' = 0, NEW k \in Contacts, NEW v \in Workers, Completing(k, v)
        PROVE  Completing(k, v)'
    BY <1>2 DEF Completing, Key
  <1>3. QED
    <2>1. faults' = 0 => faults = 0
      OBVIOUS
    <2>2. faults' = 0 => \A k \in Contacts :
             (\E v \in Workers : Completing(k, v)) => \E v \in Workers : Completing(k, v)'
      BY <1>2
    <2>3. user' = user /\ store' = store /\ profile' = profile
      BY DEF tables
    <2>4. Whole
      BY DEF IInv
    <2>5. QED
      BY <1>1, <2>1, <2>2, <2>3, <2>4 DEF Whole

\* A step of w keeps the invariant if it keeps what the others rely on.
LEMMA AlmostDone ==
    ASSUME IInv, NEW w \in Workers, TypeOK', Kept, Sound(w)',
           \A v \in Workers \ {w} : req'[v] = req[v],
           Passed', Whole', PasswordByReset', OpenBounded', CodeUsesBounded'
    PROVE  IInv'
  <1>1. ASSUME NEW v \in Workers
        PROVE  Sound(v)'
    <2>1. CASE v = w
      BY <2>1
    <2>2. CASE v # w
      BY <2>2, OthersSound
    <2>3. QED
      BY <2>1, <2>2
  <1>2. QED
    BY <1>1 DEF IInv

\* A step that only moves a request on, to where it neither inserts nor holds a
\* challenge.
LEMMA OnlyRequest ==
    ASSUME IInv, NEW w \in Workers, NEW r \in Request,
           req' = [req EXCEPT ![w] = r],
           r.pc \notin {"insert", "saveAttempts", "consume"},
           UNCHANGED <<codes, tables>>,
           LimitTyped', overlapped' \in BOOLEAN,
           requests' \in 0 .. MaxRequests, faults' \in 0 .. MaxFaults,
           Sound(w)',
           faults' = 0 => faults = 0 /\ req[w].pc \notin {"insertProfile", "insertStore"}
    PROVE  IInv'
  <1>1. TypeOK /\ OpenBounded /\ CodeUsesBounded /\ Passed /\ Whole
    BY DEF IInv
  <1>2. /\ challenge' = challenge /\ accepted' = accepted /\ guessed' = guessed
        /\ user' = user /\ profile' = profile /\ store' = store /\ registered' = registered
    BY DEF codes, tables
  <1>3. req \in [Workers -> Request] /\ req'[w] = r /\ \A v \in Workers \ {w} : req'[v] = req[v]
    BY <1>1 DEF TypeOK
  <1>4. TypeOK'
    BY <1>1, <1>2 DEF TypeOK
  <1>5. Kept
    <2>1. \A i \in DOMAIN challenge : accepted[i] >= accepted[i]
      BY <1>1, Rows
    <2>2. QED
      BY <1>2, <2>1 DEF Kept
  <1>6. Passed'
    BY <1>1, <1>2 DEF Passed
  <1>7. OpenBounded'
    BY <1>1, <1>2, <1>3, <1>4, OpenStays
  <1>8. CodeUsesBounded'
    BY <1>1, <1>2, <1>3, <1>4, UsesStay
  <1>9. PasswordByReset'
    BY <1>2, <1>4, <1>5, PasswordStays
  <1>10. Whole'
    BY <1>1, <1>2, <1>3, WholeStays DEF Whole, Completing
  <1>11. QED
    BY <1>3, <1>4, <1>5, <1>6, <1>7, <1>8, <1>9, <1>10, AlmostDone
-----------------------------------------------------------------------------
(* The steps that only move a request on                                   *)

\* What such a step starts from.
LEMMA Reads ==
    ASSUME IInv, NEW w \in Workers
    PROVE  /\ TypeOK /\ Sound(w) /\ req[w] \in Request
           /\ faults \in 0 .. MaxFaults /\ requests \in 0 .. MaxRequests /\ overlapped \in BOOLEAN
           /\ LimitTyped /\ (UNCHANGED limits => LimitTyped')
           /\ \A r : req' = [req EXCEPT ![w] = r] => req'[w] = r
  BY DEF IInv, TypeOK, LimitTyped, limits, Ages

LEMMA IdleTyped == Idle \in Request /\ NoUser \in User
  BY DEF Idle, Request, PCs, Views, Purposes, NoUser, User

\* A request is answered.
LEMMA Answered ==
    ASSUME IInv, NEW w \in Workers, req' = [req EXCEPT ![w] = Idle],
           UNCHANGED <<codes, tables>>, LimitTyped', overlapped' = overlapped,
           requests' \in 0 .. MaxRequests, faults' \in 0 .. MaxFaults,
           faults' = 0 => faults = 0 /\ req[w].pc \notin {"insertProfile", "insertStore"}
    PROVE  IInv'
  <1>1. req'[w] = Idle
    BY Reads
  <1>2. Sound(w)'
    BY <1>1 DEF Sound, Idle, NoUser
  <1>3. Idle.pc \notin {"insert", "saveAttempts", "consume"}
    BY DEF Idle
  <1>4. QED
    BY <1>2, <1>3, IdleTyped, Reads, OnlyRequest

\* A request goes on to pc with no other knowledge than it had.
LEMMA WentOn ==
    ASSUME IInv, NEW w \in Workers, NEW pc \in PCs, Goto(w, pc),
           req[w].pc # "saveUser", req[w].pc \notin {"insertProfile", "insertStore"},
           pc \in {"send", "insertUser", "readChallenge"},
           req[w].pc # "idle",
           pc = "send" => Has("phone"),
           pc = "insertUser" => req[w].pc = "checkUser",
           UNCHANGED <<codes, tables, limits, counted>>
    PROVE  IInv'
  <1> DEFINE r == [req[w] EXCEPT !.pc = pc]
  <1>1. r \in Request
    BY Reads DEF Request
  <1>2. req' = [req EXCEPT ![w] = r]
    BY DEF Goto
  <1>3. req'[w] = r
    BY <1>2, Reads
  <1>4. Has("phone")' = Has("phone")
    BY DEF Has, tables
  <1>5. Sound(w)'
    <2>1. Sound(w)
      BY Reads
    <2>2. req[w].pc \in PCs /\ r.pc = pc /\ r.view = req[w].view /\ r.purpose = req[w].purpose
             /\ r.copy = req[w].copy
      BY Reads DEF Request
    <2>3. QED
      BY <1>3, <1>4, <2>1, <2>2 DEF Sound
  <1>6. faults' = faults /\ requests' = requests /\ overlapped' = overlapped
    BY DEF counted
  <1>7. LimitTyped' /\ UNCHANGED <<codes, tables>>
    BY Reads
  <1>8. r.pc \notin {"insert", "saveAttempts", "consume"}
    BY Reads DEF Request
  <1>9. QED
    BY <1>1, <1>2, <1>5, <1>6, <1>7, <1>8, Reads, OnlyRequest

LEMMA ArriveKeeps ==
    ASSUME IInv, NEW w \in Workers, Arrive(w)
    PROVE  IInv'
  <1>1. PICK view \in Views : \E r \in Asked(view) :
           req' = [req EXCEPT ![w] =
                     [r EXCEPT !.view = view, !.purpose = Purpose(view), !.n = Seen("api"),
                               !.pc = IF Limit["api"] = 0 THEN First(view) ELSE "countRequest"]]
    BY DEF Arrive
  <1>2. PICK a \in Asked(view) :
           req' = [req EXCEPT ![w] =
                     [a EXCEPT !.view = view, !.purpose = Purpose(view), !.n = Seen("api"),
                               !.pc = IF Limit["api"] = 0 THEN First(view) ELSE "countRequest"]]
    BY <1>1
  <1> DEFINE r == [a EXCEPT !.view = view, !.purpose = Purpose(view), !.n = Seen("api"),
                            !.pc = IF Limit["api"] = 0 THEN First(view) ELSE "countRequest"]
  <1>3. /\ a \in Request /\ a.copy.password = 0
        /\ view \in {"signup", "register"} => a.copy.role \in Roles
        /\ view = "device" => Has("phone")
    <2>1. CASE view \in {"signup", "register"}
      <3>1. PICK role \in Roles : a = [Idle EXCEPT !.copy.role = role]
        BY <1>2, <2>1 DEF Asked
      <3>2. a = [Idle EXCEPT !.copy = [NoUser EXCEPT !.role = role]]
        BY <3>1 DEF Idle
      <3>3. [NoUser EXCEPT !.role = role] \in User
        BY DEF User, NoUser
      <3>4. QED
        BY <2>1, <3>2, <3>3, IdleTyped DEF Request, Idle, NoUser
    <2>2. CASE view = "device"
      <3>1. Has("phone")
        BY <1>2, <2>2 DEF Asked
      <3>2. PICK d \in Devices : a = [Idle EXCEPT !.copy.device = d]
        BY <1>2, <2>2, <3>1 DEF Asked
      <3>3. a = [Idle EXCEPT !.copy = [NoUser EXCEPT !.device = d]]
        BY <3>2 DEF Idle
      <3>4. [NoUser EXCEPT !.device = d] \in User
        BY DEF User, NoUser
      <3>5. QED
        BY <2>2, <3>1, <3>3, <3>4, IdleTyped DEF Request, Idle, NoUser
    <2>3. CASE view \in {"verify", "confirm"}
      <3>1. PICK i \in {0} \cup DOMAIN challenge : a = [Idle EXCEPT !.guess = i]
        BY <1>2, <2>3 DEF Asked
      <3>2. i \in Nat
        BY <3>1, Reads, Rows
      <3>3. QED
        BY <2>3, <3>1, <3>2, IdleTyped DEF Request, Idle, NoUser
    <2>4. CASE view \notin {"signup", "register", "device", "verify", "confirm"}
      <3>1. a = Idle
        BY <1>2, <2>4 DEF Asked
      <3>2. QED
        BY <2>4, <3>1, IdleTyped DEF Idle, NoUser
    <2>5. QED
      BY <2>1, <2>2, <2>3, <2>4
  <1>4. First(view) \in PCs \ {"insert", "saveAttempts", "consume"} /\ Purpose(view) \in Purposes
    BY <1>1 DEF First, Purpose, PCs, Purposes, Views
  <1>5. Seen("api") \in Nat
    BY Reads DEF LimitTyped, Keys, Seen
  <1>6. /\ r \in Request /\ r.view = view /\ r.purpose = Purpose(view) /\ r.copy = a.copy
        /\ r.pc \in {First(view), "countRequest"}
    BY <1>3, <1>4, <1>5 DEF Request, PCs
  <1>7. req' = [req EXCEPT ![w] = r] /\ req'[w] = r
    BY <1>2, Reads
  <1>8. Has("phone")' = Has("phone")
    BY DEF Has, tables, Arrive
  <1>9. Sound(w)'
    <2>1. /\ view = "confirm" => Purpose(view) = "reset_password"
          /\ First(view) \in {"checkUser", "findUser", "newest", "readChallenge", "saveDevice"}
          /\ First(view) = "checkUser" => view \in {"signup", "register"}
          /\ First(view) = "newest" => view = "verify"
          /\ First(view) = "saveDevice" => view = "device"
      BY <1>1 DEF First, Purpose, Views
    <2>2. QED
      BY <1>3, <1>6, <1>7, <1>8, <2>1 DEF Sound
  <1>10. /\ requests' \in 0 .. MaxRequests /\ overlapped' \in BOOLEAN /\ faults' = faults
         /\ UNCHANGED <<codes, tables, limits>>
    <2>1. requests < MaxRequests /\ requests' = requests + 1
      BY DEF Arrive
    <2>2. QED
      BY <2>1, Reads, AccountsAssumption DEF Arrive
  <1>11. r.pc \notin {"insert", "saveAttempts", "consume"}
    BY <1>4, <1>6
  <1>12. req[w].pc = "idle"
    BY DEF Arrive
  <1>13. QED
    BY <1>6, <1>7, <1>9, <1>10, <1>11, <1>12, Reads, OnlyRequest
LEMMA CountRequestKeeps ==
    ASSUME IInv, NEW w \in Workers, CountRequest(w)
    PROVE  IInv'
  <1> DEFINE r == [req[w] EXCEPT !.pc = First(req[w].view), !.n = 0]
  <1>1. req[w] \in Request /\ req[w].pc = "countRequest" /\ Sound(w)
    BY Reads DEF CountRequest
  <1>2. LimitTyped'
    <2>1. req[w].n \in Nat
      BY <1>1 DEF Request
    <2>2. QED
      BY <2>1, Reads, CountTyped DEF CountRequest, Keys
  <1>3. req' = [req EXCEPT ![w] = r] /\ req'[w] = r
    <2>1. req' = [req EXCEPT ![w].pc = First(req[w].view), ![w].n = 0]
      BY DEF CountRequest
    <2>2. req \in [Workers -> Request]
      BY Reads DEF TypeOK
    <2>3. req' = [req EXCEPT ![w] = r]
      BY <2>1, <2>2 DEF Request
    <2>4. QED
      BY <2>3, Reads
  <1>4. /\ First(req[w].view) \in PCs \ {"insert", "saveAttempts", "consume"}
        /\ First(req[w].view) \in {"checkUser", "findUser", "newest", "readChallenge", "saveDevice"}
        /\ First(req[w].view) = "checkUser" => req[w].view \in {"signup", "register"}
        /\ First(req[w].view) = "newest" => req[w].view = "verify"
        /\ First(req[w].view) = "saveDevice" => req[w].view = "device"
    BY <1>1 DEF First, PCs, Request, Views
  <1>5. r \in Request /\ r.pc = First(req[w].view) /\ r.view = req[w].view
           /\ r.purpose = req[w].purpose /\ r.copy = req[w].copy
    BY <1>1, <1>4 DEF Request
  <1>6. req[w].view = "device" => Has("phone")
    BY <1>1 DEF Sound
  <1>7. Sound(w)'
    BY <1>1, <1>3, <1>4, <1>5, <1>6 DEF Sound, Has, tables, CountRequest
  <1>8. /\ UNCHANGED <<codes, tables>>
        /\ overlapped' = overlapped /\ requests' = requests /\ faults' = faults
    BY DEF CountRequest, counted
  <1>9. QED
    BY <1>1, <1>2, <1>3, <1>4, <1>5, <1>7, <1>8, Reads, OnlyRequest
LEMMA CheckUserKeeps ==
    ASSUME IInv, NEW w \in Workers, CheckUser(w)
    PROVE  IInv'
  <1>1. /\ req[w].pc = "checkUser" /\ UNCHANGED <<limits, codes, tables, counted>>
        /\ overlapped' = overlapped /\ requests' = requests /\ faults' = faults
    BY DEF CheckUser, counted
  <1>2. CASE Answer(w)
    BY <1>1, <1>2, Reads, Answered DEF Answer
  <1>3. CASE Goto(w, "insertUser")
    BY <1>1, <1>3, WentOn DEF PCs
  <1>4. QED
    BY <1>2, <1>3 DEF CheckUser

LEMMA FindUserKeeps ==
    ASSUME IInv, NEW w \in Workers, FindUser(w)
    PROVE  IInv'
  <1>1. /\ req[w].pc = "findUser" /\ UNCHANGED <<limits, codes, tables, counted>>
        /\ overlapped' = overlapped /\ requests' = requests /\ faults' = faults
    BY DEF FindUser, counted
  <1>2. CASE Answer(w)
    BY <1>1, <1>2, Reads, Answered DEF Answer
  <1>3. CASE Goto(w, "send") /\ Has("phone")
    BY <1>1, <1>3, WentOn DEF PCs
  <1>4. QED
    BY <1>2, <1>3 DEF FindUser

\* The challenge that the newest open one, or the newest of a purpose, is.
LEMMA NewestIsOpen ==
    ASSUME TypeOK, NEW P, Open(P) # {}
    PROVE  /\ Max(Open(P)) \in Open(P)
           /\ Max(Open(P)) \in DOMAIN challenge /\ Max(Open(P)) \in Nat
           /\ challenge[Max(Open(P))] \in Challenge
  <1>1. Open(P) \in SUBSET (1 .. Len(challenge)) /\ Len(challenge) \in Nat
    BY Rows
  <1>2. Max(Open(P)) \in Open(P)
    BY <1>1, MaxExists
  <1>3. QED
    BY <1>1, <1>2, Rows

LEMMA ReadNewestKeeps ==
    ASSUME IInv, NEW w \in Workers, ReadNewest(w)
    PROVE  IInv'
  <1>1. /\ req[w].pc = "newest" /\ UNCHANGED <<limits, codes, tables, counted>>
        /\ overlapped' = overlapped /\ requests' = requests /\ faults' = faults
    BY DEF ReadNewest, counted
  <1>2. CASE Answer(w)
    BY <1>1, <1>2, Reads, Answered DEF Answer
  <1>3. CASE Open(Purposes) # {}
    <2> DEFINE p == challenge[Max(Open(Purposes))].purpose
               r == [req[w] EXCEPT !.pc = "readChallenge", !.purpose = p]
    <2>1. p \in Purposes
      BY <1>3, Reads, NewestIsOpen DEF Challenge
    <2>2. req' = [req EXCEPT ![w].pc = "readChallenge", ![w].purpose = p]
      BY <1>3 DEF ReadNewest
    <2>3. req \in [Workers -> Request]
      BY Reads DEF TypeOK
    <2> HIDE DEF p
    <2>4. req' = [req EXCEPT ![w] = r] /\ req'[w] = r
      BY <2>2, <2>3 DEF Request
    <2>5. r \in Request
      BY <2>1, <2>3 DEF Request, PCs
    <2>6. req[w].view = "verify" /\ r.view = "verify" /\ r.copy = req[w].copy
      BY <1>1, <2>3, Reads DEF Sound, Request
    <2>7. Sound(w)'
      <3>1. r.pc = "readChallenge"
        BY <2>3 DEF Request
      <3>2. r.copy.password = 0
        BY <1>1, <2>6, Reads DEF Sound
      <3>3. QED
        BY <2>4, <2>6, <3>1, <3>2 DEF Sound
    <2>8. r.pc \notin {"insert", "saveAttempts", "consume"}
      BY <2>3 DEF Request
    <2>9. LimitTyped'
      BY <1>1, Reads
    <2>10. QED
      BY <1>1, <2>4, <2>5, <2>7, <2>8, <2>9, Reads, OnlyRequest
  <1>4. QED
    BY <1>2, <1>3 DEF ReadNewest

LEMMA ReadUserKeeps ==
    ASSUME IInv, NEW w \in Workers, ReadUser(w)
    PROVE  IInv'
  <1>1. /\ req[w].pc = "readUser" /\ UNCHANGED <<limits, codes, tables, counted>>
        /\ overlapped' = overlapped /\ requests' = requests /\ faults' = faults
    BY DEF ReadUser, counted
  <1> DEFINE u == [user["phone"] EXCEPT !.password = req[w].row]
             r == [req[w] EXCEPT !.pc = "saveUser", !.copy = u]
  <1>2. req \in [Workers -> Request] /\ user["phone"] \in User
    BY Reads DEF TypeOK, Contacts
  <1>3. u \in User /\ u.password = req[w].row /\ u.role = user["phone"].role
    BY <1>2 DEF Request, User
  <1>4. req' = [req EXCEPT ![w].pc = "saveUser", ![w].copy = u]
    BY DEF ReadUser
  <1> HIDE DEF u
  <1>5. req' = [req EXCEPT ![w] = r] /\ req'[w] = r
    BY <1>2, <1>4 DEF Request
  <1>6. r \in Request
    BY <1>2, <1>3 DEF Request, PCs
  <1>7. r.pc = "saveUser" /\ r.copy = u /\ r.view = req[w].view /\ r.purpose = req[w].purpose
    BY <1>2 DEF Request
  <1>8. ByReset(req[w].row)
    BY <1>1, Reads DEF Sound
  <1>9. u.role \in Roles
    BY <1>1, <1>3, SavesAccount, <1>2 DEF Has, User
  <1>10. Has("phone")
    BY <1>1, SavesAccount
  <1>11. /\ u.password \in DOMAIN challenge' /\ challenge'[u.password].purpose = "reset_password"
         /\ accepted'[u.password] > 0
    BY <1>1, <1>3, <1>8 DEF ByReset, codes
  <1>12. Sound(w)'
    <2>1. /\ user'["phone"] = user["phone"] /\ Has("phone")'
          /\ req[w].view = "confirm" => req[w].purpose = "reset_password"
      BY <1>1, <1>10, Reads DEF tables, Has, Sound
    <2>2. ByReset(req[w].copy.password)'
      BY <1>5, <1>7, <1>11 DEF ByReset
    <2>3. QED
      BY <1>3, <1>5, <1>7, <1>9, <2>1, <2>2 DEF Sound
  <1>13. LimitTyped'
    BY <1>1, Reads
  <1>14. QED
    BY <1>1, <1>5, <1>6, <1>7, <1>12, <1>13, Reads, OnlyRequest

LEMMA FailKeeps ==
    ASSUME IInv, NEW w \in Workers, Fail(w)
    PROVE  IInv'
  <1>1. /\ UNCHANGED <<limits, codes, tables, overlapped, requests>>
        /\ faults < MaxFaults /\ faults' = faults + 1 /\ Answer(w)
    BY DEF Fail
  <1>2. faults' \in 0 .. MaxFaults /\ faults' # 0 /\ LimitTyped'
    BY <1>1, Reads, AccountsAssumption
  <1>3. QED
    BY <1>1, <1>2, Answered, Reads DEF Answer

LEMMA AskCodeKeeps ==
    ASSUME IInv, NEW w \in Workers, AskCode(w)
    PROVE  IInv'
  <1>1. /\ req[w].pc = "send" /\ UNCHANGED <<codes, limits, tables>>
        /\ overlapped' = overlapped /\ requests' \in 0 .. MaxRequests /\ faults' = faults
    BY Reads, AccountsAssumption DEF AskCode, ReadCount, codes, limits
  <1>2. LimitTyped'
    BY <1>1, Reads
  <1>3. CASE Refused("otp")
    BY <1>1, <1>2, <1>3, Reads, Answered DEF AskCode, ReadCount
  <1>4. CASE ~Refused("otp")
    <2> DEFINE r == [req[w] EXCEPT !.pc = "consumeOld", !.n = Seen("otp")]
    <2>1. req' = [req EXCEPT ![w].pc = "consumeOld", ![w].n = Seen("otp")]
      BY <1>4 DEF AskCode, ReadCount
    <2>2. req \in [Workers -> Request] /\ Seen("otp") \in Nat
      BY Reads DEF TypeOK, LimitTyped, Seen, Keys
    <2>3. req' = [req EXCEPT ![w] = r] /\ req'[w] = r /\ r \in Request
      BY <2>1, <2>2 DEF Request, PCs
    <2>4. /\ r.pc = "consumeOld" /\ r.view = req[w].view /\ r.purpose = req[w].purpose
          /\ r.copy = req[w].copy
      BY <2>2 DEF Request
    <2>5. Sound(w)'
      BY <1>1, <2>3, <2>4, Reads DEF Sound, Has, tables
    <2>6. QED
      BY <1>1, <1>2, <2>3, <2>4, <2>5, Reads, OnlyRequest
  <1>5. QED
    BY <1>3, <1>4

LEMMA CountCodeKeeps ==
    ASSUME IInv, NEW w \in Workers, CountCode(w, Idle), UNCHANGED <<tables, counted>>
    PROVE  IInv'
  <1>1. /\ req[w].pc = "countCode" /\ UNCHANGED codes /\ req' = [req EXCEPT ![w] = Idle]
        /\ overlapped' = overlapped /\ requests' = requests /\ faults' = faults
    BY DEF CountCode, counted, codes
  <1>2. LimitTyped'
    <2>1. req[w].n \in Nat
      BY Reads DEF Request
    <2>2. QED
      BY <2>1, Reads, CountTyped DEF CountCode, Keys
  <1>3. QED
    BY <1>1, <1>2, Reads, Answered
-----------------------------------------------------------------------------
(* The steps that write challenges                                         *)

\* What such a step must show.
LEMMA CodesWritten ==
    ASSUME IInv, NEW w \in Workers, NEW r \in Request, req' = [req EXCEPT ![w] = r],
           UNCHANGED <<limits, tables, counted>>,
           challenge' \in Seq(Challenge),
           accepted' \in Seq(Nat), Len(accepted') = Len(challenge'),
           guessed' \in Seq(Nat), Len(guessed') = Len(challenge'),
           req[w].pc \notin {"insertProfile", "insertStore"},
           \A i \in DOMAIN challenge : /\ i \in DOMAIN challenge'
                                       /\ challenge'[i].purpose = challenge[i].purpose
                                       /\ accepted'[i] >= accepted[i],
           challenge' # <<>> => Has("phone"),
           Sound(w)', Passed',
           TypeOK' => OpenBounded' /\ CodeUsesBounded'
    PROVE  IInv'
  <1>1. TypeOK /\ \A v \in Workers \ {w} : req'[v] = req[v]
    BY Reads DEF TypeOK
  <1>2. TypeOK'
    <2>1. req' \in [Workers -> Request]
      BY Reads DEF TypeOK
    <2>2. LimitTyped'
      BY Reads
    <2>3. QED
      BY <1>1, <2>1, <2>2 DEF TypeOK, tables, counted
  <1>3. Kept
    BY DEF Kept, tables
  <1>4. PasswordByReset'
    BY <1>2, <1>3, PasswordStays DEF tables
  <1>5. Whole'
    BY <1>1, WholeStays DEF counted, Completing
  <1>6. QED
    BY <1>1, <1>2, <1>3, <1>4, <1>5, AlmostDone

\* The request that writes is at none of the steps that count.
LEMMA RequestMoved ==
    ASSUME IInv, NEW w \in Workers, NEW r \in Request, req' = [req EXCEPT ![w] = r]
    PROVE  req'[w] = r /\ \A v \in Workers : v # w => req'[v] = req[v]
  BY Reads DEF TypeOK

\* One row is written.
LEMMA RowWritten ==
    ASSUME TypeOK, NEW i \in DOMAIN challenge, NEW c \in Challenge,
           challenge' = [challenge EXCEPT ![i] = c]
    PROVE  /\ challenge' \in Seq(Challenge) /\ Len(challenge') = Len(challenge)
           /\ DOMAIN challenge' = DOMAIN challenge
           /\ \A j \in DOMAIN challenge : challenge'[j] = IF j = i THEN c ELSE challenge[j]
           /\ challenge # <<>>
  BY Rows

LEMMA LockKeeps ==
    ASSUME IInv, NEW w \in Workers, Lock(w, Idle), UNCHANGED <<tables, counted>>
    PROVE  IInv'
  <1> DEFINE i == req[w].row
             c == [challenge[i] EXCEPT !.consumed = TRUE]
  <1>1. req[w].pc = "lock" /\ req' = [req EXCEPT ![w] = Idle] /\ UNCHANGED limits
           /\ accepted' = accepted /\ guessed' = guessed
    BY DEF Lock, limits
  <1>2. i \in DOMAIN challenge
    BY <1>1, Reads DEF Sound
  <1>3. challenge[i] \in Challenge /\ TypeOK /\ \A j \in DOMAIN challenge : accepted[j] >= accepted[j]
    <2>1. TypeOK
      BY Reads
    <2>2. QED
      BY <1>2, <2>1, Rows
  <1>4. c \in Challenge /\ c.consumed /\ c.purpose = challenge[i].purpose
    BY <1>3 DEF Challenge
  <1>5. challenge' = [challenge EXCEPT ![i] = c]
    BY DEF Lock
  <1>6. /\ challenge' \in Seq(Challenge) /\ Len(challenge') = Len(challenge)
        /\ DOMAIN challenge' = DOMAIN challenge
        /\ \A j \in DOMAIN challenge : challenge'[j] = IF j = i THEN c ELSE challenge[j]
        /\ challenge # <<>>
    <2> HIDE DEF c, i
    <2> QED BY <1>2, <1>3, <1>4, <1>5, RowWritten
  <1>7. req'[w] = Idle /\ \A v \in Workers : v # w => req'[v] = req[v]
    BY <1>1, IdleTyped, RequestMoved
  <1>8. Sound(w)'
    BY <1>7 DEF Sound, Idle, NoUser
  <1>9. Passed'
    BY <1>1, <1>4, <1>6 DEF Passed, IInv
  <1>10. ASSUME TypeOK'
         PROVE  OpenBounded' /\ CodeUsesBounded'
    <2>1. OpenBounded'
      <3>1. \A j \in DOMAIN challenge' :
               ~challenge'[j].consumed => /\ j \in DOMAIN challenge /\ ~challenge[j].consumed
                                          /\ challenge'[j].purpose = challenge[j].purpose
        BY <1>4, <1>6
      <3>2. \A v \in Workers :
               req'[v].pc = "insert" => req[v].pc = "insert" /\ req'[v].purpose = req[v].purpose
        BY <1>7 DEF Idle
      <3>3. QED
        BY <1>3, <1>10, <3>1, <3>2, OpenStays DEF IInv
    <2>2. CodeUsesBounded'
      BY <1>1, <1>3, <1>7, <1>10, UsesStay DEF IInv, Idle
    <2>3. QED
      BY <2>1, <2>2
  <1>11. Has("phone")
    BY <1>6 DEF IInv, Whole
  <1> HIDE DEF c, i
  <1>12. /\ accepted' \in Seq(Nat) /\ Len(accepted') = Len(challenge')
         /\ guessed' \in Seq(Nat) /\ Len(guessed') = Len(challenge')
    BY <1>1, <1>3, <1>6 DEF TypeOK
  <1>13. \A j \in DOMAIN challenge : /\ j \in DOMAIN challenge'
                                     /\ challenge'[j].purpose = challenge[j].purpose
                                     /\ accepted'[j] >= accepted[j]
    BY <1>1, <1>3, <1>4, <1>6
  <1>14. QED
    BY <1>1, <1>6, <1>8, <1>9, <1>10, <1>11, <1>12, <1>13, IdleTyped, CodesWritten
LEMMA SaveAttemptsKeeps ==
    ASSUME IInv, NEW w \in Workers, SaveAttempts(w, Idle), UNCHANGED <<tables, counted>>
    PROVE  IInv'
  <1> DEFINE i == req[w].row
             c == [challenge[i] EXCEPT !.attempts = req[w].n]
  <1>1. req[w].pc = "saveAttempts" /\ UNCHANGED limits /\ accepted' = accepted
    BY DEF SaveAttempts, limits
  <1>2. /\ Sound(w) /\ TypeOK /\ req[w] \in Request /\ req \in [Workers -> Request]
        /\ i \in DOMAIN challenge
    BY <1>1, Reads DEF Sound, TypeOK
  <1>3. challenge[i] \in Challenge /\ i \in 1 .. Len(challenge)
           /\ \A j \in DOMAIN challenge : accepted[j] >= accepted[j]
    BY <1>2, Rows
  <1>4. c \in Challenge /\ c.consumed = challenge[i].consumed /\ c.purpose = challenge[i].purpose
    BY <1>2, <1>3 DEF Challenge, Request
  <1>5. challenge' = [challenge EXCEPT ![i] = c]
    BY DEF SaveAttempts
  <1>6. /\ challenge' \in Seq(Challenge) /\ Len(challenge') = Len(challenge)
        /\ DOMAIN challenge' = DOMAIN challenge
        /\ \A j \in DOMAIN challenge : challenge'[j] = IF j = i THEN c ELSE challenge[j]
        /\ challenge # <<>>
    <2> HIDE DEF c, i
    <2> QED BY <1>2, <1>4, <1>5, RowWritten
  <1>7. PICK r \in {Idle, [req[w] EXCEPT !.pc = "lock"], [req[w] EXCEPT !.pc = "consume"]} :
           req' = [req EXCEPT ![w] = r]
    BY DEF SaveAttempts, Goto
  <1>8. /\ r \in Request /\ r.pc \in {"idle", "lock", "consume"}
        /\ r = Idle \/ /\ r.pc \in {"lock", "consume"} /\ r.row = i /\ r.view = req[w].view
                       /\ r.purpose = req[w].purpose /\ r.copy = req[w].copy
    BY <1>2, <1>7, IdleTyped DEF Request, PCs, Idle
  <1>9. req'[w] = r /\ \A v \in Workers : v # w => req'[v] = req[v]
    BY <1>7, <1>8, RequestMoved
  <1>10. Sound(w)'
    <2>1. CASE r = Idle
      BY <1>9, <2>1 DEF Sound, Idle, NoUser
    <2>2. CASE r # Idle
      <3>1. i \in DOMAIN challenge' /\ challenge'[i].purpose = req[w].purpose
        BY <1>1, <1>2, <1>4, <1>6 DEF Sound
      <3>2. QED
        BY <1>1, <1>2, <1>8, <1>9, <2>2, <3>1 DEF Sound, Has, tables
    <2>3. QED
      BY <2>1, <2>2
  <1>11. Passed'
    BY <1>1, <1>4, <1>6 DEF Passed, IInv
  <1>12. ASSUME TypeOK'
         PROVE  OpenBounded' /\ CodeUsesBounded'
    <2>1. \A j \in DOMAIN challenge' :
             ~challenge'[j].consumed => /\ j \in DOMAIN challenge /\ ~challenge[j].consumed
                                        /\ challenge'[j].purpose = challenge[j].purpose
      BY <1>4, <1>6
    <2>2. \A v \in Workers :
             req'[v].pc = "insert" => req[v].pc = "insert" /\ req'[v].purpose = req[v].purpose
      BY <1>8, <1>9
    <2>3. \A v \in Workers :
             req'[v].pc \in {"saveAttempts", "consume"} =>
                req[v].pc \in {"saveAttempts", "consume"} /\ req'[v].row = req[v].row
      BY <1>1, <1>8, <1>9 DEF Idle
    <2>4. QED
      BY <1>1, <1>2, <1>12, <2>1, <2>2, <2>3, OpenStays, UsesStay DEF IInv
  <1>13. Has("phone")
    BY <1>6 DEF IInv, Whole
  <1>14. guessed' \in Seq(Nat) /\ Len(guessed') = Len(challenge)
    <2>1. guessed \in Seq(Nat) /\ Len(guessed) = Len(challenge)
      BY <1>2 DEF TypeOK
    <2>2. guessed' = guessed \/ guessed' = [guessed EXCEPT ![i] = @ + 1]
      BY DEF SaveAttempts
    <2> HIDE DEF i
    <2>3. QED
      BY <1>3, <2>1, <2>2
  <1> HIDE DEF c, i
  <1>15. /\ accepted' \in Seq(Nat) /\ Len(accepted') = Len(challenge')
         /\ guessed' \in Seq(Nat) /\ Len(guessed') = Len(challenge')
    BY <1>1, <1>2, <1>6, <1>14 DEF TypeOK
  <1>16. \A j \in DOMAIN challenge : /\ j \in DOMAIN challenge'
                                     /\ challenge'[j].purpose = challenge[j].purpose
                                     /\ accepted'[j] >= accepted[j]
    BY <1>1, <1>3, <1>4, <1>6
  <1>17. QED
    BY <1>1, <1>6, <1>7, <1>8, <1>10, <1>11, <1>12, <1>13, <1>15, <1>16, CodesWritten

LEMMA ConsumeKeeps ==
    ASSUME IInv, NEW w \in Workers, UNCHANGED <<tables, counted>>,
           Consume(w, IF req[w].view = "confirm" THEN [req[w] EXCEPT !.pc = "readUser"] ELSE Idle)
    PROVE  IInv'
  <1> DEFINE i == req[w].row
             c == [challenge[i] EXCEPT !.consumed = TRUE]
             r == IF req[w].view = "confirm" THEN [req[w] EXCEPT !.pc = "readUser"] ELSE Idle
  <1>1. req[w].pc = "consume" /\ UNCHANGED limits /\ guessed' = guessed
           /\ accepted' = [accepted EXCEPT ![i] = @ + 1] /\ req' = [req EXCEPT ![w] = r]
    BY DEF Consume, limits
  <1>2. /\ Sound(w) /\ TypeOK /\ req[w] \in Request /\ req \in [Workers -> Request]
        /\ i \in DOMAIN challenge /\ challenge[i].purpose = req[w].purpose
    BY <1>1, Reads DEF Sound, TypeOK
  <1>3. challenge[i] \in Challenge /\ i \in 1 .. Len(challenge)
    BY <1>2, Rows
  <1>4. c \in Challenge /\ c.consumed /\ c.purpose = challenge[i].purpose
    BY <1>3 DEF Challenge
  <1>5. challenge' = [challenge EXCEPT ![i] = c]
    BY DEF Consume
  <1>6. /\ challenge' \in Seq(Challenge) /\ Len(challenge') = Len(challenge)
        /\ DOMAIN challenge' = DOMAIN challenge
        /\ \A j \in DOMAIN challenge : challenge'[j] = IF j = i THEN c ELSE challenge[j]
        /\ challenge # <<>>
    <2> HIDE DEF c, i
    <2> QED BY <1>2, <1>4, <1>5, RowWritten
  <1>7. /\ r \in Request
        /\ r = Idle \/ /\ r.pc = "readUser" /\ r.row = i /\ r.view = req[w].view
                       /\ r.purpose = "reset_password" /\ r.purpose = req[w].purpose
                       /\ r.copy = req[w].copy
    BY <1>2, IdleTyped DEF Request, PCs, Sound
  <1>8. accepted' \in Seq(Nat) /\ Len(accepted') = Len(challenge)
           /\ \A j \in DOMAIN challenge : /\ accepted[j] \in Nat
                                          /\ accepted'[j] = IF j = i THEN accepted[j] + 1 ELSE accepted[j]
    <2>1. accepted \in Seq(Nat) /\ Len(accepted) = Len(challenge) /\ challenge \in Seq(Challenge)
      BY <1>2 DEF TypeOK
    <2> HIDE DEF i, r
    <2>2. QED
      BY <1>1, <1>3, <2>1
  <1> HIDE DEF r
  <1>9. req'[w] = r /\ \A v \in Workers : v # w => req'[v] = req[v]
    BY <1>1, <1>7, RequestMoved
  <1>10. Sound(w)'
    <2>1. CASE r = Idle
      BY <1>9, <2>1 DEF Sound, Idle, NoUser
    <2>2. CASE r # Idle
      <3>1. i \in DOMAIN challenge' /\ challenge'[i].purpose = "reset_password" /\ accepted'[i] > 0
        <4>1. accepted[i] \in Nat /\ accepted'[i] = accepted[i] + 1
          BY <1>2, <1>8
        <4>2. req[w].purpose = "reset_password"
          BY <1>7, <2>2
        <4>3. challenge'[i] = c /\ i \in DOMAIN challenge'
          BY <1>2, <1>6
        <4> HIDE DEF c, i
        <4>4. QED
          BY <1>2, <1>4, <4>1, <4>2, <4>3
      <3>2. ByReset(req[w].row)'
        BY <1>7, <1>9, <2>2, <3>1 DEF ByReset
      <3>3. QED
        BY <1>1, <1>2, <1>7, <1>9, <2>2, <3>2 DEF Sound, Has, tables
    <2>3. QED
      BY <2>1, <2>2
  <1>11. Passed'
    BY <1>4, <1>6, <1>8 DEF Passed, IInv
  <1>12. ASSUME TypeOK'
         PROVE  OpenBounded' /\ CodeUsesBounded'
    <2>1. OpenBounded'
      <3>1. \A j \in DOMAIN challenge' :
               ~challenge'[j].consumed => /\ j \in DOMAIN challenge /\ ~challenge[j].consumed
                                          /\ challenge'[j].purpose = challenge[j].purpose
        BY <1>4, <1>6
      <3>2. \A v \in Workers :
               req'[v].pc = "insert" => req[v].pc = "insert" /\ req'[v].purpose = req[v].purpose
        BY <1>7, <1>9 DEF Idle
      <3>3. QED
        BY <1>2, <1>12, <3>1, <3>2, OpenStays DEF IInv
    <2>2. ASSUME NEW j \in DOMAIN challenge'
          PROVE  accepted'[j] + Cardinality(Holding(j)') <= Cardinality(Workers)
      <3>1. j \in DOMAIN challenge /\ accepted[j] + Cardinality(Holding(j)) <= Cardinality(Workers)
        BY <1>6, <2>2 DEF IInv, CodeUsesBounded
      <3>2. /\ Holding(j)' \subseteq Holding(j) \ {w} /\ Holding(j) \subseteq Workers
            /\ j = i => w \in Holding(j)
        BY <1>1, <1>7, <1>9 DEF Holding, Idle
      <3>3. IsFiniteSet(Holding(j)) /\ Cardinality(Holding(j)) \in Nat
        BY <1>2, <3>2, Countable
      <3>4. /\ IsFiniteSet(Holding(j) \ {w}) /\ Cardinality(Holding(j) \ {w}) \in Nat
            /\ Cardinality(Holding(j) \ {w}) =
                  IF w \in Holding(j) THEN Cardinality(Holding(j)) - 1 ELSE Cardinality(Holding(j))
        BY <3>3, FS_RemoveElement, FS_CardinalityType
      <3>5. Cardinality(Holding(j)') <= Cardinality(Holding(j) \ {w}) /\ Cardinality(Holding(j)') \in Nat
        BY <3>2, <3>4, FS_Subset, FS_CardinalityType
      <3>6. Cardinality(Workers) \in Nat
        BY <1>2, Countable
      <3>7. accepted[j] \in Nat /\ accepted'[j] = IF j = i THEN accepted[j] + 1 ELSE accepted[j]
        BY <1>8, <3>1
      <3> HIDE DEF i
      <3>8. QED
        BY <3>1, <3>2, <3>3, <3>4, <3>5, <3>6, <3>7
    <2>3. QED
      BY <2>1, <2>2 DEF CodeUsesBounded
  <1>13. Has("phone")
    BY <1>6 DEF IInv, Whole
  <1> HIDE DEF c, i
  <1>14. /\ Len(accepted') = Len(challenge') /\ guessed' \in Seq(Nat) /\ Len(guessed') = Len(challenge')
    BY <1>1, <1>2, <1>6, <1>8 DEF TypeOK
  <1>15. \A j \in DOMAIN challenge : /\ j \in DOMAIN challenge'
                                     /\ challenge'[j].purpose = challenge[j].purpose
                                     /\ accepted'[j] >= accepted[j]
    BY <1>4, <1>6, <1>8
  <1>16. QED
    BY <1>1, <1>6, <1>7, <1>8, <1>10, <1>11, <1>12, <1>13, <1>14, <1>15, CodesWritten
LEMMA ReadChallengeKeeps ==
    ASSUME IInv, NEW w \in Workers, ReadChallenge(w, Idle), UNCHANGED <<tables, counted>>
    PROVE  IInv'
  <1> DEFINE open == Open({req[w].purpose})
             i    == Max(open)
  <1>1. /\ req[w].pc = "readChallenge" /\ UNCHANGED <<limits, codes>>
        /\ challenge' = challenge /\ accepted' = accepted /\ guessed' = guessed
        /\ overlapped' = overlapped /\ requests' = requests /\ faults' = faults
    BY DEF ReadChallenge, counted, codes, limits
  <1>2. TypeOK /\ Sound(w) /\ req \in [Workers -> Request] /\ LimitTyped'
    BY <1>1, Reads DEF TypeOK
  <1>3. CASE req' = [req EXCEPT ![w] = Idle]
    BY <1>1, <1>2, <1>3, Reads, Answered
  <1>4. CASE /\ open # {}
             /\ req' = [req EXCEPT ![w].pc = "saveAttempts", ![w].row = i,
                                   ![w].n = challenge[i].attempts + 1]
    <2>1. i \in open /\ i \in DOMAIN challenge /\ i \in Nat /\ challenge[i] \in Challenge
      BY <1>2, <1>4, NewestIsOpen
    <2>2. challenge[i].purpose = req[w].purpose /\ ~challenge[i].consumed
      BY <2>1 DEF Open
    <2>3. accepted[i] = 0
      <3>1. accepted[i] \in Nat /\ ~(accepted[i] > 0)
        BY <1>2, <2>1, <2>2, Rows DEF IInv, Passed
      <3>2. QED
        BY <3>1
    <2> HIDE DEF i, open
    <2> DEFINE r == [req[w] EXCEPT !.pc = "saveAttempts", !.row = i, !.n = challenge[i].attempts + 1]
    <2>4. req' = [req EXCEPT ![w] = r]
      BY <1>2, <1>4 DEF Request
    <2>5. challenge[i].attempts + 1 \in Nat
      BY <2>1 DEF Challenge
    <2>6. /\ r \in Request /\ r.pc = "saveAttempts" /\ r.row = i /\ r.view = req[w].view
          /\ r.purpose = req[w].purpose /\ r.copy = req[w].copy
      BY <1>2, <2>1, <2>5 DEF Request, PCs
    <2> HIDE DEF r
    <2>7. req'[w] = r /\ \A v \in Workers : v # w => req'[v] = req[v]
      BY <2>4, <2>6, RequestMoved
    <2>8. Sound(w)'
      BY <1>1, <1>2, <2>1, <2>2, <2>6, <2>7 DEF Sound, Has, tables
    <2>9. Passed'
      BY <1>1 DEF Passed, IInv
    <2>10. ASSUME TypeOK'
           PROVE  OpenBounded' /\ CodeUsesBounded'
      <3>1. OpenBounded'
        <4>1. \A v \in Workers :
                 req'[v].pc = "insert" => req[v].pc = "insert" /\ req'[v].purpose = req[v].purpose
          BY <2>6, <2>7
        <4>2. QED
          BY <1>1, <1>2, <2>10, <4>1, OpenStays DEF IInv
      <3>2. ASSUME NEW j \in DOMAIN challenge'
            PROVE  accepted'[j] + Cardinality(Holding(j)') <= Cardinality(Workers)
        <4>1. j \in DOMAIN challenge /\ accepted[j] + Cardinality(Holding(j)) <= Cardinality(Workers)
          BY <1>1, <3>2 DEF IInv, CodeUsesBounded
        <4>2. Holding(j)' \subseteq Workers /\ Holding(j) \subseteq Workers
          BY DEF Holding
        <4>3. /\ Cardinality(Workers) \in Nat
              /\ Cardinality(Holding(j)') \in Nat /\ Cardinality(Holding(j)') <= Cardinality(Workers)
              /\ Cardinality(Holding(j)) \in Nat /\ IsFiniteSet(Holding(j))
          BY <1>2, <4>2, Countable
        <4>4. CASE j = i
          BY <1>1, <2>3, <4>3, <4>4
        <4>5. CASE j # i
          <5>1. Holding(j)' \subseteq Holding(j)
            BY <2>6, <2>7, <4>5 DEF Holding
          <5>2. Cardinality(Holding(j)') <= Cardinality(Holding(j))
            BY <4>3, <5>1, FS_Subset
          <5>3. accepted[j] \in Nat
            BY <1>2, <4>1, Rows
          <5>4. QED
            BY <1>1, <4>1, <4>3, <5>2, <5>3
        <4>6. QED
          BY <4>4, <4>5
      <3>3. QED
        BY <3>1, <3>2 DEF CodeUsesBounded
    <2>11. /\ challenge' \in Seq(Challenge)
           /\ accepted' \in Seq(Nat) /\ Len(accepted') = Len(challenge')
           /\ guessed' \in Seq(Nat) /\ Len(guessed') = Len(challenge')
      BY <1>1, <1>2 DEF TypeOK
    <2>12. \A j \in DOMAIN challenge : /\ j \in DOMAIN challenge'
                                       /\ challenge'[j].purpose = challenge[j].purpose
                                       /\ accepted'[j] >= accepted[j]
      BY <1>1, <1>2, Rows
    <2>13. challenge' # <<>> => Has("phone")
      BY <1>1 DEF IInv, Whole
    <2>14. QED
      BY <1>1, <2>4, <2>6, <2>8, <2>9, <2>10, <2>11, <2>12, <2>13, CodesWritten
  <1>5. QED
    BY <1>3, <1>4 DEF ReadChallenge

LEMMA ConsumeOldKeeps ==
    ASSUME IInv, NEW w \in Workers, ConsumeOld(w), UNCHANGED <<tables, counted>>
    PROVE  IInv'
  <1> DEFINE p == req[w].purpose
             r == [req[w] EXCEPT !.pc = "insert"]
  <1>1. /\ req[w].pc = "consumeOld" /\ UNCHANGED limits /\ accepted' = accepted /\ guessed' = guessed
        /\ req' = [req EXCEPT ![w].pc = "insert"]
    BY DEF ConsumeOld, limits, Goto
  <1>2. TypeOK /\ Sound(w) /\ req \in [Workers -> Request] /\ Has("phone")
    BY <1>1, Reads DEF TypeOK, Sound
  <1>3. /\ challenge \in [1 .. Len(challenge) -> Challenge] /\ Len(challenge) \in Nat
        /\ \A j \in DOMAIN challenge : accepted[j] >= accepted[j]
    BY <1>2, Rows
  <1>4. /\ DOMAIN challenge' = DOMAIN challenge
        /\ \A j \in DOMAIN challenge :
              challenge'[j] = IF j \in Open({p}) THEN [challenge[j] EXCEPT !.consumed = TRUE]
                              ELSE challenge[j]
    BY DEF ConsumeOld
  <1>5. challenge' \in Seq(Challenge) /\ Len(challenge') = Len(challenge)
    <2>1. \A j \in DOMAIN challenge : challenge'[j] \in Challenge
      BY <1>3, <1>4 DEF Challenge
    <2>2. challenge' \in [1 .. Len(challenge) -> Challenge]
      BY <1>3, <1>4, <2>1 DEF ConsumeOld
    <2>3. QED
      BY <1>3, <2>2, Rewritten
  <1>6. \A j \in DOMAIN challenge : /\ challenge'[j].purpose = challenge[j].purpose
                                    /\ challenge[j].consumed => challenge'[j].consumed
                                    /\ challenge[j].purpose = p => challenge'[j].consumed
    BY <1>3, <1>4 DEF Open, Challenge
  <1> HIDE DEF p
  <1>7. req' = [req EXCEPT ![w] = r]
    BY <1>1, <1>2 DEF Request
  <1>8. /\ r \in Request /\ r.pc = "insert" /\ r.view = req[w].view
        /\ r.purpose = req[w].purpose /\ r.copy = req[w].copy
    BY <1>2 DEF Request, PCs
  <1> HIDE DEF r
  <1>9. req'[w] = r /\ \A v \in Workers : v # w => req'[v] = req[v]
    BY <1>7, <1>8, RequestMoved
  <1>10. Sound(w)'
    BY <1>1, <1>2, <1>8, <1>9 DEF Sound, Has, tables
  <1>11. Passed'
    BY <1>1, <1>4, <1>6 DEF Passed, IInv
  <1>12. ASSUME TypeOK'
         PROVE  OpenBounded' /\ CodeUsesBounded'
    <2>1. CodeUsesBounded'
      <3>1. \A v \in Workers :
               req'[v].pc \in {"saveAttempts", "consume"} =>
                  req[v].pc \in {"saveAttempts", "consume"} /\ req'[v].row = req[v].row
        BY <1>8, <1>9
      <3>2. QED
        BY <1>1, <1>2, <1>12, <3>1, UsesStay DEF IInv
    <2>2. ASSUME NEW q \in Purposes
          PROVE  Cardinality(Open({q})') + Cardinality(Sending(q)') <= Cardinality(Workers)
      <3>1. /\ Sending(q)' \subseteq Workers /\ Sending(q) \subseteq Workers
            /\ Open({q})' \subseteq Open({q})
        BY <1>4, <1>6 DEF Sending, Open
      <3>2. /\ Cardinality(Workers) \in Nat
            /\ Cardinality(Sending(q)') \in Nat /\ Cardinality(Sending(q)') <= Cardinality(Workers)
            /\ Cardinality(Sending(q)) \in Nat /\ IsFiniteSet(Sending(q))
            /\ Cardinality(Open({q})) \in Nat /\ IsFiniteSet(Open({q}))
        BY <1>2, <3>1, Countable
      <3>3. CASE q = p
        <4>1. Open({q})' = {}
          BY <1>4, <1>6, <3>3 DEF Open
        <4>2. Cardinality({}) = 0
          BY FS_EmptySet
        <4>3. QED
          BY <3>2, <4>1, <4>2
      <3>4. CASE q # p
        <4>1. Sending(q)' \subseteq Sending(q)
          BY <1>8, <1>9, <3>4 DEF Sending, p
        <4>2. /\ Cardinality(Sending(q)') <= Cardinality(Sending(q))
              /\ Cardinality(Open({q})') <= Cardinality(Open({q})) /\ Cardinality(Open({q})') \in Nat
          BY <3>1, <3>2, <4>1, FS_Subset, FS_CardinalityType
        <4>3. Cardinality(Open({q})) + Cardinality(Sending(q)) <= Cardinality(Workers)
          BY DEF IInv, OpenBounded
        <4>4. QED
          BY <3>2, <4>2, <4>3
      <3>5. QED
        BY <3>3, <3>4
    <2>3. QED
      BY <2>1, <2>2 DEF OpenBounded
  <1>13. /\ accepted' \in Seq(Nat) /\ Len(accepted') = Len(challenge')
         /\ guessed' \in Seq(Nat) /\ Len(guessed') = Len(challenge')
    BY <1>1, <1>2, <1>5 DEF TypeOK
  <1>14. \A j \in DOMAIN challenge : /\ j \in DOMAIN challenge'
                                     /\ challenge'[j].purpose = challenge[j].purpose
                                     /\ accepted'[j] >= accepted[j]
    BY <1>1, <1>3, <1>4, <1>6
  <1>15. QED
    BY <1>1, <1>2, <1>5, <1>7, <1>8, <1>10, <1>11, <1>12, <1>13, <1>14, CodesWritten
LEMMA InsertChallengeKeeps ==
    ASSUME IInv, NEW w \in Workers, InsertChallenge(w), UNCHANGED <<tables, counted>>
    PROVE  IInv'
  <1> DEFINE p == req[w].purpose
             n == Len(challenge) + 1
             c == [purpose |-> p, left |-> Lifetime, attempts |-> 0, consumed |-> FALSE]
             r == [req[w] EXCEPT !.pc = "countCode"]
  <1>1. /\ req[w].pc = "insert" /\ UNCHANGED limits /\ challenge' = Append(challenge, c)
        /\ accepted' = Append(accepted, 0) /\ guessed' = Append(guessed, 0)
        /\ req' = [req EXCEPT ![w].pc = "countCode"]
    BY DEF InsertChallenge, limits, Goto
  <1>2. TypeOK /\ Sound(w) /\ req \in [Workers -> Request] /\ Has("phone")
    BY <1>1, Reads DEF TypeOK, Sound
  <1>3. c \in Challenge /\ c.purpose = p /\ ~c.consumed
    BY <1>2, OtpAssumption DEF Challenge, Request
  <1> HIDE DEF c
  <1>4. /\ challenge' \in Seq(Challenge) /\ Len(challenge') = n
        /\ accepted' \in Seq(Nat) /\ Len(accepted') = n
        /\ guessed' \in Seq(Nat) /\ Len(guessed') = n
    BY <1>1, <1>2, <1>3 DEF TypeOK
  <1>5. /\ Len(challenge) \in Nat /\ DOMAIN challenge = 1 .. Len(challenge) /\ DOMAIN challenge' = 1 .. n
        /\ \A j \in DOMAIN challenge : /\ challenge'[j] = challenge[j] /\ accepted'[j] = accepted[j]
                                       /\ accepted[j] \in Nat
        /\ challenge'[n] = c /\ accepted'[n] = 0
    BY <1>1, <1>2, <1>3 DEF TypeOK
  <1>6. \A j \in DOMAIN challenge' : j \in DOMAIN challenge \/ j = n
    BY <1>5
  <1> HIDE DEF p, n
  <1>7. req' = [req EXCEPT ![w] = r]
    BY <1>1, <1>2 DEF Request
  <1>8. /\ r \in Request /\ r.pc = "countCode" /\ r.view = req[w].view
        /\ r.purpose = req[w].purpose /\ r.copy = req[w].copy
    BY <1>2 DEF Request, PCs
  <1> HIDE DEF r
  <1>9. req'[w] = r /\ \A v \in Workers : v # w => req'[v] = req[v]
    BY <1>7, <1>8, RequestMoved
  <1>10. Sound(w)'
    BY <1>1, <1>2, <1>8, <1>9 DEF Sound, Has, tables
  <1>11. Passed'
    BY <1>5, <1>6 DEF Passed, IInv
  <1>12. ASSUME TypeOK'
         PROVE  OpenBounded' /\ CodeUsesBounded'
    <2>1. ASSUME NEW j \in DOMAIN challenge'
          PROVE  accepted'[j] + Cardinality(Holding(j)') <= Cardinality(Workers)
      <3>1. /\ Holding(j)' \subseteq Holding(j) /\ Holding(j)' \subseteq Workers
            /\ Holding(j) \subseteq Workers
        BY <1>8, <1>9 DEF Holding
      <3>2. /\ Cardinality(Workers) \in Nat
            /\ Cardinality(Holding(j)') \in Nat /\ Cardinality(Holding(j)') <= Cardinality(Workers)
            /\ Cardinality(Holding(j)) \in Nat /\ IsFiniteSet(Holding(j))
        BY <1>2, <3>1, Countable
      <3>3. CASE j = n
        BY <1>5, <3>2, <3>3
      <3>4. CASE j \in DOMAIN challenge
        <4>1. accepted[j] + Cardinality(Holding(j)) <= Cardinality(Workers)
          BY <3>4 DEF IInv, CodeUsesBounded
        <4>2. Cardinality(Holding(j)') <= Cardinality(Holding(j))
          BY <3>1, <3>2, FS_Subset
        <4>3. QED
          BY <1>5, <3>2, <3>4, <4>1, <4>2
      <3>5. QED
        BY <1>6, <2>1, <3>3, <3>4
    <2>2. ASSUME NEW q \in Purposes
          PROVE  Cardinality(Open({q})') + Cardinality(Sending(q)') <= Cardinality(Workers)
      <3>1. Sending(q) \subseteq Workers
        BY DEF Sending
      <3>2. /\ Cardinality(Workers) \in Nat
            /\ Cardinality(Sending(q)) \in Nat /\ IsFiniteSet(Sending(q))
            /\ Cardinality(Open({q})) \in Nat /\ IsFiniteSet(Open({q}))
        BY <1>2, <3>1, Countable
      <3>3. Cardinality(Open({q})) + Cardinality(Sending(q)) <= Cardinality(Workers)
        BY DEF IInv, OpenBounded
      <3>4. CASE q = p
        <4>1. Open({q})' \subseteq Open({q}) \cup {n}
          BY <1>5, <1>6 DEF Open
        <4>2. Sending(q)' \subseteq Sending(q) \ {w} /\ w \in Sending(q)
          BY <1>1, <1>8, <1>9, <3>4 DEF Sending, p
        <4>3. IsFiniteSet(Open({q}) \cup {n})
                 /\ Cardinality(Open({q}) \cup {n}) <= Cardinality(Open({q})) + 1
                 /\ Cardinality(Open({q}) \cup {n}) \in Nat
          <5>1. /\ IsFiniteSet(Open({q}) \cup {n})
                /\ Cardinality(Open({q}) \cup {n}) =
                      IF n \in Open({q}) THEN Cardinality(Open({q})) ELSE Cardinality(Open({q})) + 1
            BY <3>2, FS_AddElement
          <5>2. QED
            BY <3>2, <5>1
        <4>4. /\ IsFiniteSet(Sending(q) \ {w}) /\ Cardinality(Sending(q) \ {w}) \in Nat
              /\ Cardinality(Sending(q) \ {w}) = Cardinality(Sending(q)) - 1
          BY <3>2, <4>2, FS_RemoveElement, FS_CardinalityType
        <4>5. /\ Cardinality(Open({q})') <= Cardinality(Open({q}) \cup {n}) /\ Cardinality(Open({q})') \in Nat
              /\ Cardinality(Sending(q)') <= Cardinality(Sending(q) \ {w}) /\ Cardinality(Sending(q)') \in Nat
          BY <4>1, <4>2, <4>3, <4>4, FS_Subset, FS_CardinalityType
        <4>6. QED
          BY <3>2, <3>3, <4>3, <4>4, <4>5
      <3>5. CASE q # p
        <4>1. Open({q})' \subseteq Open({q}) /\ Sending(q)' \subseteq Sending(q)
          BY <1>3, <1>5, <1>6, <1>8, <1>9, <3>5 DEF Open, Sending
        <4>2. /\ Cardinality(Sending(q)') <= Cardinality(Sending(q)) /\ Cardinality(Sending(q)') \in Nat
              /\ Cardinality(Open({q})') <= Cardinality(Open({q})) /\ Cardinality(Open({q})') \in Nat
          BY <3>2, <4>1, FS_Subset, FS_CardinalityType
        <4>3. QED
          BY <3>2, <3>3, <4>2
      <3>6. QED
        BY <3>4, <3>5
    <2>3. QED
      BY <2>1, <2>2 DEF OpenBounded, CodeUsesBounded
  <1>13. \A j \in DOMAIN challenge : /\ j \in DOMAIN challenge'
                                     /\ challenge'[j].purpose = challenge[j].purpose
                                     /\ accepted'[j] >= accepted[j]
    BY <1>5 DEF n
  <1>14. QED
    BY <1>1, <1>2, <1>4, <1>7, <1>8, <1>10, <1>11, <1>12, <1>13, CodesWritten
-----------------------------------------------------------------------------
(* The steps that write accounts                                           *)

\* What such a step must show.
LEMMA TablesWritten ==
    ASSUME IInv, NEW w \in Workers, NEW r \in Request, req' = [req EXCEPT ![w] = r],
           r.pc \notin {"insert", "saveAttempts", "consume"},
           UNCHANGED <<limits, codes, counted>>,
           user' \in [Contacts -> User], profile' \subseteq Contacts, store' \subseteq Contacts,
           registered' \in Devices \cup {None},
           \A k \in Contacts : Has(k) => user'[k].role = user[k].role,
           profile \subseteq profile',
           Sound(w)', Whole', PasswordByReset'
    PROVE  IInv'
  <1>1. TypeOK /\ req'[w] = r /\ \A v \in Workers : v # w => req'[v] = req[v]
    BY Reads, RequestMoved
  <1>2. /\ challenge' = challenge /\ accepted' = accepted /\ guessed' = guessed
        /\ overlapped' = overlapped /\ requests' = requests /\ faults' = faults
    BY DEF codes, counted
  <1>3. TypeOK'
    <2>1. req' \in [Workers -> Request]
      BY <1>1 DEF TypeOK
    <2>2. LimitTyped'
      BY Reads
    <2>3. QED
      BY <1>1, <1>2, <2>1, <2>2 DEF TypeOK
  <1>4. Kept
    <2>1. \A i \in DOMAIN challenge : accepted[i] >= accepted[i]
      BY <1>1, Rows
    <2>2. QED
      BY <1>2, <2>1 DEF Kept
  <1>5. OpenBounded'
    BY <1>1, <1>2, <1>3, OpenStays DEF IInv
  <1>6. CodeUsesBounded'
    BY <1>1, <1>2, <1>3, UsesStay DEF IInv
  <1>7. Passed'
    BY <1>2 DEF IInv, Passed
  <1>8. QED
    BY <1>1, <1>3, <1>4, <1>5, <1>6, <1>7, AlmostDone

LEMMA InsertUserKeeps ==
    ASSUME IInv, NEW w \in Workers, InsertUser(w)
    PROVE  IInv'
  <1>1. /\ req[w].pc = "insertUser" /\ UNCHANGED <<limits, codes, profile, store, registered, counted>>
        /\ overlapped' = overlapped /\ requests' = requests /\ faults' = faults
        /\ profile' = profile /\ store' = store /\ registered' = registered /\ challenge' = challenge
    BY DEF InsertUser, counted, codes
  <1>2. /\ Sound(w) /\ TypeOK /\ req \in [Workers -> Request] /\ user \in [Contacts -> User]
        /\ profile \subseteq Contacts /\ store \subseteq Contacts
        /\ registered \in Devices \cup {None} /\ LimitTyped'
    BY <1>1, Reads DEF TypeOK
  <1>3. CASE Has(Key(w))
    <2>1. Answer(w) /\ user' = user
      BY <1>3 DEF InsertUser
    <2>2. UNCHANGED tables
      BY <1>1, <2>1 DEF tables
    <2>3. QED
      BY <1>1, <1>2, <2>1, <2>2, Reads, Answered DEF Answer
  <1>4. CASE ~Has(Key(w))
    <2> DEFINE k == Key(w)
    <2>1. /\ user' = [user EXCEPT ![k] = req[w].copy] /\ k \in Contacts
          /\ IF req[w].copy.role = "user" THEN Registered(w) ELSE Goto(w, "insertProfile")
      BY <1>4, KeyIsContact DEF InsertUser
    <2>2. req[w].copy \in User /\ req[w].copy.role \in Roles /\ req[w].copy.password = 0
             /\ req[w].view \in {"signup", "register"}
      BY <1>1, <1>2 DEF Request, Sound
    <2>3. k = IF req[w].view = "register" THEN "mail" ELSE "phone"
      BY DEF Key
    <2>4. PICK r \in {Idle, [req[w] EXCEPT !.pc = "send"], [req[w] EXCEPT !.pc = "insertProfile"]} :
             /\ req' = [req EXCEPT ![w] = r]
             /\ r = [req[w] EXCEPT !.pc = "send"] => req[w].view # "register"
             /\ req[w].copy.role # "user" <=> r = [req[w] EXCEPT !.pc = "insertProfile"]
      <3>1. [req[w] EXCEPT !.pc = "send"].pc = "send" /\ Idle.pc = "idle"
            /\ [req[w] EXCEPT !.pc = "insertProfile"].pc = "insertProfile"
        BY <1>2 DEF Request, Idle
      <3>2. QED
        BY <2>1, <3>1 DEF Registered, Answer, Goto
    <2>5. /\ r \in Request
          /\ \/ r = Idle
             \/ /\ r.view = req[w].view /\ r.purpose = req[w].purpose /\ r.copy = req[w].copy
                /\ \/ r.pc = "send" /\ req[w].view # "register"
                   \/ r.pc = "insertProfile" /\ req[w].copy.role # "user"
          /\ req[w].copy.role # "user" => r.pc = "insertProfile" /\ r.view = req[w].view
          /\ r.pc \in {"idle", "send", "insertProfile"}
      BY <1>2, <2>4, IdleTyped DEF Request, PCs, Idle
    <2> HIDE DEF k
    <2>6. req'[w] = r /\ \A v \in Workers : v # w => req'[v] = req[v]
      BY <2>4, <2>5, RequestMoved
    <2>7. /\ user' \in [Contacts -> User] /\ user'[k] = req[w].copy
          /\ \A j \in Contacts : j # k => user'[j] = user[j]
      BY <1>2, <2>1, <2>2
    <2>8. \A j \in Contacts : /\ Has(j) => user'[j].role = user[j].role /\ Has(j)'
                              /\ j = k => Has(j)'
      BY <1>4, <2>2, <2>7, AccountsAssumption DEF Has, k
    <2>9. Sound(w)'
      <3>1. CASE r = Idle
        BY <2>6, <3>1 DEF Sound, Idle, NoUser
      <3>2. CASE r # Idle
        <4>1. Key(w)' = k
          BY <2>3, <2>5, <2>6, <3>2 DEF Key
        <4>2. r.pc = "send" => Has("phone")'
          BY <2>3, <2>5, <2>8, <3>2 DEF Contacts, Idle
        <4>3. QED
          BY <1>1, <1>2, <2>1, <2>2, <2>5, <2>6, <2>7, <3>2, <4>1, <4>2 DEF Sound, Idle
      <3>3. QED
        BY <3>1, <3>2
    <2>10. PasswordByReset'
      <3>1. user'["phone"].password = 0 \/ user'["phone"].password = user["phone"].password
        BY <2>2, <2>7 DEF Contacts
      <3>2. QED
        BY <1>1, <3>1 DEF IInv, PasswordByReset, codes
    <2>11. Whole'
      <3>1. Whole /\ "phone" \in Contacts
        BY DEF IInv, Contacts
      <3>2. ASSUME faults = 0, NEW j \in Contacts
            PROVE  /\ user'[j].role = "vendor" => j \in store \/ \E v \in Workers : Completing(j, v)'
                   /\ user'[j].role = "delivery_partner" =>
                         j \in profile \/ \E v \in Workers : Completing(j, v)'
        <4>1. CASE j = k
          <5>1. req[w].copy.role # "user" => Completing(j, w)'
            BY <2>3, <2>5, <2>6, <4>1 DEF Completing, Key
          <5>2. QED
            BY <2>7, <4>1, <5>1
        <4>2. CASE j # k
          <5>1. \A v \in Workers : Completing(j, v) => Completing(j, v)'
            BY <1>1, <2>6, <4>2 DEF Completing, Key
          <5>2. QED
            BY <2>7, <3>1, <3>2, <4>2, <5>1 DEF Whole
        <4>3. QED
          BY <4>1, <4>2
      <3>3. QED
        BY <1>1, <1>2, <2>8, <3>1, <3>2 DEF Whole
    <2>12. r.pc \notin {"insert", "saveAttempts", "consume"}
      BY <2>5
    <2>13. QED
      BY <1>1, <1>2, <2>4, <2>5, <2>7, <2>8, <2>9, <2>10, <2>11, <2>12, TablesWritten
  <1>5. QED
    BY <1>3, <1>4
\* Signing up goes on with a code, registering ends.
LEMMA RegisteredTo ==
    ASSUME IInv, NEW w \in Workers, Registered(w), req[w].pc \in {"insertProfile", "insertStore"},
           UNCHANGED user
    PROVE  \E r \in Request : /\ req' = [req EXCEPT ![w] = r] /\ r.pc \in {"idle", "send"}
                              /\ Sound(w)'
  <1>1. req[w] \in Request /\ Sound(w) /\ TypeOK
    BY Reads
  <1>2. PICK r \in {Idle, [req[w] EXCEPT !.pc = "send"]} :
           /\ req' = [req EXCEPT ![w] = r]
           /\ r = [req[w] EXCEPT !.pc = "send"] => req[w].view # "register"
    <2>1. [req[w] EXCEPT !.pc = "send"].pc = "send" /\ Idle.pc = "idle"
      BY <1>1 DEF Request, Idle
    <2>2. QED
      BY <2>1 DEF Registered, Answer, Goto
  <1>3. /\ r \in Request /\ r.pc \in {"idle", "send"}
        /\ r = Idle \/ /\ r.view = req[w].view /\ r.purpose = req[w].purpose /\ r.copy = req[w].copy
                       /\ r.pc = "send" /\ req[w].view # "register"
    BY <1>1, <1>2, IdleTyped DEF Request, PCs, Idle
  <1>4. req'[w] = r
    BY <1>2, <1>3, RequestMoved
  <1>5. Sound(w)'
    <2>1. CASE r = Idle
      BY <1>4, <2>1 DEF Sound, Idle, NoUser
    <2>2. CASE r # Idle
      <3>1. user[Key(w)].role = req[w].copy.role /\ req[w].copy.role \in Roles
        BY <1>1 DEF Sound
      <3>2. Key(w) = "phone"
        BY <1>3, <2>2 DEF Key
      <3>3. Has("phone")'
        BY <3>1, <3>2, AccountsAssumption DEF Has
      <3>4. QED
        BY <1>1, <1>3, <1>4, <2>2, <3>3 DEF Sound
    <2>3. QED
      BY <2>1, <2>2
  <1>6. QED
    BY <1>2, <1>3, <1>5

LEMMA InsertProfileKeeps ==
    ASSUME IInv, NEW w \in Workers, InsertProfile(w)
    PROVE  IInv'
  <1> DEFINE k == Key(w)
  <1>1. /\ req[w].pc = "insertProfile" /\ UNCHANGED <<limits, codes, user, store, registered, counted>>
        /\ faults' = faults /\ profile' = profile \cup {k} /\ challenge' = challenge
        /\ user' = user /\ store' = store /\ registered' = registered
        /\ IF req[w].copy.role = "vendor" THEN Goto(w, "insertStore") ELSE Registered(w)
    BY DEF InsertProfile, counted, codes
  <1>2. /\ Sound(w) /\ TypeOK /\ req \in [Workers -> Request] /\ user \in [Contacts -> User]
        /\ profile \subseteq Contacts /\ store \subseteq Contacts /\ k \in Contacts
        /\ registered \in Devices \cup {None}
    BY <1>1, Reads, KeyIsContact DEF TypeOK
  <1>3. user[k].role = req[w].copy.role /\ req[w].copy.role \in Roles /\ Has(k)
    BY <1>1, <1>2, AccountsAssumption DEF Sound, Has
  <1>4. PICK r \in Request : /\ req' = [req EXCEPT ![w] = r] /\ r.pc \in {"idle", "send", "insertStore"}
                             /\ Sound(w)'
                             /\ req[w].copy.role = "vendor" => r.pc = "insertStore" /\ r.view = req[w].view
    <2>1. CASE req[w].copy.role = "vendor"
      <3> DEFINE r == [req[w] EXCEPT !.pc = "insertStore"]
      <3>1. req' = [req EXCEPT ![w] = r]
        BY <1>1, <2>1 DEF Goto
      <3>2. /\ r \in Request /\ r.pc = "insertStore" /\ r.view = req[w].view
            /\ r.purpose = req[w].purpose /\ r.copy = req[w].copy
        BY <1>2 DEF Request, PCs
      <3> HIDE DEF r
      <3>3. req'[w] = r
        BY <3>1, <3>2, RequestMoved
      <3>4. Key(w)' = k
        BY <3>2, <3>3 DEF Key
      <3>5. Sound(w)'
        BY <1>1, <1>2, <1>3, <2>1, <3>2, <3>3, <3>4 DEF Sound, Has
      <3>6. QED
        BY <3>1, <3>2, <3>5
    <2>2. CASE req[w].copy.role # "vendor"
      BY <1>1, <2>2, RegisteredTo
    <2>3. QED
      BY <2>1, <2>2
  <1>5. req'[w] = r /\ \A v \in Workers : v # w => req'[v] = req[v]
    BY <1>4, RequestMoved
  <1>6. Whole'
    <2>1. Whole
      BY DEF IInv
    <2>2. \A j : Has(j)' = Has(j)
      BY <1>1 DEF Has
    <2>3. ASSUME faults = 0, NEW j \in Contacts
          PROVE  /\ user[j].role = "vendor" => j \in store \/ \E v \in Workers : Completing(j, v)'
                 /\ user[j].role = "delivery_partner" =>
                       j \in profile' \/ \E v \in Workers : Completing(j, v)'
      <3>1. CASE j = k
        <4>1. user[j].role = "vendor" => Completing(j, w)'
          BY <1>3, <1>4, <1>5, <3>1 DEF Completing, Key
        <4>2. QED
          BY <1>1, <3>1, <4>1
      <3>2. CASE j # k
        <4>1. \A v \in Workers : Completing(j, v) => Completing(j, v)'
          BY <1>5, <3>2 DEF Completing, Key
        <4>2. QED
          BY <1>1, <2>1, <2>3, <4>1 DEF Whole
      <3>3. QED
        BY <3>1, <3>2
    <2>4. QED
      BY <1>1, <1>3, <2>1, <2>2, <2>3 DEF Whole
  <1>7. PasswordByReset'
    BY <1>1 DEF IInv, PasswordByReset, codes
  <1> HIDE DEF k
  <1>8. r.pc \notin {"insert", "saveAttempts", "consume"}
    BY <1>4
  <1>9. profile' \subseteq Contacts /\ profile \subseteq profile'
    BY <1>1, <1>2
  <1>10. QED
    BY <1>1, <1>2, <1>4, <1>6, <1>7, <1>8, <1>9, TablesWritten

LEMMA InsertStoreKeeps ==
    ASSUME IInv, NEW w \in Workers, InsertStore(w)
    PROVE  IInv'
  <1> DEFINE k == Key(w)
  <1>1. /\ req[w].pc = "insertStore" /\ UNCHANGED <<limits, codes, user, profile, registered, counted>>
        /\ faults' = faults /\ store' = store \cup {k} /\ challenge' = challenge
        /\ user' = user /\ profile' = profile /\ registered' = registered /\ Registered(w)
    BY DEF InsertStore, counted, codes
  <1>2. /\ Sound(w) /\ TypeOK /\ user \in [Contacts -> User]
        /\ profile \subseteq Contacts /\ store \subseteq Contacts /\ k \in Contacts
        /\ registered \in Devices \cup {None}
    BY <1>1, Reads, KeyIsContact DEF TypeOK
  <1>3. k \in profile
    BY <1>1, <1>2 DEF Sound
  <1>4. PICK r \in Request : /\ req' = [req EXCEPT ![w] = r] /\ r.pc \in {"idle", "send"}
                             /\ Sound(w)'
    BY <1>1, RegisteredTo
  <1>5. \A v \in Workers : v # w => req'[v] = req[v]
    BY <1>4, RequestMoved
  <1>6. Whole'
    <2>1. Whole
      BY DEF IInv
    <2>2. \A j : Has(j)' = Has(j)
      BY <1>1 DEF Has
    <2>3. ASSUME faults = 0, NEW j \in Contacts
          PROVE  /\ user[j].role = "vendor" => j \in store' \/ \E v \in Workers : Completing(j, v)'
                 /\ user[j].role = "delivery_partner" =>
                       j \in profile \/ \E v \in Workers : Completing(j, v)'
      <3>1. CASE j = k
        BY <1>1, <1>3, <3>1
      <3>2. CASE j # k
        <4>1. \A v \in Workers : Completing(j, v) => Completing(j, v)'
          BY <1>5, <3>2 DEF Completing, Key
        <4>2. QED
          BY <1>1, <2>1, <2>3, <4>1 DEF Whole
      <3>3. QED
        BY <3>1, <3>2
    <2>4. QED
      BY <1>1, <1>3, <2>1, <2>2, <2>3 DEF Whole
  <1>7. PasswordByReset'
    BY <1>1 DEF IInv, PasswordByReset, codes
  <1> HIDE DEF k
  <1>8. r.pc \notin {"insert", "saveAttempts", "consume"}
    BY <1>4
  <1>9. store' \subseteq Contacts
    BY <1>1, <1>2
  <1>10. QED
    BY <1>1, <1>2, <1>4, <1>6, <1>7, <1>8, <1>9, TablesWritten

\* A whole account of the phone is written with the role it has.
LEMMA PhoneWritten ==
    ASSUME IInv, NEW w \in Workers, NEW u \in User, req' = [req EXCEPT ![w] = Idle],
           req[w].pc \in {"saveUser", "saveDevice"},
           user' = [user EXCEPT !["phone"] = u], u.role = user["phone"].role, Has("phone"),
           u.password # 0 => ByReset(u.password),
           registered' \in Devices \cup {None},
           UNCHANGED <<limits, codes, profile, store, counted>>
    PROVE  IInv'
  <1>1. /\ faults' = faults /\ profile' = profile /\ store' = store
        /\ challenge' = challenge /\ accepted' = accepted
    BY DEF counted, codes
  <1>2. TypeOK /\ user \in [Contacts -> User] /\ profile \subseteq Contacts /\ store \subseteq Contacts
    BY Reads DEF TypeOK
  <1>3. req'[w] = Idle /\ \A v \in Workers : v # w => req'[v] = req[v]
    BY IdleTyped, RequestMoved
  <1>4. /\ user' \in [Contacts -> User] /\ user'["phone"] = u
        /\ \A k \in Contacts : user'[k].role = user[k].role
    BY <1>2 DEF Contacts
  <1>5. Sound(w)'
    BY <1>3 DEF Sound, Idle, NoUser
  <1>6. PasswordByReset'
    BY <1>1, <1>4 DEF PasswordByReset, ByReset
  <1>7. Whole'
    <2>1. Whole /\ \A k \in Contacts : Has(k)' = Has(k)
      BY <1>4 DEF IInv, Has
    <2>2. \A k \in Contacts, v \in Workers : Completing(k, v) => Completing(k, v)'
      BY <1>3 DEF Completing, Key
    <2>3. QED
      BY <1>1, <1>2, <1>4, <2>1, <2>2 DEF Whole, Contacts
  <1>8. Idle.pc \notin {"insert", "saveAttempts", "consume"}
    BY DEF Idle
  <1>9. QED
    BY <1>1, <1>2, <1>4, <1>5, <1>6, <1>7, <1>8, IdleTyped, TablesWritten

LEMMA SaveUserKeeps ==
    ASSUME IInv, NEW w \in Workers, SaveUser(w)
    PROVE  IInv'
  <1>1. /\ req[w].pc = "saveUser" /\ req' = [req EXCEPT ![w] = Idle]
        /\ user' = [user EXCEPT !["phone"] = req[w].copy] /\ registered' = registered
        /\ UNCHANGED <<limits, codes, profile, store, counted>>
    BY DEF SaveUser, Answer
  <1>2. TypeOK /\ Sound(w) /\ req[w].copy \in User /\ registered \in Devices \cup {None}
    BY Reads DEF Request, TypeOK
  <1>3. Has("phone")
    BY <1>1, SavesAccount
  <1>4. ByReset(req[w].copy.password) /\ req[w].copy.role = user["phone"].role
    BY <1>1, <1>2 DEF Sound
  <1>5. QED
    BY <1>1, <1>2, <1>3, <1>4, PhoneWritten

LEMMA SaveDeviceKeeps ==
    ASSUME IInv, NEW w \in Workers, SaveDevice(w)
    PROVE  IInv'
  <1> DEFINE u == [user["phone"] EXCEPT !.device = req[w].copy.device]
  <1>1. /\ req[w].pc = "saveDevice" /\ req' = [req EXCEPT ![w] = Idle]
        /\ user' = [user EXCEPT !["phone"].device = req[w].copy.device]
        /\ registered' = req[w].copy.device
        /\ UNCHANGED <<limits, codes, profile, store, counted>>
    BY DEF SaveDevice, Answer
  <1>2. /\ TypeOK /\ Sound(w) /\ req[w].copy.device \in Devices \cup {None}
        /\ user \in [Contacts -> User] /\ user["phone"] \in User
    BY Reads DEF Request, User, TypeOK, Contacts
  <1>3. u \in User /\ u.role = user["phone"].role /\ u.password = user["phone"].password
    BY <1>2 DEF User
  <1>4. user' = [user EXCEPT !["phone"] = u]
    BY <1>1
  <1>5. Has("phone")
    BY <1>1, <1>2 DEF Sound
  <1>6. u.password # 0 => ByReset(u.password)
    BY <1>3 DEF IInv, PasswordByReset, ByReset
  <1> HIDE DEF u
  <1>7. QED
    BY <1>1, <1>2, <1>3, <1>4, <1>5, <1>6, PhoneWritten
-----------------------------------------------------------------------------
(* The clock, and all steps                                                *)

LEMMA TickKeeps ==
    ASSUME IInv, Tick
    PROVE  IInv'
  <1>1. /\ Elapse /\ req' = req /\ accepted' = accepted /\ guessed' = guessed
        /\ user' = user /\ profile' = profile /\ store' = store /\ registered' = registered
        /\ overlapped' = overlapped /\ requests' = requests /\ faults' = faults
    BY DEF Tick, tables, counted
  <1>2. TypeOK /\ challenge \in [1 .. Len(challenge) -> Challenge] /\ Len(challenge) \in Nat
           /\ \A i \in DOMAIN challenge : accepted[i] >= accepted[i]
    <2>1. TypeOK
      BY DEF IInv
    <2>2. QED
      BY <2>1, Rows
  <1>3. \A i \in DOMAIN challenge : /\ challenge'[i] \in Challenge
                                    /\ challenge'[i].purpose = challenge[i].purpose
                                    /\ challenge'[i].consumed = challenge[i].consumed
    <2>1. ASSUME NEW i \in DOMAIN challenge
          PROVE  /\ challenge'[i] \in Challenge
                 /\ challenge'[i].purpose = challenge[i].purpose
                 /\ challenge'[i].consumed = challenge[i].consumed
      <3>1. challenge[i] \in Challenge
        BY <1>2
      <3>2. challenge'[i] = [challenge[i] EXCEPT !.left = IF @ = 0 THEN 0 ELSE @ - 1]
        BY DEF Tick
      <3>3. (IF challenge[i].left = 0 THEN 0 ELSE challenge[i].left - 1) \in Nat
        BY <3>1 DEF Challenge
      <3>4. QED
        BY <3>1, <3>2, <3>3 DEF Challenge
    <2>2. QED
      BY <2>1
  <1>4. challenge' \in Seq(Challenge) /\ Len(challenge') = Len(challenge)
           /\ DOMAIN challenge' = DOMAIN challenge
    <2>1. challenge' \in [1 .. Len(challenge) -> Challenge]
      BY <1>2, <1>3 DEF Tick
    <2>2. QED
      BY <1>2, <2>1, Rewritten
  <1>5. TypeOK'
    <2>1. LimitTyped'
      BY <1>1, <1>2, ElapseTyped DEF TypeOK
    <2>2. QED
      BY <1>1, <1>2, <1>4, <2>1 DEF TypeOK
  <1>6. Kept
    BY <1>1, <1>2, <1>3, <1>4 DEF Kept
  <1>7. \A v \in Workers : Sound(v)'
    BY <1>1, <1>5, <1>6, OthersSound
  <1>8. Passed'
    BY <1>1, <1>3, <1>4 DEF IInv, Passed
  <1>9. Whole'
    <2>1. Whole /\ (challenge' # <<>> => challenge # <<>>)
      BY <1>2, <1>4 DEF IInv
    <2>2. \A j : Has(j)' = Has(j)
      BY <1>1 DEF Has
    <2>3. \A j, v : Completing(j, v)' = Completing(j, v)
      BY <1>1 DEF Completing, Key
    <2>4. QED
      BY <1>1, <2>1, <2>2, <2>3 DEF Whole
  <1>10. PasswordByReset'
    BY <1>1, <1>5, <1>6, PasswordStays
  <1>11. OpenBounded'
    BY <1>1, <1>2, <1>3, <1>4, <1>5, OpenStays DEF IInv
  <1>12. CodeUsesBounded'
    BY <1>1, <1>2, <1>5, UsesStay DEF IInv
  <1>13. QED
    BY <1>5, <1>7, <1>8, <1>9, <1>10, <1>11, <1>12 DEF IInv

LEMMA StutterKeeps ==
    ASSUME IInv, UNCHANGED vars
    PROVE  IInv'
  <1>1. /\ cache' = cache /\ recent' = recent /\ challenge' = challenge /\ req' = req
        /\ accepted' = accepted /\ guessed' = guessed /\ user' = user /\ profile' = profile
        /\ store' = store /\ registered' = registered /\ overlapped' = overlapped
        /\ requests' = requests /\ faults' = faults
    BY DEF vars
  <1>2. TypeOK
    BY DEF IInv
  <1>3. TypeOK'
    BY <1>1, <1>2 DEF TypeOK, LimitTyped, Ages
  <1>4. \A i \in DOMAIN challenge : accepted[i] >= accepted[i]
    BY <1>2, Rows
  <1>5. Kept
    BY <1>1, <1>4 DEF Kept
  <1>6. \A v \in Workers : Sound(v)'
    BY <1>1, <1>3, <1>5, OthersSound
  <1>7. Passed' /\ Whole'
    BY <1>1 DEF IInv, Passed, Whole, Has, Completing, Key
  <1>8. PasswordByReset'
    BY <1>1, <1>3, <1>5, PasswordStays
  <1>9. OpenBounded'
    BY <1>1, <1>2, <1>3, OpenStays DEF IInv
  <1>10. CodeUsesBounded'
    BY <1>1, <1>2, <1>3, UsesStay DEF IInv
  <1>11. QED
    BY <1>3, <1>6, <1>7, <1>8, <1>9, <1>10 DEF IInv

LEMMA InitKeeps ==
    ASSUME Init
    PROVE  IInv
  <1>1. TypeOK
    BY InitTyped
  <1>2. \A w \in Workers : req[w] = Idle
    BY DEF Init
  <1>3. \A w \in Workers : Sound(w)
    BY <1>2 DEF Sound, Idle, NoUser
  <1>4. (challenge = <<>> /\ accepted = <<>>) \/ accepted = <<0>>
    BY DEF Init
  <1>5. /\ user \in [Contacts -> User] /\ Len(challenge) \in Nat
        /\ DOMAIN challenge = 1 .. Len(challenge) /\ DOMAIN accepted = 1 .. Len(challenge)
    BY <1>1, Rows DEF TypeOK
  <1>6. \A i \in DOMAIN challenge : accepted[i] = 0
    BY <1>4, <1>5
  <1>7. Passed
    BY <1>6 DEF Passed
  <1>8. PasswordByReset
    BY DEF Init, PasswordByReset, NoUser, Contacts
  <1>9. Whole
    <2>1. CASE /\ challenge = <<>> /\ user = [k \in Contacts |-> NoUser]
               /\ profile = {} /\ store = {}
      <3>1. \A k \in Contacts : user[k].role = None
        BY <2>1 DEF NoUser
      <3>2. \A k \in Contacts : user[k].role # "vendor" /\ user[k].role # "delivery_partner"
        BY <3>1, AccountsAssumption
      <3>3. QED
        BY <2>1, <3>2 DEF Whole
    <2>2. CASE /\ user = [k \in Contacts |-> IF k = "phone" THEN [NoUser EXCEPT !.role = "vendor"] ELSE NoUser]
               /\ profile = {"phone"} /\ store = {"phone"}
      <3>1. user["phone"].role = "vendor" /\ user["mail"].role = None
        BY <2>2 DEF NoUser, Contacts
      <3>2. \A k \in Contacts : user[k].role \in {"vendor", "delivery_partner"} => k = "phone"
        BY <3>1, AccountsAssumption DEF Contacts
      <3>3. Has("phone")
        BY <3>1, AccountsAssumption DEF Has
      <3>4. QED
        BY <2>2, <3>2, <3>3 DEF Whole
    <2>3. QED
      BY <2>1, <2>2 DEF Init
  <1>10. \A P \in SUBSET Purposes : Open(P) \subseteq 1 .. 1
    BY <1>4, <1>5 DEF Init, Open
  <1>11. OpenBounded
    <2>1. Cardinality(Workers) \in Nat /\ Cardinality(Workers) # 0
      BY OtpAssumption, FS_EmptySet, FS_CardinalityType
    <2>2. ASSUME NEW p \in Purposes
          PROVE  Cardinality(Open({p})) + Cardinality(Sending(p)) <= Cardinality(Workers)
      <3>1. Sending(p) = {}
        BY <1>2 DEF Sending, Idle
      <3>2. Cardinality(Sending(p)) = 0
        BY <3>1, FS_EmptySet
      <3>3. IsFiniteSet(1 .. 1) /\ Cardinality(1 .. 1) = 1
        <4>1. 1 \in Int
          OBVIOUS
        <4>2. IsFiniteSet(1 .. 1) /\ Cardinality(1 .. 1) = IF 1 > 1 THEN 0 ELSE 1 - 1 + 1
          BY <4>1, FS_Interval
        <4>3. QED
          BY <4>2
      <3>4. Open({p}) \subseteq 1 .. 1
        BY <1>10
      <3>5. Cardinality(Open({p})) <= 1 /\ Cardinality(Open({p})) \in Nat
        BY <3>3, <3>4, FS_Subset, FS_CardinalityType
      <3>6. QED
        BY <2>1, <3>2, <3>5
    <2>3. QED
      BY <2>2 DEF OpenBounded
  <1>12. CodeUsesBounded
    <2>1. ASSUME NEW i \in DOMAIN challenge
          PROVE  accepted[i] + Cardinality(Holding(i)) <= Cardinality(Workers)
      <3>1. Holding(i) \subseteq Workers
        BY DEF Holding
      <3>2. QED
        BY <1>1, <1>6, <3>1, Countable
    <2>2. QED
      BY <2>1 DEF CodeUsesBounded
  <1>13. QED
    BY <1>1, <1>3, <1>7, <1>8, <1>9, <1>11, <1>12 DEF IInv

\* However many requests run at a time, nothing they do breaks the invariant.
THEOREM Invariance == Spec => []IInv
  <1>1. Init => IInv
    BY InitKeeps
  <1>2. IInv /\ [Next]_vars => IInv'
    <2> SUFFICES ASSUME IInv, [Next]_vars
                 PROVE  IInv'
      OBVIOUS
    <2>1. CASE Tick
      BY <2>1, TickKeeps
    <2>2. ASSUME NEW w \in Workers, Arrive(w)
          PROVE  IInv'
      BY <2>2, ArriveKeeps
    <2>3. ASSUME NEW w \in Workers, Fail(w)
          PROVE  IInv'
      BY <2>3, FailKeeps
    <2>4. ASSUME NEW w \in Workers, Step(w)
          PROVE  IInv'
      <3>1. CASE CountRequest(w) \/ CheckUser(w) \/ FindUser(w) \/ ReadNewest(w) \/ ReadUser(w)
        BY <3>1, CountRequestKeeps, CheckUserKeeps, FindUserKeeps, ReadNewestKeeps, ReadUserKeeps
      <3>2. CASE InsertUser(w) \/ InsertProfile(w) \/ InsertStore(w) \/ SaveUser(w) \/ SaveDevice(w)
        BY <3>2, InsertUserKeeps, InsertProfileKeeps, InsertStoreKeeps, SaveUserKeeps, SaveDeviceKeeps
      <3>3. CASE OtpStep(w)
        <4>1. UNCHANGED <<tables, counted>>
          BY <3>3 DEF OtpStep
        <4>2. CASE ConsumeOld(w) \/ InsertChallenge(w) \/ CountCode(w, Idle)
          BY <4>1, <4>2, ConsumeOldKeeps, InsertChallengeKeeps, CountCodeKeeps
        <4>3. CASE ReadChallenge(w, Idle) \/ SaveAttempts(w, Idle) \/ Lock(w, Idle)
          BY <4>1, <4>3, ReadChallengeKeeps, SaveAttemptsKeeps, LockKeeps
        <4>4. CASE Consume(w, IF req[w].view = "confirm" THEN [req[w] EXCEPT !.pc = "readUser"] ELSE Idle)
          BY <4>1, <4>4, ConsumeKeeps
        <4>5. QED
          BY <3>3, <4>2, <4>3, <4>4 DEF OtpStep
      <3>4. CASE AskCode(w)
        BY <3>4, AskCodeKeeps
      <3>5. QED
        BY <2>4, <3>1, <3>2, <3>3, <3>4 DEF Step
    <2>5. CASE UNCHANGED vars
      BY <2>5, StutterKeeps
    <2>6. QED
      BY <2>1, <2>2, <2>3, <2>4, <2>5 DEF Next
  <1>3. QED
    BY <1>1, <1>2, PTL DEF Spec

\* Every variable keeps its type: each step of the views writes rows, counters and
\* requests of the shape the models declare.
THEOREM TypeCorrect == Spec => []TypeOK
  <1>1. IInv => TypeOK
    BY DEF IInv
  <1>2. QED
    BY <1>1, Invariance, PTL

\* Of each purpose there are never more open challenges than requests that can be
\* served at a time, although send_otp consumes the old ones in one statement and
\* inserts the new one in another.
THEOREM OpenChallenges == Spec => []OpenBounded
  <1>1. IInv => OpenBounded
    BY DEF IInv
  <1>2. QED
    BY <1>1, Invariance, PTL

\* A code is accepted at most as often as requests can be served at a time: once
\* it is consumed, only requests that had read it as open can still pass.
THEOREM CodeUses == Spec => []CodeUsesBounded
  <1>1. IInv => CodeUsesBounded
    BY DEF IInv
  <1>2. QED
    BY <1>1, Invariance, PTL

\* Only a code sent for resetting the password sets one, whatever purpose
\* VerifyOtpView takes another challenge for.
THEOREM PasswordOnlyByReset == Spec => []PasswordByReset
  <1>1. IInv => PasswordByReset
    BY DEF IInv
  <1>2. QED
    BY <1>1, Invariance, PTL

\* Accounts are never left without the rows that belong to them, unless a signup
\* was cut short; and codes are sent to accounts only.
THEOREM WholeAccounts == Spec => []AccountsWhole
  <1>1. IInv => AccountsWhole
    <2> SUFFICES ASSUME IInv
                 PROVE  AccountsWhole
      OBVIOUS
    <2>1. Whole
      BY DEF IInv
    <2>2. Quiet => \A k \in Contacts, w \in Workers : ~Completing(k, w)
      BY DEF Quiet, Completing
    <2>3. QED
      BY <2>1, <2>2 DEF AccountsWhole, Whole
  <1>2. QED
    BY <1>1, Invariance, PTL

-----------------------------------------------------------------------------
(* When requests are served one by one                                     *)

Busy(w) == req[w].pc # "idle"

\* The attempts that have been saved bound the codes that were compared.
Judged(i) == /\ guessed[i] <= challenge[i].attempts /\ guessed[i] <= MaxAttempts
             /\ accepted[i] <= 1

\* What the one request has read is what the rows still say.
Fresh(w) ==
    /\ req[w].pc \in {"saveAttempts", "consume"} => ~challenge[req[w].row].consumed
    /\ req[w].pc = "saveAttempts" => req[w].n = challenge[req[w].row].attempts + 1
    /\ req[w].pc = "saveUser" => req[w].copy.device = user["phone"].device

\* Nobody registers a device before the account is there, and none is made with one.
Deviceless ==
    /\ ~Has("phone") => registered = None
    /\ \A w \in Workers : req[w].pc \in {"readUser", "saveUser"} => req[w].view = "confirm"
    /\ \A w \in Workers : Busy(w) /\ req[w].view \in {"signup", "register"}
                             => req[w].copy.device = None

AloneInv ==
    /\ Deviceless
    /\ ~overlapped =>
          /\ \A v, w \in Workers : Busy(v) /\ Busy(w) => v = w
          /\ \A w \in Workers : Fresh(w)
          /\ \A i \in DOMAIN challenge : Judged(i)
          /\ DeviceKept

\* How a statement moves its request on.
LEMMA StepMoves ==
    ASSUME IInv, NEW w \in Workers, Step(w)
    PROVE  /\ Busy(w) /\ overlapped' = overlapped
           /\ \A v \in Workers \ {w} : req'[v] = req[v]
           /\ Busy(w)' => /\ req'[w].view = req[w].view
                          /\ req[w].pc = "readUser" \/ req'[w].copy = req[w].copy
           /\ req'[w].pc = "readUser" => req[w].view = "confirm"
           /\ req'[w].pc = "saveUser" => req[w].pc = "readUser"
  <1>1. req \in [Workers -> Request] /\ req[w] \in Request
    BY Reads DEF TypeOK
  <1>2. \A view \in Views : First(view) \in {"checkUser", "findUser", "newest", "readChallenge", "saveDevice"}
    BY DEF First, Views
  <1>3. req[w].view \in Views
    BY <1>1 DEF Request
  <1>4. CASE CountRequest(w)
    BY <1>1, <1>2, <1>3, <1>4 DEF CountRequest, counted, Busy, Request
  <1>5. CASE CheckUser(w) \/ FindUser(w) \/ ReadNewest(w)
    BY <1>1, <1>5 DEF CheckUser, FindUser, ReadNewest, Answer, Goto, counted, Busy, Request, Idle
  <1>6. CASE InsertUser(w) \/ InsertProfile(w) \/ InsertStore(w)
    BY <1>1, <1>6 DEF InsertUser, InsertProfile, InsertStore, Registered, Answer, Goto, counted,
       Busy, Request, Idle
  <1>7. CASE ReadUser(w)
    <2>1. req[w].pc = "readUser" /\ overlapped' = overlapped
      BY <1>7 DEF ReadUser, counted
    <2>2. req'[w].pc = "saveUser" /\ req'[w].view = req[w].view /\ \A v \in Workers \ {w} : req'[v] = req[v]
      BY <1>1, <1>7 DEF ReadUser, Request
    <2>3. QED
      BY <2>1, <2>2 DEF Busy
  <1>8. CASE SaveUser(w) \/ SaveDevice(w)
    BY <1>1, <1>8 DEF SaveUser, SaveDevice, Answer, counted, Busy, Idle
  <1>9. CASE OtpStep(w)
    <2>1. overlapped' = overlapped
      BY <1>9 DEF OtpStep, counted
    <2>2. CASE CountCode(w, Idle) \/ ReadChallenge(w, Idle) \/ Lock(w, Idle)
      BY <1>1, <2>1, <2>2 DEF CountCode, ReadChallenge, Lock, Busy, Request, Idle
    <2>3. CASE ConsumeOld(w) \/ InsertChallenge(w) \/ SaveAttempts(w, Idle)
      BY <1>1, <2>1, <2>3 DEF ConsumeOld, InsertChallenge, SaveAttempts, Goto, Busy, Request, Idle
    <2>4. CASE Consume(w, IF req[w].view = "confirm" THEN [req[w] EXCEPT !.pc = "readUser"] ELSE Idle)
      BY <1>1, <2>1, <2>4 DEF Consume, Busy, Request, Idle
    <2>5. QED
      BY <1>9, <2>2, <2>3, <2>4 DEF OtpStep
  <1>10. CASE AskCode(w)
    BY <1>1, <1>10 DEF AskCode, ReadCount, Busy, Request, Idle
  <1>11. QED
    BY <1>4, <1>5, <1>6, <1>7, <1>8, <1>9, <1>10 DEF Step

\* How a request begins.
LEMMA ArriveMoves ==
    ASSUME IInv, NEW w \in Workers, Arrive(w)
    PROVE  /\ \A v \in Workers \ {w} : req'[v] = req[v]
           /\ ~overlapped' => ~overlapped /\ \A v \in Workers \ {w} : ~Busy(v)
           /\ req'[w].pc \notin {"readUser", "saveUser", "saveAttempts", "consume"}
           /\ req'[w].view \in {"signup", "register"} => req'[w].copy.device = None
           /\ req'[w].n = Seen("api") /\ req'[w].pc \notin {"consumeOld", "insert", "countCode"}
           /\ req'[w].pc = "countRequest" => ~Refused("api")
  <1>0. PICK view \in Views : \E a \in Asked(view) :
           req' = [req EXCEPT ![w] =
                     [a EXCEPT !.view = view, !.purpose = Purpose(view), !.n = Seen("api"),
                               !.pc = IF Limit["api"] = 0 THEN First(view) ELSE "countRequest"]]
    BY DEF Arrive
  <1>1. PICK a \in Asked(view) :
           req' = [req EXCEPT ![w] =
                     [a EXCEPT !.view = view, !.purpose = Purpose(view), !.n = Seen("api"),
                               !.pc = IF Limit["api"] = 0 THEN First(view) ELSE "countRequest"]]
    BY <1>0
  <1> DEFINE r == [a EXCEPT !.view = view, !.purpose = Purpose(view), !.n = Seen("api"),
                            !.pc = IF Limit["api"] = 0 THEN First(view) ELSE "countRequest"]
  <1>2. First(view) \in {"checkUser", "findUser", "newest", "readChallenge", "saveDevice"}
    BY <1>1 DEF First, Views
  <1>3. \E i : \E role, d : a \in {[Idle EXCEPT !.copy.role = role], [Idle EXCEPT !.copy.device = d],
                               [Idle EXCEPT !.guess = i], Idle}
    BY <1>1 DEF Asked
  <1>4. /\ r.pc \in {First(view), "countRequest"} /\ r.view = view /\ r.copy = a.copy
        /\ r.n = Seen("api") /\ (r.pc = "countRequest" => Limit["api"] # 0)
    BY <1>2, <1>3 DEF Idle
  <1>5. view \in {"signup", "register"} => a.copy.device = None
    <2>1. SUFFICES ASSUME view \in {"signup", "register"} PROVE a.copy.device = None
      OBVIOUS
    <2>2. PICK role \in Roles : a = [Idle EXCEPT !.copy.role = role]
      BY <1>1, <2>1 DEF Asked
    <2>3. QED
      BY <2>2 DEF Idle, NoUser
  <1> HIDE DEF r
  <1>6. req'[w] = r /\ \A v \in Workers \ {w} : req'[v] = req[v]
    BY <1>1, Reads DEF r, TypeOK
  <1>7. ~overlapped' => ~overlapped /\ \A v \in Workers \ {w} : ~Busy(v)
    BY Reads DEF Arrive, Busy
  <1>8. Limit["api"] = 0 \/ ~Refused("api")
    BY DEF Arrive
  <1>9. QED
    BY <1>2, <1>4, <1>5, <1>6, <1>7, <1>8

\* An account that is there stays; only it registers a device.
LEMMA DevicelessStep == IInv /\ Deviceless /\ [Next]_vars => Deviceless'
  <1> SUFFICES ASSUME IInv, Deviceless, [Next]_vars PROVE Deviceless'
    OBVIOUS
  <1>1. TypeOK /\ user \in [Contacts -> User] /\ "phone" \in Contacts
    BY DEF IInv, TypeOK, Contacts
  <1>2. CASE UNCHANGED req /\ UNCHANGED <<user, registered>>
    BY <1>2 DEF Deviceless, Has, Busy
  <1>3. ASSUME NEW w \in Workers, Arrive(w) \/ Fail(w)
        PROVE  Deviceless'
    <2>1. UNCHANGED <<user, registered>>
      BY <1>3 DEF Arrive, Fail, tables
    <2>2. CASE Arrive(w)
      BY <2>1, <2>2, ArriveMoves DEF Deviceless, Has, Busy
    <2>3. CASE Fail(w)
      <3>1. req'[w] = Idle /\ \A v \in Workers \ {w} : req'[v] = req[v]
        BY <1>1, <2>3 DEF Fail, Answer, TypeOK
      <3>2. QED
        BY <2>1, <3>1 DEF Deviceless, Has, Busy, Idle
    <2>4. QED
      BY <1>3, <2>2, <2>3
  <1>4. ASSUME NEW w \in Workers, Step(w)
        PROVE  Deviceless'
    <2>1. /\ \A v \in Workers \ {w} : req'[v] = req[v]
          /\ Busy(w) /\ (Busy(w)' => /\ req'[w].view = req[w].view
                                     /\ req[w].pc = "readUser" \/ req'[w].copy = req[w].copy)
          /\ req'[w].pc = "readUser" => req[w].view = "confirm"
          /\ req'[w].pc = "saveUser" => req[w].pc = "readUser"
      BY <1>4, StepMoves
    <2>2. \A v \in Workers : req'[v].pc \in {"readUser", "saveUser"} => req'[v].view = "confirm"
      BY <2>1 DEF Deviceless, Busy
    <2>3. \A v \in Workers : Busy(v)' /\ req'[v].view \in {"signup", "register"}
                               => req'[v].copy.device = None
      BY <2>1 DEF Deviceless, Busy
    <2>4. ~Has("phone")' => registered' = None
      <3>1. CASE UNCHANGED <<user, registered>>
        BY <3>1 DEF Deviceless, Has
      <3>2. CASE InsertUser(w)
        <4>1. registered' = registered
          BY <3>2 DEF InsertUser
        <4>2. Has("phone") => Has("phone")'
          <5>1. CASE Has(Key(w))
            BY <3>2, <5>1 DEF InsertUser, Has
          <5>2. CASE ~Has(Key(w))
            <6>1. user' = [user EXCEPT ![Key(w)] = req[w].copy]
              BY <3>2, <5>2 DEF InsertUser
            <6>2. Has("phone") => "phone" # Key(w)
              BY <5>2
            <6>3. QED
              BY <1>1, <6>1, <6>2 DEF Has
          <5>3. QED
            BY <5>1, <5>2
        <4>3. QED
          BY <4>1, <4>2 DEF Deviceless
      <3>3. CASE SaveUser(w)
        <4>1. registered' = registered /\ user' = [user EXCEPT !["phone"] = req[w].copy]
              /\ req[w].pc = "saveUser"
          BY <3>3 DEF SaveUser
        <4>2. req[w].copy.role = user["phone"].role
          BY <4>1 DEF IInv, Sound
        <4>3. QED
          BY <1>1, <4>1, <4>2 DEF Deviceless, Has
      <3>4. CASE SaveDevice(w)
        <4>1. Has("phone") /\ user' = [user EXCEPT !["phone"].device = req[w].copy.device]
          BY <3>4, <2>1 DEF SaveDevice, IInv, Sound
        <4>2. user'["phone"].role = user["phone"].role
          BY <1>1, <4>1 DEF User
        <4>3. QED
          BY <4>1, <4>2 DEF Has
      <3>5. QED
        BY <1>4, <3>1, <3>2, <3>3, <3>4 DEF Step, CountRequest, CheckUser, InsertProfile, InsertStore,
           FindUser, ReadNewest, ReadUser, AskCode, OtpStep, tables
    <2>5. QED
      BY <2>2, <2>3, <2>4 DEF Deviceless
  <1>5. QED
    BY <1>2, <1>3, <1>4 DEF Next, Tick, vars, tables

\* What the one request that runs relies on.
OneByOne(w) ==
    /\ Fresh(w)
    /\ \A i \in DOMAIN challenge : Judged(i)
    /\ user["phone"].device = registered

\* A step that writes neither challenges nor accounts, and reads none of them.
LEMMA OnlyMoved ==
    ASSUME NEW w \in Workers, OneByOne(w), UNCHANGED <<codes, tables>>,
           req'[w].pc \notin {"saveAttempts", "consume", "saveUser"}
    PROVE  OneByOne(w)'
  BY DEF OneByOne, Fresh, Judged, codes, tables

\* The account is read: the copy has its device.
LEMMA ReadUserAlone ==
    ASSUME IInv, NEW w \in Workers, OneByOne(w), ReadUser(w)
    PROVE  OneByOne(w)'
  <1>1. /\ TypeOK /\ req[w] \in Request /\ user["phone"] \in User
    BY Reads DEF TypeOK, Contacts
  <1> DEFINE c == [user["phone"] EXCEPT !.password = req[w].row]
  <1>2. c.device = user["phone"].device
    BY <1>1 DEF User
  <1>3. UNCHANGED <<codes, tables>> /\ req' = [req EXCEPT ![w].pc = "saveUser", ![w].copy = c]
    BY DEF ReadUser
  <1> HIDE DEF c
  <1>4. req'[w].pc = "saveUser" /\ req'[w].copy = c
    BY <1>1, <1>3 DEF TypeOK, Request
  <1>5. QED
    BY <1>2, <1>3, <1>4 DEF OneByOne, Fresh, Judged, codes, tables

\* The newest challenge is read, with its attempts.
LEMMA ReadChallengeAlone ==
    ASSUME IInv, NEW w \in Workers, OneByOne(w), ReadChallenge(w, Idle), UNCHANGED tables
    PROVE  OneByOne(w)'
  <1> DEFINE open == Open({req[w].purpose})
             i    == Max(open)
  <1>1. TypeOK /\ req[w] \in Request /\ UNCHANGED codes
    BY Reads DEF ReadChallenge, codes
  <1>2. CASE req' = [req EXCEPT ![w] = Idle]
    <2>1. req'[w] = Idle
      BY <1>2, Reads
    <2>2. QED
      BY <1>1, <2>1, OnlyMoved DEF Idle
  <1>3. CASE /\ open # {}
             /\ req' = [req EXCEPT ![w].pc = "saveAttempts", ![w].row = i,
                                   ![w].n = challenge[i].attempts + 1]
    <2>1. i \in open
      BY <1>1, <1>3, NewestIsOpen
    <2>2. ~challenge[i].consumed
      BY <2>1 DEF Open
    <2> HIDE DEF i
    <2>3. /\ req'[w].pc = "saveAttempts" /\ req'[w].row = i
          /\ req'[w].n = challenge[i].attempts + 1
      BY <1>1, <1>3 DEF TypeOK, Request
    <2>4. QED
      BY <1>1, <2>2, <2>3 DEF OneByOne, Fresh, Judged, codes, tables
  <1>4. QED
    BY <1>2, <1>3 DEF ReadChallenge

\* The attempts are saved before the code is judged, and so bound the codes judged.
LEMMA SaveAttemptsAlone ==
    ASSUME IInv, NEW w \in Workers, OneByOne(w), SaveAttempts(w, Idle), UNCHANGED tables
    PROVE  OneByOne(w)'
  <1> DEFINE i == req[w].row
             c == [challenge[i] EXCEPT !.attempts = req[w].n]
  <1>1. /\ TypeOK /\ req[w] \in Request /\ req[w].pc = "saveAttempts" /\ accepted' = accepted
        /\ i \in DOMAIN challenge /\ ~challenge[i].consumed
        /\ req[w].n = challenge[i].attempts + 1 /\ Judged(i)
    BY Reads DEF SaveAttempts, Sound, OneByOne, Fresh
  <1>2. /\ challenge[i] \in Challenge /\ guessed \in [1 .. Len(challenge) -> Nat]
        /\ i \in 1 .. Len(challenge) /\ DOMAIN challenge = 1 .. Len(challenge)
        /\ \A j \in DOMAIN challenge : guessed[j] \in Nat
    BY <1>1, Rows
  <1>3. c \in Challenge /\ c.consumed = challenge[i].consumed /\ c.attempts = req[w].n
    BY <1>1, <1>2 DEF Challenge, Request
  <1>4. /\ DOMAIN challenge' = DOMAIN challenge
        /\ \A j \in DOMAIN challenge : challenge'[j] = IF j = i THEN c ELSE challenge[j]
    <2>1. challenge' = [challenge EXCEPT ![i] = c]
      BY DEF SaveAttempts
    <2> HIDE DEF c, i
    <2>2. QED
      BY <1>1, <1>3, <2>1, RowWritten
  <1>5. \/ guessed' = guessed
        \/ req[w].n <= MaxAttempts /\ guessed' = [guessed EXCEPT ![i] = @ + 1]
    <2>1. req[w].n \in Nat /\ MaxAttempts \in Nat
      BY <1>1, OtpAssumption DEF Request
    <2>2. QED
      BY <2>1 DEF SaveAttempts
  <1>6. \A j \in DOMAIN challenge : Judged(j)'
    <2>1. ASSUME NEW j \in DOMAIN challenge
          PROVE  /\ guessed'[j] <= challenge'[j].attempts /\ guessed'[j] <= MaxAttempts
                 /\ accepted'[j] <= 1
      <3>1. /\ guessed[j] <= challenge[j].attempts /\ guessed[j] <= MaxAttempts /\ accepted[j] <= 1
        BY DEF OneByOne, Judged
      <3>2. challenge[i].attempts \in Nat /\ guessed[j] \in Nat /\ MaxAttempts \in Nat
        BY <1>2, OtpAssumption DEF Challenge
      <3>3. CASE j = i
        <4>1. guessed'[j] = guessed[j] \/ (req[w].n <= MaxAttempts /\ guessed'[j] = guessed[j] + 1)
          BY <1>2, <1>5, <3>3
        <4>2. challenge'[j].attempts = challenge[i].attempts + 1
          BY <1>1, <1>3, <1>4, <3>3
        <4>3. QED
          BY <1>1, <3>1, <3>2, <3>3, <4>1, <4>2
      <3>4. CASE j # i
        BY <1>1, <1>2, <1>4, <1>5, <3>1, <3>4
      <3>5. QED
        BY <3>3, <3>4
    <2>2. QED
      BY <2>1 DEF Judged
  <1>7. Fresh(w)'
    <2>1. PICK r \in {Idle, [req[w] EXCEPT !.pc = "lock"], [req[w] EXCEPT !.pc = "consume"]} :
             req' = [req EXCEPT ![w] = r]
      BY DEF SaveAttempts, Goto
    <2>2. r.pc \in {"idle", "lock", "consume"} /\ (r.pc = "consume" => r.row = i)
      BY <1>1, <2>1 DEF Request, Idle
    <2>3. req'[w] = r
      BY <2>1, Reads
    <2>4. ~challenge'[i].consumed
      BY <1>1, <1>3, <1>4
    <2>5. QED
      BY <2>2, <2>3, <2>4 DEF Fresh
  <1>8. QED
    BY <1>4, <1>6, <1>7 DEF OneByOne, tables

\* A challenge is passed once: it was still open, and is consumed.
LEMMA ConsumeAlone ==
    ASSUME IInv, NEW w \in Workers, OneByOne(w), UNCHANGED tables,
           Consume(w, IF req[w].view = "confirm" THEN [req[w] EXCEPT !.pc = "readUser"] ELSE Idle)
    PROVE  OneByOne(w)'
  <1> DEFINE i == req[w].row
             c == [challenge[i] EXCEPT !.consumed = TRUE]
  <1>1. /\ TypeOK /\ req[w] \in Request /\ req[w].pc = "consume" /\ guessed' = guessed
        /\ i \in DOMAIN challenge /\ ~challenge[i].consumed /\ Passed
    BY Reads DEF Consume, Sound, OneByOne, Fresh, IInv
  <1>2. /\ challenge[i] \in Challenge /\ accepted \in [1 .. Len(challenge) -> Nat]
        /\ i \in 1 .. Len(challenge) /\ DOMAIN challenge = 1 .. Len(challenge)
    BY <1>1, Rows
  <1>3. c \in Challenge /\ c.attempts = challenge[i].attempts
    BY <1>2 DEF Challenge
  <1>4. /\ DOMAIN challenge' = DOMAIN challenge
        /\ \A j \in DOMAIN challenge : challenge'[j] = IF j = i THEN c ELSE challenge[j]
    <2>1. challenge' = [challenge EXCEPT ![i] = c]
      BY DEF Consume
    <2> HIDE DEF c, i
    <2>2. QED
      BY <1>1, <1>3, <2>1, RowWritten
  <1>5. accepted[i] = 0 /\ accepted' = [accepted EXCEPT ![i] = @ + 1]
    BY <1>1, <1>2 DEF Consume, Passed
  <1>6. \A j \in DOMAIN challenge : Judged(j)'
    <2>1. ASSUME NEW j \in DOMAIN challenge
          PROVE  /\ guessed'[j] <= challenge'[j].attempts /\ guessed'[j] <= MaxAttempts
                 /\ accepted'[j] <= 1
      <3>1. guessed[j] <= challenge[j].attempts /\ guessed[j] <= MaxAttempts /\ accepted[j] <= 1
        BY DEF OneByOne, Judged
      <3>2. challenge'[j].attempts = challenge[j].attempts
        BY <1>3, <1>4
      <3> HIDE DEF i, c
      <3>3. accepted'[j] <= 1
        BY <1>2, <1>5, <3>1
      <3>4. QED
        BY <1>1, <3>1, <3>2, <3>3
    <2>2. QED
      BY <2>1 DEF Judged
  <1>7. Fresh(w)'
    <2> DEFINE r == IF req[w].view = "confirm" THEN [req[w] EXCEPT !.pc = "readUser"] ELSE Idle
    <2>0. r.pc \in {"idle", "readUser"}
      BY <1>1 DEF Request, Idle
    <2> HIDE DEF r
    <2>3. req'[w] = r
      BY Reads DEF Consume, r
    <2>1. req'[w].pc \in {"idle", "readUser"}
      BY <2>0, <2>3
    <2>2. QED
      BY <2>1 DEF Fresh
  <1>8. QED
    BY <1>4, <1>6, <1>7 DEF OneByOne, tables

\* A challenge that is consumed unpassed keeps its attempts.
LEMMA LockAlone ==
    ASSUME IInv, NEW w \in Workers, OneByOne(w), Lock(w, Idle), UNCHANGED tables
    PROVE  OneByOne(w)'
  <1> DEFINE i == req[w].row
             c == [challenge[i] EXCEPT !.consumed = TRUE]
  <1>1. TypeOK /\ i \in DOMAIN challenge /\ accepted' = accepted /\ guessed' = guessed
    BY Reads DEF Lock, Sound
  <1>2. challenge[i] \in Challenge
    BY <1>1, Rows
  <1>3. c \in Challenge /\ c.attempts = challenge[i].attempts
    BY <1>2 DEF Challenge
  <1>4. /\ DOMAIN challenge' = DOMAIN challenge
        /\ \A j \in DOMAIN challenge : challenge'[j] = IF j = i THEN c ELSE challenge[j]
    <2>1. challenge' = [challenge EXCEPT ![i] = c]
      BY DEF Lock
    <2> HIDE DEF c, i
    <2>2. QED
      BY <1>1, <1>3, <2>1, RowWritten
  <1>5. \A j \in DOMAIN challenge : challenge'[j].attempts = challenge[j].attempts
    BY <1>3, <1>4
  <1>6. req'[w] = Idle
    BY Reads DEF Lock
  <1>7. QED
    BY <1>1, <1>4, <1>5, <1>6 DEF OneByOne, Fresh, Judged, Idle, tables

\* So do the challenges that a new code invalidates.
LEMMA ConsumeOldAlone ==
    ASSUME IInv, NEW w \in Workers, OneByOne(w), ConsumeOld(w), UNCHANGED tables
    PROVE  OneByOne(w)'
  <1>1. TypeOK /\ req[w] \in Request /\ accepted' = accepted /\ guessed' = guessed
    BY Reads DEF ConsumeOld
  <1>2. /\ DOMAIN challenge' = DOMAIN challenge
        /\ \A j \in DOMAIN challenge : challenge'[j].attempts = challenge[j].attempts
    <2>1. \A j \in DOMAIN challenge : challenge[j] \in Challenge
      BY <1>1, Rows
    <2>2. \A j \in DOMAIN challenge :
             challenge'[j] = challenge[j] \/ challenge'[j] = [challenge[j] EXCEPT !.consumed = TRUE]
      BY DEF ConsumeOld
    <2>3. QED
      BY <2>1, <2>2 DEF ConsumeOld, Challenge
  <1>3. req'[w].pc = "insert"
    BY <1>1 DEF ConsumeOld, Goto, TypeOK, Request
  <1>4. QED
    BY <1>1, <1>2, <1>3 DEF OneByOne, Fresh, Judged, tables

\* A new challenge has been compared with nothing.
LEMMA InsertChallengeAlone ==
    ASSUME IInv, NEW w \in Workers, OneByOne(w), InsertChallenge(w), UNCHANGED tables
    PROVE  OneByOne(w)'
  <1> DEFINE c == [purpose |-> req[w].purpose, left |-> Lifetime, attempts |-> 0, consumed |-> FALSE]
             n == Len(challenge) + 1
  <1>1. TypeOK /\ req[w] \in Request /\ MaxAttempts \in Nat
    BY Reads, OtpAssumption
  <1>2. c \in Challenge /\ c.attempts = 0
    BY <1>1, OtpAssumption DEF Challenge, Request
  <1> HIDE DEF c
  <1>3. /\ challenge' = Append(challenge, c) /\ accepted' = Append(accepted, 0)
        /\ guessed' = Append(guessed, 0) /\ req'[w].pc = "countCode"
    BY <1>1 DEF InsertChallenge, Goto, TypeOK, Request, c
  <1>4. /\ DOMAIN challenge = 1 .. Len(challenge) /\ Len(challenge) \in Nat
        /\ DOMAIN challenge' = 1 .. n
        /\ \A j \in DOMAIN challenge : /\ challenge'[j] = challenge[j] /\ accepted'[j] = accepted[j]
                                       /\ guessed'[j] = guessed[j]
        /\ challenge'[n] = c /\ accepted'[n] = 0 /\ guessed'[n] = 0
    BY <1>1, <1>2, <1>3 DEF TypeOK
  <1>5. \A j \in DOMAIN challenge' : j \in DOMAIN challenge \/ j = n
    BY <1>4
  <1> HIDE DEF n
  <1>6. \A j \in DOMAIN challenge' : Judged(j)'
    <2>1. ASSUME NEW j \in DOMAIN challenge'
          PROVE  /\ guessed'[j] <= challenge'[j].attempts /\ guessed'[j] <= MaxAttempts
                 /\ accepted'[j] <= 1
      <3>1. CASE j \in DOMAIN challenge
        BY <1>4, <3>1 DEF OneByOne, Judged
      <3>2. CASE j = n
        BY <1>1, <1>2, <1>4, <3>2
      <3>3. QED
        BY <1>5, <3>1, <3>2
    <2>2. QED
      BY <2>1 DEF Judged
  <1>7. QED
    BY <1>3, <1>6 DEF OneByOne, Fresh, tables

\* Whoever writes the account of the phone leaves it the device registered last.
LEMMA AccountsAlone ==
    ASSUME IInv, Deviceless, NEW w \in Workers, OneByOne(w),
           InsertUser(w) \/ InsertProfile(w) \/ InsertStore(w) \/ SaveUser(w) \/ SaveDevice(w)
    PROVE  OneByOne(w)'
  <1>1. /\ TypeOK /\ user \in [Contacts -> User] /\ "phone" \in Contacts
        /\ req[w] \in Request /\ Sound(w) /\ UNCHANGED codes
    BY Reads DEF TypeOK, Contacts, InsertUser, InsertProfile, InsertStore, SaveUser, SaveDevice
  <1>2. req'[w].pc \notin {"saveAttempts", "consume", "saveUser"}
    BY <1>1 DEF InsertUser, InsertProfile, InsertStore, SaveUser, SaveDevice, Registered, Answer, Goto,
       TypeOK, Request, Idle
  <1>3. user'["phone"].device = registered'
    <2>1. user["phone"].device = registered
      BY DEF OneByOne
    <2>2. CASE InsertProfile(w) \/ InsertStore(w)
      BY <2>1, <2>2 DEF InsertProfile, InsertStore
    <2>3. CASE InsertUser(w)
      <3>1. registered' = registered /\ req[w].pc = "insertUser"
        BY <2>3 DEF InsertUser
      <3>2. CASE Has(Key(w))
        BY <2>1, <2>3, <3>1, <3>2 DEF InsertUser
      <3>3. CASE ~Has(Key(w))
        <4>1. user' = [user EXCEPT ![Key(w)] = req[w].copy]
          BY <2>3, <3>3 DEF InsertUser
        <4>2. CASE Key(w) = "phone"
          <5>1. registered = None /\ req[w].copy.device = None
            BY <1>1, <3>1, <3>3, <4>2 DEF Deviceless, Busy, Sound
          <5>2. QED
            BY <1>1, <3>1, <4>1, <4>2, <5>1
        <4>3. CASE Key(w) # "phone"
          BY <1>1, <2>1, <3>1, <4>1, <4>3
        <4>4. QED
          BY <4>2, <4>3
      <3>4. QED
        BY <3>2, <3>3
    <2>4. CASE SaveUser(w)
      BY <1>1, <2>1, <2>4 DEF SaveUser, OneByOne, Fresh
    <2>5. CASE SaveDevice(w)
      BY <1>1, <2>5 DEF SaveDevice, User
    <2>6. QED
      BY <2>2, <2>3, <2>4, <2>5
  <1>4. QED
    BY <1>1, <1>2, <1>3 DEF OneByOne, Fresh, Judged, codes

\* Every statement of the one request that runs.
LEMMA StepAlone ==
    ASSUME IInv, Deviceless, NEW w \in Workers, OneByOne(w), Step(w)
    PROVE  OneByOne(w)'
  <1>1. req \in [Workers -> Request] /\ req[w] \in Request
    BY Reads DEF TypeOK
  <1>2. CASE CountRequest(w)
    <2>1. First(req[w].view) \in {"checkUser", "findUser", "newest", "readChallenge", "saveDevice"}
      BY <1>1 DEF First, Views, Request
    <2>2. req'[w].pc = First(req[w].view) /\ UNCHANGED <<codes, tables>>
      BY <1>1, <1>2 DEF CountRequest, Request
    <2>3. QED
      BY <2>1, <2>2, OnlyMoved
  <1>3. CASE CheckUser(w) \/ FindUser(w) \/ ReadNewest(w)
    <2>1. req'[w].pc \in {"idle", "insertUser", "send", "readChallenge"} /\ UNCHANGED <<codes, tables>>
      BY <1>1, <1>3 DEF CheckUser, FindUser, ReadNewest, Answer, Goto, Request, Idle
    <2>2. QED
      BY <2>1, OnlyMoved
  <1>4. CASE InsertUser(w) \/ InsertProfile(w) \/ InsertStore(w) \/ SaveUser(w) \/ SaveDevice(w)
    BY <1>4, AccountsAlone
  <1>5. CASE ReadUser(w)
    BY <1>5, ReadUserAlone
  <1>6. CASE OtpStep(w)
    <2>1. UNCHANGED tables
      BY <1>6 DEF OtpStep
    <2>2. CASE CountCode(w, Idle)
      <3>1. req'[w].pc = "idle" /\ UNCHANGED codes
        BY <1>1, <2>2 DEF CountCode, codes, Request, Idle
      <3>2. QED
        BY <2>1, <3>1, OnlyMoved
    <2>3. CASE ConsumeOld(w) \/ InsertChallenge(w) \/ ReadChallenge(w, Idle)
      BY <2>1, <2>3, ConsumeOldAlone, InsertChallengeAlone, ReadChallengeAlone
    <2>4. CASE SaveAttempts(w, Idle) \/ Lock(w, Idle)
      BY <2>1, <2>4, SaveAttemptsAlone, LockAlone
    <2>5. CASE Consume(w, IF req[w].view = "confirm" THEN [req[w] EXCEPT !.pc = "readUser"] ELSE Idle)
      BY <2>1, <2>5, ConsumeAlone
    <2>6. QED
      BY <1>6, <2>2, <2>3, <2>4, <2>5 DEF OtpStep
  <1>7. CASE AskCode(w)
    <2>1. req'[w].pc \in {"idle", "consumeOld"} /\ UNCHANGED <<codes, tables>>
      BY <1>1, <1>7 DEF AskCode, ReadCount, codes, Request, Idle
    <2>2. QED
      BY <2>1, OnlyMoved
  <1>8. QED
    BY <1>2, <1>3, <1>4, <1>5, <1>6, <1>7 DEF Step

LEMMA AloneStep == IInv /\ AloneInv /\ [Next]_vars => AloneInv'
  <1> SUFFICES ASSUME IInv, AloneInv, [Next]_vars PROVE AloneInv'
    OBVIOUS
  <1>1. Deviceless /\ Deviceless'
    BY DevicelessStep DEF AloneInv
  <1>2. ASSUME NEW w \in Workers, \A v \in Workers \ {w} : req'[v] = req[v] /\ ~Busy(v),
               OneByOne(w)'
        PROVE  AloneInv'
    <2>1. \A v \in Workers \ {w} : ~Busy(v)' /\ Fresh(v)'
      BY <1>2 DEF Busy, Fresh
    <2>2. \A v \in Workers : Fresh(v)'
      BY <1>2, <2>1 DEF OneByOne
    <2>3. \A u, v \in Workers : Busy(u)' /\ Busy(v)' => u = v
      BY <2>1
    <2>4. DeviceKept' /\ \A i \in DOMAIN challenge' : Judged(i)'
      BY <1>2 DEF OneByOne, DeviceKept
    <2>5. QED
      BY <1>1, <2>2, <2>3, <2>4 DEF AloneInv
  <1>3. ~overlapped => user["phone"].device = registered /\ \A w \in Workers : OneByOne(w)
    BY DEF AloneInv, DeviceKept, OneByOne
  <1>4. CASE overlapped'
    BY <1>1, <1>4 DEF AloneInv
  <1>5. ASSUME ~overlapped', NEW w \in Workers, Arrive(w)
        PROVE  AloneInv'
    <2>1. UNCHANGED <<codes, tables>>
      BY <1>5 DEF Arrive
    <2>2. OneByOne(w)'
      BY <1>3, <1>5, <2>1, ArriveMoves, OnlyMoved
    <2>3. QED
      BY <1>2, <1>5, <2>2, ArriveMoves
  <1>6. ASSUME ~overlapped', NEW w \in Workers, Step(w)
        PROVE  AloneInv'
    <2>1. /\ ~overlapped /\ Busy(w) /\ \A v \in Workers \ {w} : req'[v] = req[v]
      BY <1>6, StepMoves
    <2>2. \A v \in Workers \ {w} : ~Busy(v)
      BY <2>1 DEF AloneInv
    <2>3. OneByOne(w)'
      BY <1>1, <1>3, <1>6, <2>1, StepAlone
    <2>4. QED
      BY <1>2, <2>1, <2>2, <2>3
  <1>7. ASSUME ~overlapped', NEW w \in Workers, Fail(w)
        PROVE  AloneInv'
    <2>1. ~overlapped /\ Busy(w) /\ UNCHANGED <<codes, tables>>
      BY <1>7 DEF Fail, Busy
    <2>2. req'[w] = Idle /\ \A v \in Workers \ {w} : req'[v] = req[v]
      BY <1>7, Reads DEF Fail, Answer, TypeOK
    <2>3. \A v \in Workers \ {w} : ~Busy(v)
      BY <2>1 DEF AloneInv
    <2>4. OneByOne(w)'
      BY <1>3, <2>1, <2>2, OnlyMoved DEF Idle
    <2>5. QED
      BY <1>2, <2>2, <2>3, <2>4
  <1>8. ASSUME ~overlapped', Tick
        PROVE  AloneInv'
    <2>1. /\ req' = req /\ accepted' = accepted /\ guessed' = guessed /\ user' = user
          /\ registered' = registered /\ ~overlapped
      BY <1>8 DEF Tick, tables, counted
    <2>2. DOMAIN challenge' = DOMAIN challenge
      BY <1>8 DEF Tick
    <2>3. \A i \in DOMAIN challenge : /\ challenge'[i].attempts = challenge[i].attempts
                                      /\ challenge'[i].consumed = challenge[i].consumed
      <3>1. \A i \in DOMAIN challenge : challenge[i] \in Challenge
        BY Rows DEF IInv
      <3>2. \A i \in DOMAIN challenge :
               \E n : challenge'[i] = [challenge[i] EXCEPT !.left = n]
        BY <1>8 DEF Tick
      <3>3. QED
        BY <3>1, <3>2 DEF Challenge
    <2>4. \A w \in Workers : req[w].pc \in {"saveAttempts", "consume"} => req[w].row \in DOMAIN challenge
      BY DEF IInv, Sound
    <2>5. \A w \in Workers : Fresh(w)'
      <3>1. ASSUME NEW w \in Workers
            PROVE  Fresh(w)'
        <4>1. Fresh(w)
          BY <2>1 DEF AloneInv
        <4>2. QED
          BY <2>1, <2>3, <2>4, <4>1 DEF Fresh
      <3>2. QED
        BY <3>1
    <2>6. \A i \in DOMAIN challenge : Judged(i)'
      BY <2>1, <2>3 DEF AloneInv, Judged
    <2>7. \A v, w \in Workers : Busy(v)' /\ Busy(w)' => v = w
      BY <2>1 DEF AloneInv, Busy
    <2>8. DeviceKept'
      BY <2>1, <1>3 DEF DeviceKept
    <2>9. QED
      BY <1>1, <2>2, <2>5, <2>6, <2>7, <2>8 DEF AloneInv
  <1>9. ASSUME ~overlapped', UNCHANGED vars
        PROVE  AloneInv'
    BY <1>9 DEF AloneInv, Deviceless, Fresh, Judged, Busy, Has, DeviceKept, vars
  <1>10. QED
    BY <1>4, <1>5, <1>6, <1>7, <1>8, <1>9 DEF Next

LEMMA AloneInit == Init => AloneInv
  <1> SUFFICES ASSUME Init PROVE AloneInv
    OBVIOUS
  <1>1. \A w \in Workers : req[w] = Idle
    BY DEF Init
  <1>2. Deviceless
    BY <1>1 DEF Init, Deviceless, Idle, Busy
  <1>3. user["phone"].device = registered
    BY DEF Init, NoUser, Contacts
  <1>4. \A i \in DOMAIN challenge : Judged(i)
    BY OtpAssumption DEF Init, Judged
  <1>5. \A w \in Workers : ~Busy(w) /\ Fresh(w)
    BY <1>1 DEF Idle, Busy, Fresh
  <1>6. QED
    BY <1>2, <1>3, <1>4, <1>5 DEF AloneInv, DeviceKept

LEMMA AloneInvariance == Spec => []AloneInv
  <1>1. IInv /\ AloneInv /\ [Next]_vars => AloneInv'
    BY AloneStep
  <1>2. QED
    BY <1>1, AloneInit, Invariance, PTL DEF Spec

\* As long as requests have been served one by one, wherever they are cut short: a
\* challenge is compared with at most MaxAttempts codes, right or wrong, and opens
\* the door once, because the attempt is saved before the code is judged.
THEOREM GuessesLimited == Spec => []GuessesBounded
  <1>1. AloneInv => GuessesBounded
    BY DEF AloneInv, GuessesBounded, Judged
  <1>2. QED
    BY <1>1, AloneInvariance, PTL

\* And a password reset, which saves the whole account, leaves it the device that
\* was registered last.
THEOREM DeviceStays == Spec => []DeviceKept
  <1>1. AloneInv => DeviceKept
    BY DEF AloneInv, DeviceKept
  <1>2. QED
    BY <1>1, AloneInvariance, PTL

-----------------------------------------------------------------------------
(* The limits                                                              *)

\* What recents r of limit k sum up to.
Recents(r, k) == LET at(a) == r[a] IN MapThenSumSet(at, Ages(k))

LEMMA RecentsSum ==
    ASSUME NEW k \in Keys, NEW r, Ints(r, Ages(k))
    PROVE  \E g : Sums(g, r, Ages(k)) /\ Recents(r, k) = g[Ages(k)]
  <1> DEFINE S == Ages(k)
             It(g) == g = [s \in SUBSET S |-> IF s = {} THEN 0 ELSE r[One(s)] + g[s \ {One(s)}]]
  <1>1. IsFiniteSet(S)
    BY LimitAssumption, FS_Interval DEF Ages
  <1>2. Recents(r, k) = (CHOOSE g : It(g))[S]
    BY DEF Recents, MapThenSumSet, MapThenFoldSet, One
  <1> HIDE DEF S
  <1>3. \A g : It(g) <=> Sums(g, r, S)
    BY DEF Sums, Sum
  <1>4. \E g : It(g)
    BY <1>1, <1>3, SumsExist
  <1> HIDE DEF It
  <1>5. PICK g : g = CHOOSE h : It(h)
    OBVIOUS
  <1>6. It(g)
    BY <1>4, <1>5
  <1>7. QED
    BY <1>2, <1>3, <1>5, <1>6 DEF S

\* As numbers from 0.
LEMMA RecentsInTurn ==
    ASSUME NEW k \in Keys, NEW r \in [Ages(k) -> Nat], NEW m, m = Window[k] - 1
    PROVE  /\ m \in Nat /\ Ages(k) = 0 .. m /\ Ints(r, 0 .. m) /\ Recents(r, k) \in Nat
           /\ \E g : Sums(g, r, 0 .. m) /\ Recents(r, k) = g[0 .. m]
  <1>1. m \in Nat /\ Ages(k) = 0 .. m
    BY LimitAssumption DEF Ages
  <1>2. Ints(r, Ages(k))
    BY DEF Ints
  <1>3. PICK g : Sums(g, r, Ages(k)) /\ Recents(r, k) = g[Ages(k)]
    BY <1>2, RecentsSum
  <1>4. Recents(r, k) \in Nat
    <2>1. PICK V : V = Nat /\ 0 \in V
      OBVIOUS
    <2>2. \A x, y \in Nat : x + y \in Nat
      OBVIOUS
    <2>3. \A x \in Ages(k) : r[x] \in Nat
      OBVIOUS
    <2>4. IsFiniteSet(Ages(k))
      BY LimitAssumption, FS_Interval DEF Ages
    <2>5. \A s \in SUBSET Ages(k) : g[s] \in V
      BY <1>3, <2>1, <2>2, <2>3, <2>4, SumsIn
    <2>6. QED
      BY <1>3, <2>1, <2>5
  <1>5. QED
    BY <1>1, <1>2, <1>3, <1>4

\* Nothing recent is none in all.
LEMMA NoRecents ==
    ASSUME NEW k \in Keys, NEW r \in [Ages(k) -> Nat], \A a \in Ages(k) : r[a] = 0
    PROVE  Recents(r, k) = 0
  <1>1. Ints(r, Ages(k))
    BY DEF Ints
  <1>2. PICK g : Sums(g, r, Ages(k)) /\ Recents(r, k) = g[Ages(k)]
    BY <1>1, RecentsSum
  <1>3. PICK V : V = {0} /\ 0 \in V
    OBVIOUS
  <1>4. \A x, y \in {0} : x + y \in {0}
    OBVIOUS
  <1>5. \A x \in Ages(k) : r[x] \in {0}
    OBVIOUS
  <1>6. IsFiniteSet(Ages(k))
    BY LimitAssumption, FS_Interval DEF Ages
  <1>7. \A s \in SUBSET Ages(k) : g[s] \in V
    BY <1>2, <1>3, <1>4, <1>5, <1>6, SumsIn
  <1>8. QED
    BY <1>2, <1>3, <1>7

\* Growing older, the requests of a window only get fewer.
LEMMA RecentsShifted ==
    ASSUME NEW k \in Keys, NEW r \in [Ages(k) -> Nat], NEW r1 \in [Ages(k) -> Nat],
           r1 = [a \in Ages(k) |-> IF a = 0 THEN 0 ELSE r[a - 1]]
    PROVE  Recents(r1, k) <= Recents(r, k)
  <1>1. PICK m : m = Window[k] - 1
    OBVIOUS
  <1>2. /\ m \in Nat /\ Ages(k) = 0 .. m /\ Ints(r, 0 .. m) /\ Recents(r, k) \in Nat
        /\ \E g : Sums(g, r, 0 .. m) /\ Recents(r, k) = g[0 .. m]
    BY <1>1, RecentsInTurn
  <1>3. /\ Recents(r1, k) \in Nat
        /\ \E g : Sums(g, r1, 0 .. m) /\ Recents(r1, k) = g[0 .. m]
    BY <1>1, RecentsInTurn
  <1>4. PICK g : Sums(g, r, 0 .. m) /\ Recents(r, k) = g[0 .. m]
    BY <1>2
  <1>5. PICK g1 : Sums(g1, r1, 0 .. m) /\ Recents(r1, k) = g1[0 .. m]
    BY <1>3
  <1>6. Sums(g1, Shifted(r, m), 0 .. m)
    BY <1>2, <1>5 DEF Shifted
  <1>7. g1[0 .. m] = g[0 .. m] - r[m]
    BY <1>2, <1>4, <1>6, SumsShifted
  <1>8. r[m] \in Nat
    BY <1>2
  <1>9. QED
    BY <1>2, <1>3, <1>4, <1>5, <1>7, <1>8

\* One more let through now is one more in the window.
LEMMA RecentsOneMore ==
    ASSUME NEW k \in Keys, NEW r \in [Ages(k) -> Nat], NEW r1, r1 = [r EXCEPT ![0] = @ + 1]
    PROVE  r1 \in [Ages(k) -> Nat] /\ Recents(r1, k) = Recents(r, k) + 1
  <1>1. PICK m : m = Window[k] - 1
    OBVIOUS
  <1>2. /\ m \in Nat /\ Ages(k) = 0 .. m /\ Ints(r, 0 .. m) /\ Recents(r, k) \in Nat
        /\ \E g : Sums(g, r, 0 .. m) /\ Recents(r, k) = g[0 .. m]
    BY <1>1, RecentsInTurn
  <1>3. r1 \in [Ages(k) -> Nat] /\ OneMore(r1, r, m)
    BY <1>2 DEF OneMore
  <1>4. \E g : Sums(g, r1, 0 .. m) /\ Recents(r1, k) = g[0 .. m]
    <2>1. PICK q \in [Ages(k) -> Nat] : q = r1
      BY <1>3
    <2>2. \E g : Sums(g, q, 0 .. m) /\ Recents(q, k) = g[0 .. m]
      BY <1>1, RecentsInTurn
    <2>3. QED
      BY <2>1, <2>2
  <1>5. PICK g : Sums(g, r, 0 .. m) /\ Recents(r, k) = g[0 .. m]
    BY <1>2
  <1>6. PICK g1 : Sums(g1, r1, 0 .. m) /\ Recents(r1, k) = g1[0 .. m]
    BY <1>4
  <1>7. g1[0 .. m] = g[0 .. m] + 1
    BY <1>2, <1>3, <1>5, <1>6, SumsOneMore
  <1>8. QED
    BY <1>3, <1>5, <1>6, <1>7

\* A request has read a count and not yet written it back.
Weighing(w, k) == IF k = "api" THEN req[w].pc = "countRequest"
                  ELSE req[w].pc \in {"consumeOld", "insert", "countCode"}
Admitted(w, k) == Weighing(w, k) => InWindow(k) <= req[w].n /\ req[w].n < Limit[k]

\* Since a counter was last written nothing has been let through.
Aged(k) == /\ cache[k].ttl <= Window[k]
           /\ \A a \in Ages(k) : a < Window[k] - cache[k].ttl => recent[k][a] = 0

\* One by one, a counter that has not expired counts what the window holds at least,
\* and so does the count that a request has in hand.
LimitInv ==
    /\ \A k \in Keys : Aged(k)
    /\ ~overlapped => \A k \in Keys : /\ InWindow(k) <= Limit[k] /\ InWindow(k) <= cache[k].count
                                      /\ \A w \in Workers : Admitted(w, k)

LEMMA WindowSum ==
    ASSUME NEW k
    PROVE  InWindow(k) = Recents(recent[k], k) /\ InWindow(k)' = Recents(recent'[k], k)
  BY DEF InWindow, Recents, MapThenSumSet, MapThenFoldSet

LEMMA LimitsRead ==
    ASSUME LimitTyped, NEW k \in Keys
    PROVE  /\ InWindow(k) = Recents(recent[k], k) /\ InWindow(k) \in Nat
           /\ recent[k] \in [Ages(k) -> Nat] /\ cache[k] \in [count : Nat, ttl : Nat]
           /\ Limit[k] \in Nat /\ Window[k] \in Nat \ {0}
  <1>1. recent[k] \in [Ages(k) -> Nat] /\ cache[k] \in [count : Nat, ttl : Nat]
    BY DEF LimitTyped
  <1>2. InWindow(k) = Recents(recent[k], k)
    BY WindowSum
  <1>3. Recents(recent[k], k) \in Nat
    <2>1. PICK r \in [Ages(k) -> Nat] : r = recent[k]
      BY <1>1
    <2>2. Recents(r, k) \in Nat
      BY RecentsInTurn
    <2>3. QED
      BY <2>1, <2>2
  <1>4. QED
    BY <1>1, <1>2, <1>3, LimitAssumption

\* Nothing is counted, and who reads a count reads it as it is.
LEMMA LimitsWait ==
    ASSUME LimitInv, UNCHANGED limits, NEW w \in Workers, \A v \in Workers \ {w} : req'[v] = req[v],
           ~overlapped' => ~overlapped /\ \A k \in Keys : Admitted(w, k)'
    PROVE  LimitInv'
  <1>1. \A k : InWindow(k)' = InWindow(k)
    BY WindowSum DEF limits
  <1>2. \A k : Aged(k) => Aged(k)'
    BY DEF Aged, limits
  <1>3. ASSUME ~overlapped', NEW k \in Keys, NEW v \in Workers
        PROVE  Admitted(v, k)'
    <2>1. CASE v = w
      BY <1>3, <2>1
    <2>2. CASE v # w
      BY <1>1, <1>3, <2>2 DEF LimitInv, Admitted, Weighing
    <2>3. QED
      BY <2>1, <2>2
  <1>4. QED
    BY <1>1, <1>2, <1>3 DEF LimitInv, limits

\* The one request that has read a count writes it back, one higher.
LEMMA LimitsCount ==
    ASSUME IInv, AloneInv, LimitInv, NEW w \in Workers, NEW k \in Keys, Weighing(w, k),
           Count(k, req[w].n), \A v \in Workers \ {w} : req'[v] = req[v],
           overlapped' = overlapped, req'[w].pc \notin {"countRequest", "consumeOld", "insert", "countCode"}
    PROVE  LimitInv'
  <1>1. LimitTyped /\ req[w].n \in Nat
    BY Reads DEF Request
  <1>2. LimitTyped'
    BY <1>1, CountTyped
  <1>3. /\ cache'[k] = [count |-> req[w].n + 1, ttl |-> Window[k]]
        /\ recent'[k] = [recent[k] EXCEPT ![0] = @ + 1]
        /\ \A j \in Keys \ {k} : cache'[j] = cache[j] /\ recent'[j] = recent[j]
    BY <1>1 DEF Count, LimitTyped
  <1>4. InWindow(k)' = InWindow(k) + 1
    <2>1. PICK r \in [Ages(k) -> Nat] : r = recent[k] /\ InWindow(k) = Recents(r, k)
      BY <1>1, LimitsRead
    <2>2. PICK r1 : r1 = [r EXCEPT ![0] = @ + 1]
      OBVIOUS
    <2>3. Recents(r1, k) = Recents(r, k) + 1
      BY <2>2, RecentsOneMore
    <2>4. InWindow(k)' = Recents(r1, k)
      BY <1>3, <2>1, <2>2, WindowSum
    <2>5. QED
      BY <2>1, <2>3, <2>4
  <1>5. \A j \in Keys \ {k} : InWindow(j)' = InWindow(j)
    BY <1>3, WindowSum
  <1>6. ASSUME NEW j \in Keys PROVE Aged(j)'
    <2>1. CASE j = k
      <3>1. \A a \in Ages(k) : ~(a < Window[k] - Window[k])
        BY LimitAssumption DEF Ages
      <3>2. cache'[k].ttl = Window[k] /\ Window[k] <= Window[k]
        BY <1>3, LimitAssumption
      <3>3. QED
        BY <2>1, <3>1, <3>2 DEF Aged
    <2>2. CASE j # k
      BY <1>3, <2>2 DEF LimitInv, Aged
    <2>3. QED
      BY <2>1, <2>2
  <1>7. ASSUME ~overlapped', NEW j \in Keys
        PROVE  /\ InWindow(j)' <= Limit[j] /\ InWindow(j)' <= cache'[j].count
               /\ \A v \in Workers : Admitted(v, j)'
    <2>1. CASE j = k
      <3>1. InWindow(k) <= req[w].n /\ req[w].n < Limit[k] /\ InWindow(k) \in Nat /\ Limit[k] \in Nat
        BY <1>1, <1>7, LimitsRead DEF LimitInv, Admitted
      <3>2. cache'[k].count = req[w].n + 1
        BY <1>3
      <3>3. InWindow(k)' <= Limit[k] /\ InWindow(k)' <= cache'[k].count
        BY <1>1, <1>4, <3>1, <3>2
      <3>4. \A v \in Workers : ~Weighing(v, j)'
        <4>1. Busy(w)
          BY DEF Weighing, Busy
        <4>2. \A v \in Workers \ {w} : req'[v].pc = "idle"
          BY <1>7, <4>1 DEF AloneInv, Busy
        <4>3. QED
          BY <4>2 DEF Weighing
      <3>5. QED
        BY <2>1, <3>3, <3>4 DEF Admitted
    <2>2. CASE j # k
      <3>1. /\ InWindow(j)' <= Limit[j] /\ InWindow(j)' <= cache'[j].count
        BY <1>3, <1>5, <1>7, <2>2 DEF LimitInv
      <3>2. ASSUME NEW v \in Workers PROVE Admitted(v, j)'
        <4>1. CASE v = w
          BY <4>1 DEF Admitted, Weighing
        <4>2. CASE v # w
          BY <1>5, <1>7, <2>2, <4>2 DEF LimitInv, Admitted, Weighing
        <4>3. QED
          BY <4>1, <4>2
      <3>3. QED
        BY <3>1, <3>2
    <2>3. QED
      BY <2>1, <2>2
  <1>8. QED
    BY <1>6, <1>7 DEF LimitInv

\* A count that was read and let through is below the limit, and at least what the
\* window holds.
LEMMA LimitsAdmit ==
    ASSUME LimitTyped, LimitInv, NEW w \in Workers, NEW k \in Keys, UNCHANGED limits,
           ~overlapped, ~Refused(k), req'[w].n = Seen(k)
    PROVE  Admitted(w, k)'
  <1>1. InWindow(k)' = InWindow(k)
    BY WindowSum DEF limits
  <1>2. InWindow(k) <= cache[k].count
    BY DEF LimitInv
  <1>3. cache[k].count \in Nat /\ Limit[k] \in Nat
    BY LimitsRead
  <1>4. QED
    BY <1>1, <1>2, <1>3 DEF Admitted, Refused, Seen

LEMMA LimitsArrive ==
    ASSUME IInv, LimitInv, NEW w \in Workers, Arrive(w)
    PROVE  LimitInv'
  <1>1. UNCHANGED limits
    BY DEF Arrive
  <1>2. ASSUME ~overlapped', NEW k \in Keys PROVE Admitted(w, k)'
    <2>1. CASE k = "api"
      <3>1. CASE req'[w].pc = "countRequest"
        BY <1>1, <1>2, <2>1, <3>1, ArriveMoves, LimitsAdmit, Reads
      <3>2. CASE req'[w].pc # "countRequest"
        BY <2>1, <3>2 DEF Admitted, Weighing
      <3>3. QED
        BY <3>1, <3>2
    <2>2. CASE k # "api"
      BY <2>2, ArriveMoves DEF Admitted, Weighing
    <2>3. QED
      BY <2>1, <2>2
  <1>3. QED
    BY <1>1, <1>2, ArriveMoves, LimitsWait

\* Every statement that counts nothing.
LEMMA LimitsGoOn ==
    ASSUME IInv, LimitInv, NEW w \in Workers, Step(w), ~CountRequest(w), ~CountCode(w, Idle)
    PROVE  LimitInv'
  <1>1. /\ req \in [Workers -> Request] /\ req[w] \in Request /\ LimitTyped
        /\ overlapped' = overlapped /\ \A v \in Workers \ {w} : req'[v] = req[v]
    BY Reads, StepMoves DEF TypeOK
  <1>2. UNCHANGED limits
    BY DEF Step, CheckUser, InsertUser, InsertProfile, InsertStore, FindUser, ReadNewest, ReadUser,
       SaveUser, SaveDevice, AskCode, OtpStep, ReadCount, ConsumeOld, InsertChallenge, ReadChallenge,
       SaveAttempts, Lock, Consume, limits
  <1>3. \A k : InWindow(k)' = InWindow(k)
    BY <1>2, WindowSum DEF limits
  <1>4. ASSUME ~overlapped, NEW k \in Keys PROVE Admitted(w, k)'
    <2>1. CASE CheckUser(w) \/ FindUser(w) \/ ReadNewest(w) \/ ReadUser(w)
      <3>1. req'[w].pc \in {"idle", "insertUser", "send", "readChallenge", "saveUser"}
        BY <1>1, <2>1 DEF CheckUser, FindUser, ReadNewest, ReadUser, Answer, Goto, Request, Idle
      <3>2. QED
        BY <3>1 DEF Admitted, Weighing
    <2>2. CASE InsertUser(w) \/ InsertProfile(w) \/ InsertStore(w) \/ SaveUser(w) \/ SaveDevice(w)
      <3>1. req'[w].pc \in {"idle", "insertProfile", "insertStore", "send"}
        BY <1>1, <2>2 DEF InsertUser, InsertProfile, InsertStore, SaveUser, SaveDevice, Registered,
           Answer, Goto, Request, Idle
      <3>2. QED
        BY <3>1 DEF Admitted, Weighing
    <2>3. CASE ReadChallenge(w, Idle) \/ SaveAttempts(w, Idle) \/ Lock(w, Idle)
      <3>1. req'[w].pc \in {"idle", "saveAttempts", "lock", "consume"}
        BY <1>1, <2>3 DEF ReadChallenge, SaveAttempts, Lock, Goto, Request, Idle
      <3>2. QED
        BY <3>1 DEF Admitted, Weighing
    <2>4. CASE Consume(w, IF req[w].view = "confirm" THEN [req[w] EXCEPT !.pc = "readUser"] ELSE Idle)
      <3>1. req'[w].pc \in {"idle", "readUser"}
        BY <1>1, <2>4 DEF Consume, Request, Idle
      <3>2. QED
        BY <3>1 DEF Admitted, Weighing
    <2>5. CASE AskCode(w)
      <3>1. CASE Refused("otp")
        <4>1. req'[w].pc = "idle"
          BY <1>1, <2>5, <3>1 DEF AskCode, ReadCount, Idle
        <4>2. QED
          BY <4>1 DEF Admitted, Weighing
      <3>2. CASE ~Refused("otp")
        <4>1. req'[w].pc = "consumeOld" /\ req'[w].n = Seen("otp")
          BY <1>1, <2>5, <3>2 DEF AskCode, ReadCount, Request
        <4>2. "otp" \in Keys /\ (k # "otp" => k = "api")
          BY DEF Keys
        <4>3. Admitted(w, "otp")'
          BY <1>1, <1>2, <1>4, <3>2, <4>1, <4>2, LimitsAdmit
        <4>4. QED
          BY <4>1, <4>2, <4>3 DEF Admitted, Weighing
      <3>3. QED
        BY <3>1, <3>2
    <2>6. CASE ConsumeOld(w) \/ InsertChallenge(w)
      <3>1. /\ req'[w].pc \in {"insert", "countCode"} /\ req'[w].n = req[w].n
            /\ req[w].pc \in {"consumeOld", "insert"}
        BY <1>1, <2>6 DEF ConsumeOld, InsertChallenge, Goto, Request
      <3>2. QED
        BY <1>3, <1>4, <3>1 DEF LimitInv, Admitted, Weighing, limits
    <2>7. QED
      BY <2>1, <2>2, <2>3, <2>4, <2>5, <2>6 DEF Step, OtpStep
  <1>5. QED
    BY <1>1, <1>2, <1>4, LimitsWait

\* The two statements that count.
LEMMA LimitsCounted ==
    ASSUME IInv, AloneInv, LimitInv, NEW w \in Workers, Step(w), CountRequest(w) \/ CountCode(w, Idle)
    PROVE  LimitInv'
  <1>1. /\ req \in [Workers -> Request] /\ req[w] \in Request
        /\ overlapped' = overlapped /\ \A v \in Workers \ {w} : req'[v] = req[v]
    BY Reads, StepMoves DEF TypeOK
  <1>2. CASE CountRequest(w)
    <2>1. First(req[w].view) \in {"checkUser", "findUser", "newest", "readChallenge", "saveDevice"}
      BY <1>1 DEF First, Views, Request
    <2>2. req'[w].pc = First(req[w].view)
      BY <1>1, <1>2 DEF CountRequest, Request
    <2>3. Count("api", req[w].n) /\ Weighing(w, "api") /\ "api" \in Keys
      BY <1>2 DEF CountRequest, Weighing, Keys
    <2>4. QED
      BY <1>1, <2>1, <2>2, <2>3, LimitsCount
  <1>3. CASE CountCode(w, Idle)
    <2>1. req'[w].pc = "idle"
      BY <1>1, <1>3 DEF CountCode, Idle
    <2>2. Count("otp", req[w].n) /\ Weighing(w, "otp") /\ "otp" \in Keys
      BY <1>3 DEF CountCode, Weighing, Keys
    <2>3. QED
      BY <1>1, <2>1, <2>2, LimitsCount
  <1>4. QED
    BY <1>2, <1>3

\* Time passes: whatever the window still holds, a counter that expires had been
\* written before all of it went by.
LEMMA LimitsElapse ==
    ASSUME IInv, LimitInv, Elapse, UNCHANGED <<req, overlapped>>
    PROVE  LimitInv'
  <1>0. LimitTyped /\ \A w \in Workers : req[w].n \in Nat
    BY Reads DEF Request, IInv, TypeOK
  <1>1. LimitTyped'
    BY <1>0, ElapseTyped
  <1>2. ASSUME NEW k \in Keys
        PROVE  /\ cache[k].ttl <= 1 => cache'[k] = Gone
               /\ ~(cache[k].ttl <= 1) => cache'[k].ttl = cache[k].ttl - 1 /\ cache'[k].count = cache[k].count
               /\ \A a \in Ages(k) : recent'[k][a] = IF a = 0 THEN 0 ELSE recent[k][a - 1]
               /\ recent'[k] \in [Ages(k) -> Nat]
               /\ InWindow(k)' <= InWindow(k) /\ InWindow(k)' \in Nat
    <2>1. recent'[k] \in [Ages(k) -> Nat]
      BY <1>1 DEF LimitTyped, Ages
    <2>2. PICK r \in [Ages(k) -> Nat], r1 \in [Ages(k) -> Nat] : r = recent[k] /\ r1 = recent'[k]
      BY <1>0, <2>1, LimitsRead
    <2>3. r1 = [a \in Ages(k) |-> IF a = 0 THEN 0 ELSE r[a - 1]]
      BY <2>2 DEF Elapse
    <2>4. Recents(r1, k) <= Recents(r, k)
      BY <2>3, RecentsShifted
    <2>5. Recents(r1, k) \in Nat
      BY RecentsInTurn
    <2>6. InWindow(k)' = Recents(r1, k) /\ InWindow(k) = Recents(r, k)
      BY <2>2, WindowSum
    <2>7. cache'[k] = (IF cache[k].ttl <= 1 THEN Gone ELSE [cache[k] EXCEPT !.ttl = @ - 1])
      BY DEF Elapse
    <2>8. cache[k] \in [count : Nat, ttl : Nat]
      BY <1>0, LimitsRead
    <2>9. /\ cache[k].ttl <= 1 => cache'[k] = Gone
          /\ ~(cache[k].ttl <= 1) => cache'[k].ttl = cache[k].ttl - 1 /\ cache'[k].count = cache[k].count
      BY <2>7, <2>8
    <2>10. \A a \in Ages(k) : recent'[k][a] = IF a = 0 THEN 0 ELSE recent[k][a - 1]
      BY <2>2, <2>3
    <2>11. InWindow(k)' <= InWindow(k) /\ InWindow(k)' \in Nat
      BY <2>4, <2>5, <2>6
    <2>12. QED
      BY <2>1, <2>9, <2>10, <2>11
  <1>3. ASSUME NEW k \in Keys PROVE Aged(k)'
    <2>1. /\ cache[k].ttl \in Nat /\ Window[k] \in Nat \ {0} /\ cache[k].ttl <= Window[k]
          /\ \A a \in Ages(k) : a < Window[k] - cache[k].ttl => recent[k][a] = 0
      BY <1>0, LimitsRead DEF LimitInv, Aged
    <2>2. /\ cache'[k].ttl <= Window[k] /\ cache'[k].ttl \in Nat
          /\ cache'[k].ttl = 0 \/ cache'[k].ttl = cache[k].ttl - 1
          /\ cache'[k].ttl = 0 => cache[k].ttl <= 1
      <3>1. CASE cache[k].ttl <= 1
        <4>1. cache'[k].ttl = 0
          BY <1>2, <3>1 DEF Gone
        <4>2. QED
          BY <2>1, <3>1, <4>1
      <3>2. CASE ~(cache[k].ttl <= 1)
        <4>1. cache'[k].ttl = cache[k].ttl - 1
          BY <1>2, <3>2
        <4>2. QED
          BY <2>1, <3>2, <4>1
      <3>3. QED
        BY <3>1, <3>2
    <2>3. ASSUME NEW a \in Ages(k), a < Window[k] - cache'[k].ttl PROVE recent'[k][a] = 0
      <3>1. CASE a = 0
        BY <1>2, <3>1
      <3>2. CASE a # 0
        <4>1. a - 1 \in Ages(k) /\ a - 1 < Window[k] - cache[k].ttl
          BY <2>1, <2>2, <2>3, <3>2 DEF Ages
        <4>2. recent'[k][a] = recent[k][a - 1]
          BY <1>2, <2>3, <3>2
        <4>3. QED
          BY <2>1, <4>1, <4>2
      <3>3. QED
        BY <3>1, <3>2
    <2>4. QED
      BY <2>2, <2>3 DEF Aged
  <1>4. ASSUME ~overlapped', NEW k \in Keys
        PROVE  /\ InWindow(k)' <= Limit[k] /\ InWindow(k)' <= cache'[k].count
               /\ \A w \in Workers : Admitted(w, k)'
    <2>1. /\ InWindow(k) <= Limit[k] /\ InWindow(k) <= cache[k].count /\ \A w \in Workers : Admitted(w, k)
          /\ InWindow(k) \in Nat /\ Limit[k] \in Nat /\ cache[k] \in [count : Nat, ttl : Nat]
      BY <1>0, <1>4, LimitsRead DEF LimitInv
    <2>2. InWindow(k)' <= cache'[k].count
      <3>1. CASE cache[k].ttl <= 1
        <4>1. cache'[k] = Gone
          BY <1>2, <3>1
        <4>2. \A a \in Ages(k) : recent'[k][a] = 0
          <5>1. cache'[k].ttl = 0 /\ Aged(k)'
            BY <1>3, <4>1 DEF Gone
          <5>2. \A a \in Ages(k) : a < Window[k] - 0
            BY LimitAssumption DEF Ages
          <5>3. QED
            BY <5>1, <5>2 DEF Aged
        <4>3. PICK r \in [Ages(k) -> Nat] : r = recent'[k]
          BY <1>2
        <4>4. Recents(r, k) = 0
          BY <4>2, <4>3, NoRecents
        <4>5. QED
          BY <4>1, <4>3, <4>4, WindowSum DEF Gone
      <3>2. CASE ~(cache[k].ttl <= 1)
        <4>1. cache'[k].count = cache[k].count
          BY <1>2, <2>1, <3>2
        <4>2. InWindow(k)' <= InWindow(k) /\ InWindow(k)' \in Nat
          BY <1>2
        <4>3. QED
          BY <2>1, <4>1, <4>2
      <3>3. QED
        BY <3>1, <3>2
    <2>3. ASSUME NEW w \in Workers, Weighing(w, k)' PROVE InWindow(k)' <= req'[w].n /\ req'[w].n < Limit[k]
      <3>1. InWindow(k) <= req[w].n /\ req[w].n < Limit[k]
        BY <2>1, <2>3 DEF Admitted, Weighing
      <3>2. QED
        <4>1. req'[w].n = req[w].n /\ req[w].n \in Nat
          BY <1>0
        <4>2. InWindow(k)' <= InWindow(k) /\ InWindow(k)' \in Nat
          BY <1>2
        <4>3. QED
          BY <2>1, <3>1, <4>1, <4>2
    <2>4. InWindow(k)' <= Limit[k]
      <3>1. InWindow(k)' <= InWindow(k) /\ InWindow(k)' \in Nat
        BY <1>2
      <3>2. QED
        BY <2>1, <3>1
    <2>5. QED
      BY <2>2, <2>3, <2>4 DEF Admitted
  <1>5. QED
    BY <1>3, <1>4 DEF LimitInv

LEMMA LimitStep == IInv /\ AloneInv /\ LimitInv /\ [Next]_vars => LimitInv'
  <1> SUFFICES ASSUME IInv, AloneInv, LimitInv, [Next]_vars PROVE LimitInv'
    OBVIOUS
  <1>1. ASSUME NEW w \in Workers, Step(w)
        PROVE  LimitInv'
    BY <1>1, LimitsGoOn, LimitsCounted
  <1>2. ASSUME NEW w \in Workers, Fail(w)
        PROVE  LimitInv'
    <2>1. req' = [req EXCEPT ![w] = Idle] /\ UNCHANGED <<limits, overlapped>>
      BY <1>2 DEF Fail, Answer
    <2>2. req'[w].pc = "idle" /\ \A v \in Workers \ {w} : req'[v] = req[v]
      BY <2>1, Reads DEF TypeOK, Idle
    <2>3. \A k \in Keys : Admitted(w, k)'
      BY <2>2 DEF Admitted, Weighing
    <2>4. QED
      BY <2>1, <2>2, <2>3, LimitsWait
  <1>3. CASE Tick
    <2>1. Elapse /\ UNCHANGED <<req, overlapped>>
      BY <1>3 DEF Tick, counted
    <2>2. QED
      BY <2>1, LimitsElapse
  <1>4. CASE UNCHANGED vars
    <2>1. UNCHANGED <<req, overlapped, limits>>
      BY <1>4 DEF vars, limits
    <2>2. \A k : InWindow(k)' = InWindow(k)
      BY <2>1, WindowSum DEF limits
    <2>3. QED
      BY <2>1, <2>2 DEF LimitInv, Aged, Admitted, Weighing, limits
  <1>5. QED
    BY <1>1, <1>2, <1>3, <1>4, LimitsArrive DEF Next

LEMMA LimitStart == Init => LimitInv
  <1> SUFFICES ASSUME Init PROVE LimitInv
    OBVIOUS
  <1>1. LimitTyped
    BY InitTyped DEF TypeOK
  <1>2. \A w \in Workers : \A k : ~Weighing(w, k)
    BY DEF Init, Idle, Weighing
  <1>3. ASSUME NEW k \in Keys PROVE Aged(k) /\ InWindow(k) <= Limit[k] /\ InWindow(k) <= cache[k].count
    <2>1. PICK z : z = [a \in Ages(k) |-> 0]
      OBVIOUS
    <2>2. z \in [Ages(k) -> Nat] /\ Recents(z, k) = 0
      BY <2>1, NoRecents
    <2>3. Limit[k] \in Nat /\ Window[k] \in Nat \ {0}
      BY LimitAssumption
    <2>4. CASE cache[k] = Gone /\ recent[k] = z
      <3>1. InWindow(k) = 0
        BY <2>2, <2>4, WindowSum
      <3>2. Aged(k)
        BY <2>1, <2>3, <2>4 DEF Aged, Gone
      <3>3. QED
        BY <2>3, <2>4, <3>1, <3>2 DEF Gone
    <2>5. CASE /\ Limit[k] # 0 /\ cache[k] = [count |-> 1, ttl |-> Window[k]]
               /\ recent[k] = [a \in Ages(k) |-> IF a = 0 THEN 1 ELSE 0]
      <3>1. 0 \in Ages(k)
        BY <2>3 DEF Ages
      <3>2. recent[k] = [z EXCEPT ![0] = @ + 1]
        BY <2>1, <2>5, <3>1
      <3>3. InWindow(k) = 1
        <4>1. PICK r1 : r1 = [z EXCEPT ![0] = @ + 1]
          OBVIOUS
        <4>2. Recents(r1, k) = Recents(z, k) + 1
          BY <2>2, <4>1, RecentsOneMore
        <4>3. QED
          BY <2>2, <3>2, <4>1, <4>2, WindowSum
      <3>4. Aged(k)
        <4>1. \A a \in Ages(k) : ~(a < Window[k] - Window[k])
          BY <2>3 DEF Ages
        <4>2. QED
          BY <2>3, <2>5, <4>1 DEF Aged
      <3>5. QED
        BY <2>3, <2>5, <3>3, <3>4
    <2>6. \/ cache[k] = Gone /\ recent[k] = z
          \/ /\ Limit[k] # 0 /\ cache[k] = [count |-> 1, ttl |-> Window[k]]
             /\ recent[k] = [a \in Ages(k) |-> IF a = 0 THEN 1 ELSE 0]
      <3>1. CASE LimitInit
        BY <2>1, <3>1 DEF LimitInit
      <3>2. CASE ~LimitInit
        <4>1. /\ cache[k] = (IF Limit[k] = 0 THEN Gone ELSE [count |-> 1, ttl |-> Window[k]])
              /\ recent[k] = [a \in Ages(k) |-> IF a = 0 /\ Limit[k] > 0 THEN 1 ELSE 0]
          BY <3>2 DEF Init
        <4>2. Limit[k] = 0 \/ Limit[k] > 0
          BY <2>3
        <4>3. QED
          BY <2>1, <2>3, <4>1, <4>2
      <3>3. QED
        BY <3>1, <3>2
    <2>7. QED
      BY <2>4, <2>5, <2>6
  <1>4. QED
    BY <1>2, <1>3 DEF LimitInv, Admitted

\* As long as requests have been served one by one: no more of them than Limit are
\* let through in any window, whatever the limit and the window, although what the
\* cache holds is a count with an expiry that every request renews.
THEOREM LimitsKept == Spec => []LimitKept
  <1>1. LimitInv => LimitKept
    BY DEF LimitInv, LimitKept
  <1>2. QED
    BY <1>1, LimitStart, LimitStep, Invariance, AloneInvariance, PTL DEF Spec
=============================================================================
