------------------------------ MODULE Accounts -------------------------------
(***************************************************************************)
(* Signing up, logging in with a one-time code, resetting the password and *)
(* registering a device: the requests of one client address about one      *)
(* phone and one e-mail address, behind the request limit.                 *)
(***************************************************************************)
EXTENDS Otp

CONSTANTS
    Roles,          \* the roles accounts are made with
    Devices,        \* push tokens
    None,           \* no account, no token
    MaxRequests,    \* bound of the model: requests that are let through, but for those
                    \* that are refused a code: of these a client may send any number
    MaxFaults       \* bound of the model: requests cut short

Views == {"signup", "register", "login", "reset", "verify", "confirm", "device"}
PCs   == {"idle", "countRequest", "findUser", "checkUser", "insertUser", "insertProfile",
          "insertStore", "send", "consumeOld", "insert", "countCode", "newest", "readChallenge",
          "saveAttempts", "lock", "consume", "readUser", "saveUser", "saveDevice"}
Contacts == {"phone", "mail"}

VARIABLES
    user,           \* the account of the phone, and the one of the e-mail address
    profile,        \* which of them have a vendor or partner profile
    store,          \* which of them have a store
    registered,     \* history: the device registered last
    overlapped,     \* history: two requests have been served at the same time
    requests, faults

vars == <<cache, recent, challenge, req, accepted, guessed, user, profile, store,
          registered, overlapped, requests, faults>>

ASSUME AccountsAssumption ==
    /\ Roles \subseteq {"user", "vendor", "delivery_partner"} /\ "vendor" \in Roles
    /\ None \notin {"user", "vendor", "delivery_partner"}
    /\ MaxRequests \in Nat /\ MaxFaults \in Nat

\* password: the challenge whose code it was set with, 0 for the first one.
User   == [role : Roles \cup {None}, password : Nat, device : Devices \cup {None}]
NoUser == [role |-> None, password |-> 0, device |-> None]

Idle == [pc |-> "idle", view |-> "login", purpose |-> "login", guess |-> 0, n |-> 0, row |-> 0,
         copy |-> NoUser]
Request == [pc : PCs, view : Views, purpose : Purposes, guess : Nat, n : Nat, row : Nat, copy : User]

TypeOK ==
    /\ LimitTyped
    /\ challenge \in Seq(Challenge)
    /\ req \in [Workers -> Request]
    /\ accepted \in Seq(Nat) /\ Len(accepted) = Len(challenge)
    /\ guessed \in Seq(Nat) /\ Len(guessed) = Len(challenge)
    /\ user \in [Contacts -> User]
    /\ profile \subseteq Contacts /\ store \subseteq Contacts
    /\ registered \in Devices \cup {None}
    /\ overlapped \in BOOLEAN
    /\ requests \in 0 .. MaxRequests /\ faults \in 0 .. MaxFaults

\* A phone that nobody has signed up with, or one that has just been sent a code
\* to log in with.
Init ==
    /\ req = [w \in Workers |-> Idle]
    /\ registered = None
    /\ overlapped = FALSE
    /\ requests = 0 /\ faults = 0
    /\ \/ /\ LimitInit
          /\ challenge = <<>> /\ accepted = <<>> /\ guessed = <<>>
          /\ user = [k \in Contacts |-> NoUser]
          /\ profile = {} /\ store = {}
       \/ /\ cache = [k \in Keys |-> IF Limit[k] = 0 THEN Gone ELSE [count |-> 1, ttl |-> Window[k]]]
          /\ recent = [k \in Keys |-> [a \in Ages(k) |-> IF a = 0 /\ Limit[k] > 0 THEN 1 ELSE 0]]
          /\ challenge = <<[purpose |-> "login", left |-> Lifetime, attempts |-> 0, consumed |-> FALSE]>>
          /\ accepted = <<0>> /\ guessed = <<0>>
          /\ user = [k \in Contacts |-> IF k = "phone" THEN [NoUser EXCEPT !.role = "vendor"] ELSE NoUser]
          /\ profile = {"phone"} /\ store = {"phone"}

Quiet  == \A w \in Workers : req[w].pc = "idle"
Has(k) == user[k].role # None
Key(w) == IF req[w].view = "register" THEN "mail" ELSE "phone"

tables  == <<user, profile, store, registered>>
counted == <<overlapped, requests, faults>>
limits  == <<cache, recent>>
codes   == <<challenge, accepted, guessed>>

Answer(w) == req' = [req EXCEPT ![w] = Idle]

-----------------------------------------------------------------------------
(* The middleware                                                          *)

\* What may be asked; only somebody with an account registers a device.
Asked(view) ==
    CASE view \in {"signup", "register"} -> {[Idle EXCEPT !.copy.role = r] : r \in Roles}
      [] view = "device" -> IF Has("phone") THEN {[Idle EXCEPT !.copy.device = d] : d \in Devices}
                            ELSE {}
      [] view \in {"verify", "confirm"} -> {[Idle EXCEPT !.guess = i] : i \in {0} \cup DOMAIN challenge}
      [] OTHER -> {Idle}

Purpose(view) == CASE view = "signup" -> "signup"
                   [] view \in {"reset", "confirm"} -> "reset_password"
                   [] OTHER -> "login"

\* The first statement of each view.
First(view) == CASE view \in {"signup", "register"} -> "checkUser"
                 [] view \in {"login", "reset"} -> "findUser"
                 [] view = "verify" -> "newest"
                 [] view = "confirm" -> "readChallenge"
                 [] OTHER -> "saveDevice"

\* A request arrives and its address's count is read.  (A refused request
\* changes nothing.)
Arrive(w) ==
    /\ req[w].pc = "idle"
    /\ requests < MaxRequests
    /\ Limit["api"] = 0 \/ ~Refused("api")
    /\ \E view \in Views : \E r \in Asked(view) :
          req' = [req EXCEPT ![w] =
                    [r EXCEPT !.view = view, !.purpose = Purpose(view), !.n = Seen("api"),
                              !.pc = IF Limit["api"] = 0 THEN First(view) ELSE "countRequest"]]
    /\ requests' = requests + 1
    /\ overlapped' = (overlapped \/ \E v \in Workers \ {w} : req[v].pc # "idle")
    /\ UNCHANGED <<limits, codes, tables, faults>>

CountRequest(w) ==
    /\ req[w].pc = "countRequest"
    /\ Count("api", req[w].n)
    /\ req' = [req EXCEPT ![w].pc = First(req[w].view), ![w].n = 0]
    /\ UNCHANGED <<codes, tables, counted>>

-----------------------------------------------------------------------------
(* SignupSerializer and EmailRegisterSerializer                            *)

CheckUser(w) ==
    /\ req[w].pc = "checkUser"
    /\ IF Has(Key(w)) THEN Answer(w) ELSE Goto(w, "insertUser")
    /\ UNCHANGED <<limits, codes, tables, counted>>

\* A registration ends with tokens, a signup goes on to send a code.
Registered(w) == IF req[w].view = "register" THEN Answer(w) ELSE Goto(w, "send")

\* create_user: phone and e-mail are unique, a second insert is refused.
InsertUser(w) ==
    /\ req[w].pc = "insertUser"
    /\ IF Has(Key(w)) THEN Answer(w) /\ UNCHANGED user
       ELSE /\ user' = [user EXCEPT ![Key(w)] = req[w].copy]
            /\ IF req[w].copy.role = "user" THEN Registered(w) ELSE Goto(w, "insertProfile")
    /\ UNCHANGED <<limits, codes, profile, store, registered, counted>>

InsertProfile(w) ==
    /\ req[w].pc = "insertProfile"
    /\ profile' = profile \cup {Key(w)}
    /\ IF req[w].copy.role = "vendor" THEN Goto(w, "insertStore") ELSE Registered(w)
    /\ UNCHANGED <<limits, codes, user, store, registered, counted>>

InsertStore(w) ==
    /\ req[w].pc = "insertStore"
    /\ store' = store \cup {Key(w)}
    /\ Registered(w)
    /\ UNCHANGED <<limits, codes, user, profile, registered, counted>>

-----------------------------------------------------------------------------
(* The other views                                                         *)

\* Faulty variant: a code is sent to any phone.
FindAny(w) ==
    /\ req[w].pc = "findUser"
    /\ Goto(w, "send")
    /\ UNCHANGED <<limits, codes, tables, counted>>

\* LoginView, PasswordResetRequestView: a code is sent to known phones only.
FindUser(w) ==
    /\ req[w].pc = "findUser"
    /\ IF Has("phone") THEN Goto(w, "send") ELSE Answer(w)
    /\ UNCHANGED <<limits, codes, tables, counted>>

\* VerifyOtpView: the newest open challenge says which purpose is verified.
ReadNewest(w) ==
    /\ req[w].pc = "newest"
    /\ IF Open(Purposes) = {} THEN Answer(w)
       ELSE req' = [req EXCEPT ![w].pc = "readChallenge",
                               ![w].purpose = challenge[Max(Open(Purposes))].purpose]
    /\ UNCHANGED <<limits, codes, tables, counted>>

\* Faulty variant: the account is written anew.
ReadUserBlank(w) ==
    /\ req[w].pc = "readUser"
    /\ req' = [req EXCEPT ![w].pc = "saveUser",
                          ![w].copy = [NoUser EXCEPT !.role = user["phone"].role, !.password = req[w].row]]
    /\ UNCHANGED <<limits, codes, tables, counted>>

\* PasswordResetConfirmView: the account is read, and every column of it saved.
ReadUser(w) ==
    /\ req[w].pc = "readUser"
    /\ req' = [req EXCEPT ![w].pc = "saveUser",
                          ![w].copy = [user["phone"] EXCEPT !.password = req[w].row]]
    /\ UNCHANGED <<limits, codes, tables, counted>>

SaveUser(w) ==
    /\ req[w].pc = "saveUser"
    /\ user' = [user EXCEPT !["phone"] = req[w].copy]
    /\ Answer(w)
    /\ UNCHANGED <<limits, codes, profile, store, registered, counted>>

\* RegisterDeviceView: only the device's columns are saved.
SaveDevice(w) ==
    /\ req[w].pc = "saveDevice"
    /\ user' = [user EXCEPT !["phone"].device = req[w].copy.device]
    /\ registered' = req[w].copy.device
    /\ Answer(w)
    /\ UNCHANGED <<limits, codes, profile, store, counted>>

-----------------------------------------------------------------------------
\* The first statement of send_otp.  A request that it refuses uses up nothing of
\* the bound MaxRequests.
AskCode(w) ==
    /\ ReadCount(w, Idle)
    /\ requests' = IF Refused("otp") /\ requests > 0 THEN requests - 1 ELSE requests
    /\ UNCHANGED <<tables, overlapped, faults>>

\* The next statement of send_otp or verify_otp.
OtpStep(w) ==
    /\ \/ ConsumeOld(w) \/ InsertChallenge(w) \/ CountCode(w, Idle)
       \/ ReadChallenge(w, Idle) \/ SaveAttempts(w, Idle) \/ Lock(w, Idle)
       \/ Consume(w, IF req[w].view = "confirm" THEN [req[w] EXCEPT !.pc = "readUser"] ELSE Idle)
    /\ UNCHANGED <<tables, counted>>

Step(w) ==
    \/ CountRequest(w)
    \/ CheckUser(w) \/ InsertUser(w) \/ InsertProfile(w) \/ InsertStore(w)
    \/ FindUser(w) \/ ReadNewest(w) \/ ReadUser(w) \/ SaveUser(w) \/ SaveDevice(w)
    \/ AskCode(w) \/ OtpStep(w)

\* A request is cut short; nothing of it is undone.
Fail(w) ==
    /\ req[w].pc # "idle"
    /\ faults < MaxFaults
    /\ faults' = faults + 1
    /\ Answer(w)
    /\ UNCHANGED <<limits, codes, tables, overlapped, requests>>

\* A tick of the clock: counters and challenges come nearer their end.
Tick ==
    /\ Elapse
    /\ challenge' = [i \in DOMAIN challenge |->
                       [challenge[i] EXCEPT !.left = IF @ = 0 THEN 0 ELSE @ - 1]]
    /\ UNCHANGED <<req, accepted, guessed, tables, counted>>

Next == Tick \/ \E w \in Workers : Arrive(w) \/ Step(w) \/ Fail(w)

Spec == Init /\ [][Next]_vars

\* Time goes by; no request has to come, and none to be answered.
FairSpec == Spec /\ WF_vars(Tick)

-----------------------------------------------------------------------------
(* Whatever overlaps and is cut short.                                     *)

\* Of each purpose there are never more open challenges than requests at a time,
\* those about to be inserted included: consuming the old ones and inserting the
\* new one are two statements.  One by one, a new code invalidates the old.
Sending(p)  == {w \in Workers : req[w].pc = "insert" /\ req[w].purpose = p}
OpenBounded ==
    \A p \in Purposes : Cardinality(Open({p})) + Cardinality(Sending(p)) <= Cardinality(Workers)

\* A code opens the door once per request that can run at a time: the challenge
\* is read as open in one statement and consumed in a later one.
Holding(i) == {w \in Workers : req[w].row = i /\ req[w].pc \in {"saveAttempts", "consume"}}
CodeUsesBounded ==
    \A i \in DOMAIN challenge : accepted[i] + Cardinality(Holding(i)) <= Cardinality(Workers)

\* The password is the first one, or came with the code of a reset challenge that
\* was passed: VerifyOtpView looks the challenge up twice and may be told another
\* purpose than the client had in mind, but never opens this door.
PasswordByReset ==
    LET i == user["phone"].password IN
    i # 0 => i \in DOMAIN challenge /\ challenge[i].purpose = "reset_password" /\ accepted[i] > 0

\* Codes are sent to phones that have an account only, a store has a profile and a
\* profile an account, in whatever order two signups write them; and when none is
\* cut short, every vendor ends up with a store and every partner with a profile.
AccountsWhole ==
    /\ challenge # <<>> => Has("phone")
    /\ store \subseteq profile
    /\ \A k \in profile : Has(k)
    /\ Quiet /\ faults = 0 =>
          \A k \in Contacts : /\ user[k].role = "vendor" => k \in store
                           /\ user[k].role = "delivery_partner" => k \in profile

\* A phone that is refused another code is not refused for ever, even if it goes
\* on asking for ever: a refusal does not renew the expiry of the count, and of
\* the requests that had passed the limit before, each renews it once at most.
LockoutEnds == Refused("otp") ~> ~Refused("otp")

-----------------------------------------------------------------------------
(* As long as requests have been served one by one.                        *)

\* A challenge is compared with MaxAttempts codes at most, right or wrong, before
\* and after it is consumed, and opens the door once.
GuessesBounded ==
    ~overlapped => \A i \in DOMAIN challenge : guessed[i] <= MaxAttempts /\ accepted[i] <= 1

\* No more than Limit are let through in any window, although every request
\* restarts the window of the counter.
LimitKept == ~overlapped => \A k \in Keys : InWindow(k) <= Limit[k]

\* A password reset leaves the device alone.
DeviceKept == ~overlapped => user["phone"].device = registered

-----------------------------------------------------------------------------
(* What a setting says of the program, and it does not do.                 *)

\* API_RATE_LIMIT_PER_MINUTE: whoever is refused has made that many requests
\* within the last minute.
SteadyServed == Refused("api") => InWindow("api") >= Limit["api"]
=============================================================================
