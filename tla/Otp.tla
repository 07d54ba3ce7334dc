--------------------------------- MODULE Otp ---------------------------------
(***************************************************************************)
(* One-time codes of one phone: send_otp and verify_otp, statement by      *)
(* statement.  No statement runs in a transaction with another.            *)
(*                                                                         *)
(* Code i is the code of the i-th challenge, 0 is a wrong code.            *)
(***************************************************************************)
EXTENDS RateLimit, Sequences

CONSTANTS
    Workers,        \* requests that can be served at the same time
    MaxAttempts,    \* how many guesses verify_otp allows: 5
    Lifetime        \* OTP_EXPIRY_SECONDS, in ticks

Purposes == {"login", "signup", "reset_password"}

VARIABLES
    challenge,      \* the phone's rows of otp_challenges, oldest first
    req,            \* the request each worker serves
    accepted,       \* history: how often each challenge has been passed
    guessed         \* history: how many codes were compared with each challenge

ASSUME OtpAssumption ==
    IsFiniteSet(Workers) /\ Workers # {} /\ MaxAttempts \in Nat /\ Lifetime \in Nat

\* left: the ticks until expires_at.
Challenge == [purpose : Purposes, left : Nat, attempts : Nat, consumed : BOOLEAN]

Goto(w, pc) == req' = [req EXCEPT ![w].pc = pc]

Open(purposes) ==
    {i \in DOMAIN challenge : ~challenge[i].consumed /\ challenge[i].purpose \in purposes}

-----------------------------------------------------------------------------
(* send_otp                                                                *)

\* Faulty variant: a refusal renews the expiry of the count.
ReadCountRenew(w, done) ==
    /\ req[w].pc = "send"
    /\ IF Refused("otp")
       THEN req' = [req EXCEPT ![w] = done] /\ cache' = [cache EXCEPT !["otp"].ttl = Window["otp"]]
       ELSE req' = [req EXCEPT ![w].pc = "consumeOld", ![w].n = Seen("otp")] /\ UNCHANGED cache
    /\ UNCHANGED <<challenge, accepted, guessed, recent>>

\* The count for this phone is read; too many codes are refused.
ReadCount(w, done) ==
    /\ req[w].pc = "send"
    /\ IF Refused("otp") THEN req' = [req EXCEPT ![w] = done]
       ELSE req' = [req EXCEPT ![w].pc = "consumeOld", ![w].n = Seen("otp")]
    /\ UNCHANGED <<challenge, accepted, guessed, cache, recent>>

\* Faulty variant: earlier challenges stay open.
ConsumeNothing(w) ==
    /\ req[w].pc = "consumeOld"
    /\ Goto(w, "insert")
    /\ UNCHANGED <<challenge, accepted, guessed, cache, recent>>

\* Earlier challenges of the purpose are consumed.
ConsumeOld(w) ==
    /\ req[w].pc = "consumeOld"
    /\ challenge' = [i \in DOMAIN challenge |->
                       IF i \in Open({req[w].purpose}) THEN [challenge[i] EXCEPT !.consumed = TRUE]
                       ELSE challenge[i]]
    /\ Goto(w, "insert")
    /\ UNCHANGED <<accepted, guessed, cache, recent>>

InsertChallenge(w) ==
    /\ req[w].pc = "insert"
    /\ challenge' = Append(challenge, [purpose |-> req[w].purpose, left |-> Lifetime,
                                       attempts |-> 0, consumed |-> FALSE])
    /\ accepted' = Append(accepted, 0)
    /\ guessed' = Append(guessed, 0)
    /\ Goto(w, "countCode")
    /\ UNCHANGED <<cache, recent>>

\* The code is counted, and sent: whether it arrives is not known here, and a
\* guess may be any code.
CountCode(w, done) ==
    /\ req[w].pc = "countCode"
    /\ Count("otp", req[w].n)
    /\ req' = [req EXCEPT ![w] = done]
    /\ UNCHANGED <<challenge, accepted, guessed>>

-----------------------------------------------------------------------------
(* verify_otp                                                              *)

\* Faulty variant: a challenge of any purpose will do.
ReadAnyChallenge(w, done) ==
    LET i == Max(Open(Purposes)) IN
    /\ req[w].pc = "readChallenge"
    /\ IF Open(Purposes) = {} THEN req' = [req EXCEPT ![w] = done]
       ELSE req' = [req EXCEPT ![w].pc = "saveAttempts", ![w].row = i,
                               ![w].n = challenge[i].attempts + 1]
    /\ UNCHANGED <<challenge, accepted, guessed, cache, recent>>

\* The newest open challenge of the purpose, unless it has expired; one more
\* attempt is counted on the copy.
ReadChallenge(w, done) ==
    LET open == Open({req[w].purpose})
        i    == Max(open)
    IN
    /\ req[w].pc = "readChallenge"
    /\ IF open = {} \/ challenge[i].left = 0 THEN req' = [req EXCEPT ![w] = done]
       ELSE req' = [req EXCEPT ![w].pc = "saveAttempts", ![w].row = i,
                               ![w].n = challenge[i].attempts + 1]
    /\ UNCHANGED <<challenge, accepted, guessed, cache, recent>>

\* Faulty variant: the limit is off by one.
SaveOneMore(w, done) ==
    LET i == req[w].row IN
    /\ req[w].pc = "saveAttempts"
    /\ challenge' = [challenge EXCEPT ![i].attempts = req[w].n]
    /\ IF req[w].n > MaxAttempts + 1
       THEN Goto(w, "lock") /\ UNCHANGED guessed
       ELSE /\ guessed' = [guessed EXCEPT ![i] = @ + 1]
            /\ IF req[w].guess = i THEN Goto(w, "consume")
               ELSE req' = [req EXCEPT ![w] = done]
    /\ UNCHANGED <<accepted, cache, recent>>

\* The attempts are saved; then the code is judged.
SaveAttempts(w, done) ==
    LET i == req[w].row IN
    /\ req[w].pc = "saveAttempts"
    /\ challenge' = [challenge EXCEPT ![i].attempts = req[w].n]
    /\ IF req[w].n > MaxAttempts
       THEN Goto(w, "lock") /\ UNCHANGED guessed
       ELSE /\ guessed' = [guessed EXCEPT ![i] = @ + 1]
            /\ IF req[w].guess = i THEN Goto(w, "consume")
               ELSE req' = [req EXCEPT ![w] = done]
    /\ UNCHANGED <<accepted, cache, recent>>

\* Too many attempts: the challenge is consumed, the code refused.
Lock(w, done) ==
    /\ req[w].pc = "lock"
    /\ challenge' = [challenge EXCEPT ![req[w].row].consumed = TRUE]
    /\ req' = [req EXCEPT ![w] = done]
    /\ UNCHANGED <<accepted, guessed, cache, recent>>

\* Faulty variant: the challenge stays open.
ConsumeUnsaved(w, next) ==
    /\ req[w].pc = "consume"
    /\ accepted' = [accepted EXCEPT ![req[w].row] = @ + 1]
    /\ req' = [req EXCEPT ![w] = next]
    /\ UNCHANGED <<challenge, guessed, cache, recent>>

\* The code is right: the challenge is consumed, and the request goes on.
Consume(w, next) ==
    /\ req[w].pc = "consume"
    /\ challenge' = [challenge EXCEPT ![req[w].row].consumed = TRUE]
    /\ accepted' = [accepted EXCEPT ![req[w].row] = @ + 1]
    /\ req' = [req EXCEPT ![w] = next]
    /\ UNCHANGED <<guessed, cache, recent>>
=============================================================================
