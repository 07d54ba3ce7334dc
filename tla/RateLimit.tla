------------------------------ MODULE RateLimit ------------------------------
(***************************************************************************)
(* The two request limits: ApiRateLimitMiddleware counts the requests of an*)
(* address, send_otp those for a phone.  Both read a counter in the cache, *)
(* compare it, and write it back later with a new expiry.                  *)
(***************************************************************************)
EXTENDS Integers, FiniteSets, FiniteSetsExt

CONSTANTS
    Limit,      \* what is admitted, per counter; an "api" limit of 0 is none
    Window      \* after how many ticks of the clock a counter expires

Keys == {"api", "otp"}

VARIABLES
    cache,      \* the counters, with the ticks they have left
    recent      \* history: how many requests each limit let through, by age

ASSUME LimitAssumption ==
    /\ Limit \in [Keys -> Nat]
    /\ Window \in [Keys -> Nat \ {0}]

Ages(k) == 0 .. Window[k] - 1
Gone    == [count |-> 0, ttl |-> 0]

LimitTyped ==
    /\ cache \in [Keys -> [count : Nat, ttl : Nat]]
    /\ DOMAIN recent = Keys
    /\ \A k \in Keys : recent[k] \in [Ages(k) -> Nat]

LimitInit ==
    /\ cache = [k \in Keys |-> Gone]
    /\ recent = [k \in Keys |-> [a \in Ages(k) |-> 0]]

\* cache.get: the count, 0 when it has expired.
Seen(k) == cache[k].count

\* Faulty variant: the limit is off by one.
RefusedAbove(k) == Seen(k) > Limit[k]

Refused(k) == Seen(k) >= Limit[k]

\* cache.set: one more than the count that was READ, to expire a window from now.
Count(k, n) ==
    /\ cache' = [cache EXCEPT ![k] = [count |-> n + 1, ttl |-> Window[k]]]
    /\ recent' = [recent EXCEPT ![k][0] = @ + 1]

\* Time passes.
Elapse ==
    /\ cache' = [k \in Keys |-> IF cache[k].ttl <= 1 THEN Gone
                                ELSE [cache[k] EXCEPT !.ttl = @ - 1]]
    /\ recent' = [k \in Keys |-> [a \in Ages(k) |-> IF a = 0 THEN 0 ELSE recent[k][a - 1]]]

\* What was let through within a window of now.
InWindow(k) == LET at(a) == recent[k][a] IN MapThenSumSet(at, Ages(k))
=============================================================================
