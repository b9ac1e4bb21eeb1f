------------------------------- MODULE RateLimit -------------------------------
(*****************************************************************************)
(* rate_limit of api/deps.py: the requests of one address within one scope,  *)
(* counted in one Redis key by INCR, and EXPIRE on the first count.          *)
(*****************************************************************************)
EXTENDS Naturals

CONSTANTS
    Client,   \* requests in flight from the address; each is made again and again
    Limit,    \* auth_rate_limit_per_minute
    Ticks     \* the time to live of the key, in ticks of the clock

ASSUME RateAssumption == Limit \in Nat \ {0} /\ Ticks \in Nat \ {0}

VARIABLES
    hits,     \* the counter, saturated above Limit; 0 without the key
    ttl,      \* what is left of the key's time to live, Ticks + 1 when it has none
    doing,    \* each client: "idle", or "expire" when its EXPIRE is due
    refused,  \* the last answer was 429
    cut       \* history: a first count was not followed by its EXPIRE

rateVars == <<hits, ttl, doing, refused, cut>>

Never == Ticks + 1

RateInit ==
    /\ hits = 0 /\ ttl = Never
    /\ doing = [c \in Client |-> "idle"]
    /\ refused = FALSE /\ cut = FALSE

Counted == IF hits > Limit THEN hits ELSE hits + 1

\* Mutant of Hit: EXPIRE on every count.
HitAlwaysExpires(c) ==
    /\ doing[c] = "idle"
    /\ hits' = Counted
    /\ doing' = [doing EXCEPT ![c] = "expire"]
    /\ refused' = (Counted > Limit)
    /\ UNCHANGED <<ttl, cut>>

Hit(c) ==
    /\ doing[c] = "idle"
    /\ hits' = Counted
    /\ doing' = [doing EXCEPT ![c] = IF hits = 0 THEN "expire" ELSE "idle"]
    /\ refused' = (Counted > Limit)
    /\ UNCHANGED <<ttl, cut>>

SetTtl(c) ==
    /\ doing[c] = "expire"
    /\ ttl' = Ticks
    /\ doing' = [doing EXCEPT ![c] = "idle"]
    /\ UNCHANGED <<hits, refused, cut>>

\* RedisError, or the process stops: 503.  INCR may have counted all the same.
HitFails(c) ==
    /\ doing[c] = "idle"
    /\ hits' = Counted
    /\ cut' = (cut \/ hits = 0)
    /\ UNCHANGED <<ttl, doing, refused>>

SetTtlFails(c) ==
    /\ doing[c] = "expire"
    /\ doing' = [doing EXCEPT ![c] = "idle"]
    /\ cut' = TRUE
    /\ UNCHANGED <<hits, ttl, refused>>

Tick ==
    /\ ttl # Never
    /\ IF ttl > 1 THEN ttl' = ttl - 1 /\ UNCHANGED <<hits, refused>>
       ELSE hits' = 0 /\ ttl' = Never /\ refused' = FALSE
    /\ UNCHANGED <<doing, cut>>

RateNext == Tick \/ \E c \in Client : Hit(c) \/ SetTtl(c) \/ HitFails(c) \/ SetTtlFails(c)

-------------------------------------------------------------------------------
(* Properties *)

\* "Too many attempts. Try again in a minute." (deps.py:567): a lockout ends
\* however often the address tries meanwhile, unless the EXPIRE of the first
\* count got lost, which leaves a key that never expires.
LockoutEnds == refused ~> (~refused \/ cut)
===============================================================================
