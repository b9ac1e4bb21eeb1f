---------------------------- MODULE SourceThrottle ----------------------------
(*****************************************************************************)
(* make_source_throttle: connectors of several workers share one budget of   *)
(* calls per source and minute, a Redis counter per window of the clock.     *)
(* INCR, EXPIRE and the reading of the clock are separate steps.  Each caller*)
(* makes one call upstream, or is stopped on its way.                        *)
(*****************************************************************************)
EXTENDS Naturals, FiniteSets

CONSTANTS
    Caller,     \* throttled calls
    PerMinute,  \* per_minute; with None there is no throttle
    Drift       \* bound: ticks of the clock while no caller sleeps

ASSUME ThrottleAssumption ==
    /\ IsFiniteSet(Caller)
    /\ PerMinute \in Nat \ {0}
    /\ Drift \in Nat

\* A caller that sleeps has used a window up with others: there are never more.
Window == 0 .. (Cardinality(Caller) + Drift)

VARIABLES
    now,     \* the window the clock is in
    drift,   \* ticks made while nobody slept
    count,   \* source_throttle:<source>:<window>, 0 without the key;
             \* saturated above PerMinute
    timed,   \* windows whose key has a time to live
    at,      \* what each caller does next
    seen,    \* the window each caller computed last
    wentIn   \* history: the window each caller went upstream in, or NotYet

throttleVars == <<now, drift, count, timed, at, seen, wentIn>>

\* No window.
NotYet == Cardinality(Caller) + Drift + 1

ThrottleInit ==
    /\ now = 0 /\ drift = 0
    /\ count = [w \in Window |-> 0]
    /\ timed = {}
    /\ at = [c \in Caller |-> "clock"]
    /\ seen = [c \in Caller |-> 0]
    /\ wentIn = [c \in Caller |-> NotYet]

Goto(c, place) == at' = [at EXCEPT ![c] = place]

\* Each worker reads its own clock, in whole minutes (throttle.py:33); that the
\* clocks agree is a bound of the model: one now is read by all.
ReadClock(c) ==
    /\ at[c] = "clock"
    /\ seen' = [seen EXCEPT ![c] = now]
    /\ Goto(c, "incr")
    /\ UNCHANGED <<now, drift, count, timed, wentIn>>

Incr(c) ==
    /\ at[c] = "incr"
    /\ count' = [count EXCEPT ![seen[c]] = IF @ > PerMinute THEN @ ELSE @ + 1]
    /\ Goto(c, IF count[seen[c]] = 0 THEN "expire"
               ELSE IF count[seen[c]] < PerMinute THEN "go" ELSE "sleep")
    /\ UNCHANGED <<now, drift, timed, seen, wentIn>>

\* On the first count of a window, which is within every budget.
Expire(c) ==
    /\ at[c] = "expire"
    /\ timed' = timed \union {seen[c]}
    /\ Goto(c, "go")
    /\ UNCHANGED <<now, drift, count, seen, wentIn>>

GoUpstream(c) ==
    /\ at[c] = "go"
    /\ wentIn' = [wentIn EXCEPT ![c] = now]
    /\ Goto(c, "gone")
    /\ UNCHANGED <<now, drift, count, timed, seen>>

\* Mutant of Wake: the window is computed once, before the loop.
WakeInTheOldWindow(c) ==
    /\ at[c] = "sleep" /\ now > seen[c]
    /\ Goto(c, "incr")
    /\ UNCHANGED <<now, drift, count, timed, seen, wentIn>>

\* The sleep lasts to the end of the window that was read, or longer.
Wake(c) ==
    /\ at[c] = "sleep" /\ now > seen[c]
    /\ Goto(c, "clock")
    /\ UNCHANGED <<now, drift, count, timed, seen, wentIn>>

\* The task is cancelled or its worker stops, or Redis fails it.
StopCaller(c) ==
    /\ at[c] \notin {"gone", "stopped"}
    /\ Goto(c, "stopped")
    /\ UNCHANGED <<now, drift, count, timed, seen, wentIn>>

\* Mutant of ExpireKey: a key that lives shorter than its window.
ExpireKeyEarly(w) ==
    /\ w \in timed
    /\ count' = [count EXCEPT ![w] = 0]
    /\ timed' = timed \ {w}
    /\ UNCHANGED <<now, drift, at, seen, wentIn>>

\* Redis drops a key 90 seconds after its first count: the window is over, but
\* a caller that was slow may still count in it.
ExpireKey(w) ==
    /\ w \in timed /\ w < now
    /\ count' = [count EXCEPT ![w] = 0]
    /\ timed' = timed \ {w}
    /\ UNCHANGED <<now, drift, at, seen, wentIn>>

TickForSleeper ==
    /\ \E c \in Caller : at[c] = "sleep" /\ seen[c] = now
    /\ now + 1 \in Window
    /\ now' = now + 1
    /\ UNCHANGED <<drift, count, timed, at, seen, wentIn>>

TickAnyway ==
    /\ drift < Drift /\ now + 1 \in Window
    /\ now' = now + 1
    /\ drift' = drift + 1
    /\ UNCHANGED <<count, timed, at, seen, wentIn>>

CallerStep(c) == ReadClock(c) \/ Incr(c) \/ Expire(c) \/ GoUpstream(c) \/ Wake(c)

ThrottleNext ==
    \/ \E c \in Caller : CallerStep(c) \/ StopCaller(c)
    \/ \E w \in Window : ExpireKey(w)
    \/ TickForSleeper \/ TickAnyway

-------------------------------------------------------------------------------
(* Properties *)

\* "multiple workers share one budget" (throttle.py:3-4): of the calls that go
\* out in the window they were counted in, no window has more than PerMinute,
\* whoever is stopped between INCR and EXPIRE and however keys expire.
WithinBudget ==
    \A w \in Window :
        Cardinality({c \in Caller : wentIn[c] = w /\ seen[c] = w}) <= PerMinute

\* The throttle "WAITS for the next window instead of raising" (throttle.py:2):
\* a call that is not stopped goes out in the end.
CallersGo == \A c \in Caller : at[c] = "sleep" ~> at[c] \in {"gone", "stopped"}
===============================================================================
