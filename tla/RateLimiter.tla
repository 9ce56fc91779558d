----------------------------- MODULE RateLimiter -----------------------------
(***************************************************************************)
(* The fixed-window rate limiter in front of the API: one bucket, in Redis *)
(* (three calls per request, any of which may time out) or in the memory   *)
(* of the process, and the middleware that decides by it.                  *)
(***************************************************************************)
EXTENDS Integers, FiniteSets, FiniteSetsExt

CONSTANTS
    Hits,           \* requests that pass the middleware side by side
    Limit,          \* rate_limit_requests_per_window
    WindowSeconds,  \* rate_limit_window_seconds
    TicksPerSecond, \* resolution of the clock
    FailClosed      \* what the middleware does without its store

ASSUME LimiterAssumption ==
    /\ Limit \in Nat \ {0}
    /\ WindowSeconds \in Nat \ {0}
    /\ TicksPerSecond \in Nat \ {0}
    /\ FailClosed \in BOOLEAN

Window == WindowSeconds * TicksPerSecond
Forever == -1 \* the TTL of a key without expiry

VARIABLES
    backend, \* the store that build_rate_limit_store chose
    count,   \* the counter of the bucket; no more than Limit + 1 is told apart
    left,    \* ticks until the counter is reset
    hits,    \* what each request has read of it
    recent,  \* requests admitted by the count, by their age in ticks
    told,    \* the last refusal: its Retry-After, and the time that was left
    cut      \* a hit failed between INCR and EXPIRE

limiterVars == <<backend, count, left, hits, recent, told, cut>>

HitPc == {"idle", "expiring", "reading"}

LimiterTypeOK ==
    /\ backend \in {"redis", "memory"}
    /\ count \in 0..(Limit + 1)
    /\ left \in {Forever} \union 0..Window
    /\ hits \in [Hits -> [pc: HitPc, current: 0..(Limit + 1)]]
    /\ recent \in [0..(Window - 1) -> Nat]
    /\ told \in [after: Nat, left: {Forever} \union 0..Window]
    /\ cut \in BOOLEAN

LimiterInit ==
    /\ backend \in {"redis", "memory"}
    /\ count = 0
    /\ left = Forever
    /\ hits = [h \in Hits |-> [pc |-> "idle", current |-> 0]]
    /\ recent = [age \in 0..(Window - 1) |-> 0]
    /\ told = [after |-> 1, left |-> 1]
    /\ cut = FALSE

AtLeastOne(n) == IF n < 1 THEN 1 ELSE n
Counted(n) == IF n > Limit THEN Limit + 1 ELSE n + 1

\* The middleware lets the request through if the count allows it.
Admit(current) ==
    recent' = IF current <= Limit THEN [recent EXCEPT ![0] = @ + 1] ELSE recent

\* The answer to a request that is refused.
Refuse(current, after) ==
    told' = IF current > Limit THEN [after |-> after, left |-> left] ELSE told
-----------------------------------------------------------------------------
(* RedisRateLimitStore.hit *)

\* INCR; the first one of a window is followed by EXPIRE.
Increment(h) ==
    /\ backend = "redis"
    /\ hits[h].pc = "idle"
    /\ count' = Counted(count)
    /\ Admit(count')
    /\ hits' = [hits EXCEPT ![h] = [pc |-> IF count' = 1 THEN "expiring" ELSE "reading",
                                    current |-> count']]
    /\ UNCHANGED <<backend, left, told, cut>>

\* Mutant of ReadTtl: every hit renews the window before it reads what is left.
RenewAndReadTtl(h) ==
    /\ hits[h].pc = "reading"
    /\ left' = Window
    /\ hits' = [hits EXCEPT ![h] = [pc |-> "idle", current |-> 0]]
    /\ UNCHANGED <<backend, count, recent, told, cut>>

Expire(h) ==
    /\ hits[h].pc = "expiring"
    /\ left' = Window
    /\ hits' = [hits EXCEPT ![h].pc = "reading"]
    /\ UNCHANGED <<backend, count, recent, told, cut>>

\* Mutant of Ttl: PTTL, which answers in a smaller unit.
Pttl == left

\* Redis rounds the TTL to seconds: the last half second is 0, which the store
\* takes, like -1 and -2, for no answer.
Ttl == (left + TicksPerSecond \div 2) \div TicksPerSecond

ReadTtl(h) ==
    /\ hits[h].pc = "reading"
    /\ Refuse(hits[h].current,
              AtLeastOne(IF left # Forever /\ Ttl > 0 THEN Ttl ELSE WindowSeconds))
    /\ hits' = [hits EXCEPT ![h] = [pc |-> "idle", current |-> 0]]
    /\ UNCHANGED <<backend, count, left, recent, cut>>

\* Mutant of Degrade: whatever the store says when it fails, the request goes on.
DegradeAlways(h) == recent' = [recent EXCEPT ![0] = @ + 1]

\* Without an answer of the store the middleware answers 503, or lets a request
\* through that the count would have refused.
Degrade(h) ==
    recent' = IF FailClosed \/ hits[h].current \in 1..Limit THEN recent
              ELSE [recent EXCEPT ![0] = @ + 1]

\* A call times out, or Redis is away.  What INCR did is not undone.
StoreFails(h) ==
    /\ backend = "redis"
    /\ Degrade(h)
    /\ cut' = (cut \/ hits[h].pc = "expiring")
    /\ hits' = [hits EXCEPT ![h] = [pc |-> "idle", current |-> 0]]
    /\ UNCHANGED <<backend, count, left, told>>
-----------------------------------------------------------------------------
(* InMemoryRateLimitStore.hit *)

\* No other coroutine runs in between: one step.
HitMemory(h) ==
    /\ backend = "memory"
    /\ LET over == left \in {Forever, 0} IN
          /\ count' = Counted(IF over THEN 0 ELSE count)
          /\ left' = IF over THEN Window ELSE left
    /\ Admit(count')
    /\ told' = IF count' > Limit
               THEN [after |-> AtLeastOne(left' \div TicksPerSecond), left |-> left']
               ELSE told
    /\ UNCHANGED <<backend, hits, cut>>
-----------------------------------------------------------------------------

\* Redis deletes the key when its time is up; the memory of the process keeps it
\* until the next hit.
Tick ==
    /\ IF backend = "redis" /\ left = 1
       THEN left' = Forever /\ count' = 0
       ELSE left' = (IF left > 0 THEN left - 1 ELSE left) /\ UNCHANGED count
    /\ recent' = [age \in 0..(Window - 1) |-> IF age = 0 THEN 0 ELSE recent[age - 1]]
    /\ UNCHANGED <<backend, hits, told, cut>>

LimiterNext ==
    \/ \E h \in Hits : Increment(h) \/ Expire(h) \/ ReadTtl(h) \/ StoreFails(h) \/ HitMemory(h)
    \/ Tick

LimiterSpec == LimiterInit /\ [][LimiterNext]_limiterVars

\* Time passes, and a coroutine that waits for Redis goes on or times out.
LimiterFairness ==
    /\ WF_limiterVars(Tick)
    /\ \A h \in Hits : WF_limiterVars(Expire(h) \/ ReadTtl(h) \/ (hits[h].pc # "idle" /\ StoreFails(h)))
-----------------------------------------------------------------------------

\* In any interval as long as a window at most two windows' worth of requests
\* pass, however the calls of the requests interleave; when the middleware fails
\* closed, whatever becomes of the store.
RateIsBounded ==
    FailClosed => MapThenSumSet(LAMBDA age : recent[age], 0..(Window - 1)) <= 2 * Limit

\* A client that is refused and comes back when it is told to is never asked to
\* wait longer than a window, and at most a second too early, unless the key has
\* lost its expiry.
RefusalsAreHonest ==
    /\ told.after <= WindowSeconds
    /\ told.left # Forever => told.after * TicksPerSecond > told.left - TicksPerSecond

\* An exhausted bucket opens again, however often clients keep trying, unless a
\* hit was cut off between INCR and EXPIRE.
WindowsEnd == (count > Limit) ~> (count <= Limit \/ left = 0 \/ cut)
=============================================================================
