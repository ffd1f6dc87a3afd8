------------------------------ MODULE RateLimit ------------------------------
(***************************************************************************)
(* RateLimitGuard and the counters of CacheService, for one client: Redis  *)
(* counts the client's requests in a key that expires after the window; if *)
(* a Redis command fails, the server counts the request in its own memory. *)
(* INCR, EXPIRE and TTL are separate commands, so requests interleave, and *)
(* the server can fail, between them.                                      *)
(*                                                                         *)
(* The server asks whether a count exceeds MaxRequests and nothing else of *)
(* it, so counts are kept up to MaxRequests + 1.                           *)
(***************************************************************************)
EXTENDS Naturals

CONSTANTS
    Calls,        \* slots for requests in progress
    MaxRequests,  \* RATE_LIMIT_MAX
    Window,       \* RATE_LIMIT_WINDOW_MS, in ticks
    Never         \* no expiry

ASSUME RateLimitAssumption ==
    /\ MaxRequests \in Nat \ {0}
    /\ Window \in Nat \ {0}
    /\ Never \notin Nat

VARIABLES
    connected,  \* this.redis is a client, not null
    redis,      \* the client's key in Redis
    memory,     \* the client's entry in this.memory
    pc,         \* what each request does next
    age         \* history: ticks since each store last began a window

rateVars == <<connected, redis, memory, pc, age>>

\* A counter and the ticks it has left.
Counters == [count : 1 .. MaxRequests + 1, ttl : (1 .. Window) \cup {Never}]

NoCounter == [count |-> 0, ttl |-> Never]

RateInit ==
    /\ connected \in BOOLEAN
    /\ redis = NoCounter
    /\ memory = NoCounter
    /\ pc = [r \in Calls |-> "idle"]
    /\ age = [redis |-> Window, memory |-> Window]

-------------------------------------------------------------------------------

\* Variant: rounded down.
TtlSecondsFloored == Window - 1

\* The window in seconds, rounded up.
TtlSeconds == Window

Exceeds(n) == n > MaxRequests

OneMore(n) == IF Exceeds(n) THEN n ELSE n + 1

\* incrementMemoryValue: an expired entry is replaced.
IncrementedMemory ==
    IF memory = NoCounter THEN [count |-> 1, ttl |-> TtlSeconds]
    ELSE [memory EXCEPT !.count = OneMore(@)]

\* What a Redis command does to the key: INCR creates a key without expiry.
Effect(command) ==
    CASE command = "incr" -> [redis EXCEPT !.count = OneMore(@)]
      [] command = "expire" /\ redis # NoCounter -> [redis EXCEPT !.ttl = TtlSeconds]
      [] OTHER -> redis

Goto(r, next) == pc' = [pc EXCEPT ![r] = next]

\* canActivate: with Redis the request goes on to INCR; without, memory has the
\* answer at once.
Arrive(r) ==
    /\ pc[r] = "idle"
    /\ \/ connected /\ Goto(r, "incr") /\ UNCHANGED <<memory, age>>
       \/ /\ ~connected
          /\ memory' = IncrementedMemory
          /\ age' = IF memory = NoCounter THEN [age EXCEPT !.memory = 0] ELSE age
          /\ UNCHANGED pc
    /\ UNCHANGED <<connected, redis>>

IncrKey ==
    /\ redis' = Effect("incr")
    /\ age' = IF redis = NoCounter THEN [age EXCEPT !.redis = 0] ELSE age

\* Variant: every request renews the expiry.
IncrAndRenew(r) ==
    /\ pc[r] = "incr"
    /\ IncrKey
    /\ Goto(r, "expire")
    /\ UNCHANGED <<connected, memory>>

\* INCR, whose answer decides whether the guard will refuse the request; only
\* the request that created the key goes on to EXPIRE.
Incr(r) ==
    /\ pc[r] = "incr"
    /\ IncrKey
    /\ Goto(r, IF redis'.count = 1 THEN "expire" ELSE "ttl")
    /\ UNCHANGED <<connected, memory>>

Expire(r) ==
    /\ pc[r] = "expire"
    /\ redis' = Effect("expire")
    /\ Goto(r, "ttl")
    /\ UNCHANGED <<connected, memory, age>>

\* TTL, and the guard admits or refuses the request.
Ttl(r) ==
    /\ pc[r] = "ttl"
    /\ Goto(r, "idle")
    /\ UNCHANGED <<connected, redis, memory, age>>

\* A command fails, before or after Redis executed it, and the request is
\* counted in memory.
RedisFails(r) ==
    /\ pc[r] # "idle"
    /\ redis' \in {redis, Effect(pc[r])}
    /\ memory' = IncrementedMemory
    /\ age' = [redis |-> IF redis = NoCounter /\ redis' # redis THEN 0 ELSE age.redis,
               memory |-> IF memory = NoCounter THEN 0 ELSE age.memory]
    /\ Goto(r, "idle")
    /\ UNCHANGED connected

\* The server stops and starts again; Redis may or may not be reached.
Restart ==
    /\ connected' \in BOOLEAN
    /\ memory' = NoCounter
    /\ pc' = [r \in Calls |-> "idle"]
    /\ age' = [age EXCEPT !.memory = Window]
    /\ UNCHANGED redis

\* A counter a tick later; without expiry it stays.
Aged(c) ==
    IF c = NoCounter \/ c.ttl = 1 THEN NoCounter
    ELSE [c EXCEPT !.ttl = IF @ = Never THEN Never ELSE @ - 1]

TimePasses ==
    /\ redis' = Aged(redis)
    /\ memory' = Aged(memory)
    /\ age' = [s \in DOMAIN age |-> IF age[s] < Window THEN age[s] + 1 ELSE Window]
    /\ UNCHANGED <<connected, pc>>

RateNext ==
    \/ \E r \in Calls : Arrive(r) \/ Incr(r) \/ Expire(r) \/ Ttl(r) \/ RedisFails(r)
    \/ Restart
    \/ TimePasses

\* Time passes, and a request that was begun goes on to the next command.
RateFairness ==
    /\ WF_rateVars(TimePasses)
    /\ \A r \in Calls : WF_rateVars(Incr(r) \/ Expire(r) \/ Ttl(r))

RateSpec == RateInit /\ [][RateNext]_rateVars

RateFairSpec == RateSpec /\ RateFairness

-------------------------------------------------------------------------------
(* Properties *)

CountersOK ==
    /\ connected \in BOOLEAN
    /\ redis \in Counters \cup {NoCounter}
    /\ memory \in Counters \cup {NoCounter}
    /\ pc \in [Calls -> {"idle", "incr", "expire", "ttl"}]
    /\ age \in [{"redis", "memory"} -> 0 .. Window]

\* The key counts requests for ever: it has no expiry and no request is going
\* to give it one, because the one that created it lost Redis or its server.
Orphaned ==
    /\ redis # NoCounter
    /\ redis.ttl = Never
    /\ \A r \in Calls : pc[r] # "expire"

\* A client whose requests Redis refuses is let in again, however often it
\* asks meanwhile, unless its key is orphaned.
RefusalsEnd == Exceeds(redis.count) ~> (~Exceeds(redis.count) \/ Orphaned)

\* Neither store starts the client's count anew within the window.
AllowancesAreAWindowApart ==
    [][/\ redis.count # 1 /\ redis'.count = 1 => age.redis = Window
       /\ memory.count # 1 /\ memory'.count = 1 => age.memory = Window
      ]_rateVars
==============================================================================
