--------------------------- MODULE RefreshLimiter ---------------------------
(***************************************************************************)
(* The limits of POST /analytics/posts/{id}/refresh for one user: a        *)
(* cooldown per post and a budget per window, kept in Redis and, whenever  *)
(* a Redis command fails, in the memory of the process instead             *)
(* (routes/analytics.py).                                                  *)
(*                                                                         *)
(* Every Redis command is a step of its own; a command may be executed and *)
(* its reply be lost.  The fallback runs without an await, in one step.    *)
(* Time is counted in ticks: keys hold what is left of their lives, and    *)
(* f[n] counts what happened in the last n ticks and the present one.      *)
(***************************************************************************)
EXTENDS Naturals, FiniteSets

CONSTANTS
    Posts,      \* published posts of the user
    Procs,      \* API processes
    Requests,   \* refresh requests that may be handled at the same time
    None,
    Cooldown,   \* _MANUAL_REFRESH_POST_COOLDOWN_SECONDS
    Window,     \* _MANUAL_REFRESH_USER_WINDOW_SECONDS
    Limit,      \* _MANUAL_REFRESH_USER_LIMIT
    MaxFaults   \* bound: Redis outages and dying processes

ASSUME LimiterAssumption ==
    /\ None \notin Posts \cup Procs
    /\ IsFiniteSet(Procs)
    /\ {Cooldown, Window, Limit} \subseteq Nat \ {0}
    /\ MaxFaults \in Nat

VARIABLES
    up,        \* Redis can be reached
    lock,      \* lock[p]: ticks the cooldown key of p has left, 0: no key
    budget,    \* the budget key: hits (0: no key) and ttl (0: it has none)
    memory,    \* memory[c]: the two dictionaries of process c
    request,   \* request[r]: where a request is
    spent,     \* spent[n]: hits Redis allowed
    local,     \* local[c][n]: hits the fallback of c allowed
    passed,    \* passed[p][n]: requests for p past a cooldown
    faults     \* [outage, restart]: how many of each have happened

redis == <<lock, budget>>
ghosts == <<spent, local, passed>>
vars == <<up, redis, memory, request, ghosts, faults>>

-----------------------------------------------------------------------------

Counts(n) == [0 .. n -> Nat]
Zero(n) == [k \in 0 .. n |-> 0]
AddNow(f) == [k \in DOMAIN f |-> f[k] + 1]
Older(f) == [k \in DOMAIN f |-> IF k = 0 THEN 0 ELSE f[k - 1]]

\* cool[p]: what is left of _fallback_post_cooldowns; hits: _fallback_user_hits,
\* as far as the next request will not drop them.
Memory == [cool : [Posts -> 0 .. Cooldown], hits : Counts(Window)]

NoMemory == [cool |-> [p \in Posts |-> 0], hits |-> Zero(Window)]

Stages == {"idle", "set", "incr", "expire", "ttl", "fallback"}

RequestState == [pc : Stages, post : Posts \cup {None}, proc : Procs \cup {None}]

NoRequest == [pc |-> "idle", post |-> None, proc |-> None]

TypeOK ==
    /\ up \in BOOLEAN
    /\ lock \in [Posts -> 0 .. Cooldown]
    /\ budget \in [hits : 0 .. Limit + 1, ttl : 0 .. Window]
    /\ memory \in [Procs -> Memory]
    /\ request \in [Requests -> RequestState]
    /\ spent \in Counts(Window - 1)
    /\ local \in [Procs -> Counts(Window)]
    /\ passed \in [Posts -> Counts(Cooldown - 1)]
    /\ faults \in [outage : 0 .. MaxFaults, restart : 0 .. MaxFaults]

Init ==
    /\ up = TRUE
    /\ lock = [p \in Posts |-> 0]
    /\ budget = [hits |-> 0, ttl |-> 0]
    /\ memory = [c \in Procs |-> NoMemory]
    /\ request = [r \in Requests |-> NoRequest]
    /\ spent = Zero(Window - 1)
    /\ local = [c \in Procs |-> Zero(Window)]
    /\ passed = [p \in Posts |-> Zero(Cooldown - 1)]
    /\ faults = [outage |-> 0, restart |-> 0]

Faults == faults.outage + faults.restart

Fault(kind) == Faults < MaxFaults /\ faults' = [faults EXCEPT ![kind] = @ + 1]

-----------------------------------------------------------------------------
(* Time                                                                    *)

\* Mutant: the life of a key that is gone goes on shrinking.
LessUnguarded(n) == n - 1

Less(n) == IF n = 0 THEN 0 ELSE n - 1

\* Mutant: a hit is forgotten when it is exactly one window old.
AgedEarly(hits) == [Older(hits) EXCEPT ![Window] = Older(hits)[Window - 1]]

\* The while loop drops the hits older than the window when it is read next.
Aged(hits) == Older(hits)

\* A key whose last tick passes is gone; one without a TTL stays.
Tick ==
    /\ lock' = [p \in Posts |-> Less(lock[p])]
    /\ budget' = IF budget.ttl = 1 THEN [hits |-> 0, ttl |-> 0]
                 ELSE [budget EXCEPT !.ttl = Less(budget.ttl)]
    /\ memory' = [c \in Procs |-> [cool |-> [p \in Posts |-> Less(memory[c].cool[p])],
                                   hits |-> Aged(memory[c].hits)]]
    /\ spent' = Older(spent)
    /\ local' = [c \in Procs |-> Older(local[c])]
    /\ passed' = [p \in Posts |-> Older(passed[p])]
    /\ UNCHANGED <<up, request, faults>>

-----------------------------------------------------------------------------
(* _enforce_limits_redis                                                   *)

\* The checks of the handler have passed.
Arrive(r, p, c) ==
    /\ request[r].pc = "idle"
    /\ request' = [request EXCEPT ![r] = [pc |-> "set", post |-> p, proc |-> c]]
    /\ UNCHANGED <<up, redis, memory, ghosts, faults>>

\* The request is answered: allowed on its way to X, or 429.
Done == NoRequest

Goes(r, pc) ==
    request' = [request EXCEPT ![r] = IF pc = "idle" THEN Done ELSE [@ EXCEPT !.pc = pc]]

Outage == up' = FALSE /\ Fault("outage")

\* The reply arrives, or Redis becomes unreachable before it does.
Replies(r, pc) ==
    \/ Goes(r, pc) /\ UNCHANGED <<up, faults>>
    \/ Goes(r, "fallback") /\ Outage

\* Mutant: SET without NX.
AlwaysUnlocked(p) == TRUE

Unlocked(p) == lock[p] = 0

\* SET lock_key EX NX.
SetLock(r) ==
    LET p == request[r].post IN
    /\ request[r].pc = "set" /\ up
    /\ IF Unlocked(p)
       THEN /\ lock' = [lock EXCEPT ![p] = Cooldown]
            /\ passed' = [passed EXCEPT ![p] = AddNow(@)]
            /\ Replies(r, "incr")
       ELSE /\ UNCHANGED <<lock, passed>>
            /\ Replies(r, "ttl")
    /\ UNCHANGED <<budget, memory, spent, local>>

\* Mutant: one hit more than the limit.
WithinLimitPlus(hits) == hits <= Limit + 1

WithinLimit(hits) == hits <= Limit

\* Mutant: the first request of a window leaves EXPIRE to the next one.
NeedsExpirySecond(hits) == hits = 2

NeedsExpiry(hits) == hits = 1

\* INCR budget_key: the count stops where no condition tells it apart.
Incr(r) ==
    LET hits == IF budget.hits > Limit THEN budget.hits ELSE budget.hits + 1 IN
    /\ request[r].pc = "incr" /\ up
    /\ budget' = [budget EXCEPT !.hits = hits]
    /\ spent' = IF WithinLimit(hits) THEN AddNow(spent) ELSE spent
    /\ Replies(r, CASE NeedsExpiry(hits) -> "expire"
                    [] ~NeedsExpiry(hits) /\ WithinLimit(hits) -> "idle"
                    [] OTHER -> "ttl")
    /\ UNCHANGED <<lock, memory, local, passed>>

\* EXPIRE budget_key, by the request that created it.
Expire(r) ==
    /\ request[r].pc = "expire" /\ up
    /\ budget' = IF budget.hits = 0 THEN budget ELSE [budget EXCEPT !.ttl = Window]
    /\ Replies(r, "idle")
    /\ UNCHANGED <<lock, memory, ghosts>>

\* TTL, for the message of the 429.
AskTtl(r) ==
    /\ request[r].pc = "ttl" /\ up
    /\ Replies(r, "idle")
    /\ UNCHANGED <<redis, memory, ghosts>>

\* While Redis is away every command raises, the TTL of a refusal included.
RedisFails(r) ==
    /\ request[r].pc \in {"set", "incr", "expire", "ttl"} /\ ~up
    /\ Goes(r, "fallback")
    /\ UNCHANGED <<up, redis, memory, ghosts, faults>>

-----------------------------------------------------------------------------
(* _enforce_limits_fallback                                                *)

FallbackRefuses(r) ==
    LET c == request[r].proc
        p == request[r].post
    IN
    /\ request[r].pc = "fallback"
    /\ memory[c].cool[p] > 0
    /\ Goes(r, "idle")
    /\ UNCHANGED <<up, redis, memory, ghosts, faults>>

\* The cooldown is entered before the budget is looked at.
FallbackCounts(r) ==
    LET c == request[r].proc
        p == request[r].post
        allowed == memory[c].hits[Window] < Limit
        cooling == [memory[c] EXCEPT !.cool[p] = Cooldown]
    IN
    /\ request[r].pc = "fallback"
    /\ memory[c].cool[p] = 0
    /\ passed' = [passed EXCEPT ![p] = AddNow(@)]
    /\ memory' = [memory EXCEPT ![c] =
                    IF allowed THEN [cooling EXCEPT !.hits = AddNow(@)] ELSE cooling]
    /\ local' = IF allowed THEN [local EXCEPT ![c] = AddNow(@)] ELSE local
    /\ Goes(r, "idle")
    /\ UNCHANGED <<up, redis, spent, faults>>

-----------------------------------------------------------------------------
(* Trouble                                                                 *)

LoseRedis ==
    /\ up
    /\ Outage
    /\ UNCHANGED <<redis, memory, request, ghosts>>

RedisReturns ==
    /\ ~up
    /\ up' = TRUE
    /\ UNCHANGED <<redis, memory, request, ghosts, faults>>

\* A process restarts: its requests and its dictionaries are gone.
ProcDies(c) ==
    /\ Fault("restart")
    /\ memory' = [memory EXCEPT ![c] = NoMemory]
    /\ request' = [r \in Requests |-> IF request[r].proc = c THEN NoRequest ELSE request[r]]
    /\ UNCHANGED <<up, redis, ghosts>>

Step(r) ==
    \/ SetLock(r)
    \/ Incr(r)
    \/ Expire(r)
    \/ AskTtl(r)
    \/ RedisFails(r)
    \/ FallbackRefuses(r)
    \/ FallbackCounts(r)

Next ==
    \/ Tick
    \/ \E r \in Requests :
         \/ \E p \in Posts, c \in Procs : Arrive(r, p, c)
         \/ Step(r)
    \/ LoseRedis
    \/ RedisReturns
    \/ \E c \in Procs : ProcDies(c)

Spec == Init /\ [][Next]_vars

-----------------------------------------------------------------------------
(* What the limits promise                                                 *)

\* In no stretch of one window's length does Redis allow more than two
\* budgets: the end of one fixed window and the start of the next.
RedisBudget == spent[Window - 1] <= 2 * Limit

\* The fallback of a process allows one budget in a window, its two ends
\* included; a restart, which empties its memory, is worth another.
FallbackBudget == \A c \in Procs : local[c][Window] <= Limit * (1 + faults.restart)

\* Within one cooldown a post is refreshed once while Redis is there; after an
\* outage once more in each process, however often Redis comes and goes, and
\* once more for every restart.
CooldownHolds ==
    \A p \in Posts :
      passed[p][Cooldown - 1] <=
        1 + IF faults.outage = 0 THEN 0 ELSE Cardinality(Procs) + faults.restart

\* The budget key exists without a TTL and nobody is going to give it one.
Orphaned ==
    /\ budget.hits > 0 /\ budget.ttl = 0
    /\ \A r \in Requests : request[r].pc # "expire"

\* Only a failure between INCR and EXPIRE leaves the key without a TTL: of the
\* requests that race for a new window one and only one sets it.
OrphanNeedsFault == Orphaned => Faults > 0

=============================================================================
