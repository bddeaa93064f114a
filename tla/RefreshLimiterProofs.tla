------------------------ MODULE RefreshLimiterProofs ------------------------
(***************************************************************************)
(* Theorems about RefreshLimiter for any number of posts, processes and    *)
(* requests, any lengths and limits, and any number of outages and         *)
(* restarts: its types, both budgets, the cooldown, and the budget key     *)
(* that nobody gives a TTL.                                                *)
(***************************************************************************)
EXTENDS RefreshLimiter, FiniteSetTheorems, TLAPS

-----------------------------------------------------------------------------
(* What holds of the keys and the dictionaries in every state              *)

\* Counts of longer stretches are not smaller.
Rising(n, f) == \A j, k \in 0 .. n : j <= k => f[j] <= f[k]

\* The hits Redis has allowed under the present budget key.
Counted == IF budget.hits <= Limit THEN budget.hits ELSE Limit

\* Hits from before the present key are within one budget; those since the
\* tick of EXPIRE are under the present key.
TwoKeys ==
    /\ Rising(Window - 1, spent)
    /\ spent[Window - 1] <= Limit + Counted
    /\ budget.ttl \in 1 .. Window - 1 => spent[Window - budget.ttl - 1] <= Counted

\* A process remembers its hits but for one budget at every restart.
Remembered ==
    \A c \in Procs :
      /\ memory[c].hits[Window] <= Limit
      /\ Rising(Window, memory[c].hits)
      /\ \A n \in 0 .. Window : local[c][n] <= memory[c].hits[n] + Limit * faults.restart

\* The cooldowns of p that began in the last n ticks, in Redis and elsewhere.
Locked(p, n) == IF lock[p] + n >= Cooldown THEN 1 ELSE 0
Cooling(p, n) == {c \in Procs : memory[c].cool[p] + n >= Cooldown}

\* Who passed a cooldown has begun one, which is there unless a restart took it.
Passes ==
    \A p \in Posts, n \in 0 .. Cooldown - 1 :
      passed[p][n] <= Locked(p, n) + Cardinality(Cooling(p, n))
                        + IF faults.outage = 0 THEN 0 ELSE faults.restart

\* Before the first outage nobody uses the dictionaries.
Undisturbed ==
    faults.outage = 0 =>
      /\ up
      /\ \A r \in Requests : request[r].pc # "fallback"
      /\ \A c \in Procs, p \in Posts : memory[c].cool[p] = 0

\* Before the first failure a key without a TTL has a request to set it.
SetByFirst ==
    Faults = 0 =>
      /\ up
      /\ budget.hits > 0 /\ budget.ttl = 0 => \E r \in Requests : request[r].pc = "expire"

-----------------------------------------------------------------------------
(* Histories                                                               *)

LEMMA Numbers ==
    /\ Cooldown \in Nat /\ Cooldown > 0 /\ Window \in Nat /\ Window > 0
    /\ Limit \in Nat /\ Limit > 0 /\ MaxFaults \in Nat
BY LimiterAssumption

LEMMA Adding ==
    ASSUME NEW n \in Nat, NEW f \in Counts(n)
    PROVE  /\ AddNow(f) \in Counts(n)
           /\ \A k \in 0 .. n : AddNow(f)[k] = f[k] + 1
           /\ Rising(n, f) => Rising(n, AddNow(f))
BY DEF AddNow, Counts, Rising

LEMMA Ageing ==
    ASSUME NEW n \in Nat, NEW f \in Counts(n)
    PROVE  /\ Older(f) \in Counts(n)
           /\ Older(f)[0] = 0
           /\ \A k \in 1 .. n : Older(f)[k] = f[k - 1]
           /\ Rising(n, f) => Rising(n, Older(f)) /\ \A k \in 0 .. n : Older(f)[k] <= f[k]
<1>1. Older(f) \in Counts(n) /\ Older(f)[0] = 0 /\ \A k \in 1 .. n : Older(f)[k] = f[k - 1]
  BY DEF Older, Counts
<1>2. \A k \in 0 .. n : f[k] \in Nat
  BY DEF Counts
<1>3. ASSUME Rising(n, f)
      PROVE  Rising(n, Older(f)) /\ \A k \in 0 .. n : Older(f)[k] <= f[k]
  <2>1. ASSUME NEW j \in 0 .. n, NEW k \in 0 .. n, j <= k
        PROVE  Older(f)[j] <= Older(f)[k]
    <3>1. CASE j = 0
      BY <1>1, <1>2, <3>1 DEF Counts
    <3>2. CASE j # 0
      <4>1. /\ j \in 1 .. n /\ k \in 1 .. n
            /\ j - 1 \in 0 .. n /\ k - 1 \in 0 .. n /\ j - 1 <= k - 1
        BY <2>1, <3>2
      <4> QED  BY <1>1, <1>3, <4>1 DEF Rising
    <3> QED  BY <3>1, <3>2
  <2>2. ASSUME NEW k \in 0 .. n
        PROVE  Older(f)[k] <= f[k]
    <3>1. CASE k = 0
      BY <1>1, <1>2, <3>1
    <3>2. CASE k # 0
      <4>1. k \in 1 .. n /\ k - 1 \in 0 .. n /\ k - 1 <= k
        BY <3>2
      <4> QED  BY <1>1, <1>3, <4>1 DEF Rising
    <3> QED  BY <3>1, <3>2
  <2> QED  BY <2>1, <2>2 DEF Rising
<1> QED  BY <1>1, <1>3

LEMMA Zeros ==
    ASSUME NEW n \in Nat
    PROVE  /\ Zero(n) \in Counts(n)
           /\ \A k \in 0 .. n : Zero(n)[k] = 0
           /\ Rising(n, Zero(n))
BY DEF Zero, Counts, Rising

-----------------------------------------------------------------------------
(* Type correctness                                                        *)

LEMMA GoesTyped ==
    ASSUME TypeOK, NEW r \in Requests, NEW pc \in Stages, Goes(r, pc)
    PROVE  request' \in [Requests -> RequestState]
BY DEF TypeOK, Goes, Done, NoRequest, RequestState, Stages

LEMMA FaultTyped ==
    ASSUME TypeOK, NEW kind \in {"outage", "restart"}, Fault(kind)
    PROVE  /\ faults' \in [outage : 0 .. MaxFaults, restart : 0 .. MaxFaults]
           /\ faults' = [faults EXCEPT ![kind] = faults[kind] + 1]
<1>1. faults' = [faults EXCEPT ![kind] = faults[kind] + 1]
  BY DEF Fault
<1>2. faults.outage + faults.restart < MaxFaults
  BY DEF Fault, Faults
<1>3. faults \in [outage : 0 .. MaxFaults, restart : 0 .. MaxFaults]
  BY DEF TypeOK
<1>4. faults[kind] + 1 \in 0 .. MaxFaults
  BY <1>2, <1>3, Numbers
<1> QED  BY <1>1, <1>3, <1>4

LEMMA RepliesTyped ==
    ASSUME TypeOK, NEW r \in Requests, NEW pc \in Stages, Replies(r, pc)
    PROVE  /\ request' \in [Requests -> RequestState]
           /\ up' \in BOOLEAN
           /\ faults' \in [outage : 0 .. MaxFaults, restart : 0 .. MaxFaults]
<1>1. CASE Goes(r, pc) /\ UNCHANGED <<up, faults>>
  BY <1>1, GoesTyped DEF TypeOK
<1>2. CASE Goes(r, "fallback") /\ Outage
  <2>1. request' \in [Requests -> RequestState]
    BY <1>2, GoesTyped DEF Stages
  <2>2. up' \in BOOLEAN
    BY <1>2 DEF Outage
  <2> QED  BY <1>2, <2>1, <2>2, FaultTyped DEF Outage
<1> QED  BY <1>1, <1>2 DEF Replies

LEMMA MemoryTyped ==
    ASSUME TypeOK, NEW c \in Procs
    PROVE  /\ memory[c] \in Memory
           /\ memory[c].cool \in [Posts -> 0 .. Cooldown]
           /\ memory[c].hits \in Counts(Window)
BY DEF TypeOK, Memory

LEMMA TypeInit == Init => TypeOK
<1> SUFFICES ASSUME Init PROVE TypeOK
  OBVIOUS
<1>1. /\ Zero(Window - 1) \in Counts(Window - 1) /\ Zero(Window) \in Counts(Window)
      /\ Zero(Cooldown - 1) \in Counts(Cooldown - 1)
  BY Numbers, Zeros
<1>2. NoMemory \in Memory
  BY <1>1, Numbers DEF NoMemory, Memory
<1>3. NoRequest \in RequestState
  BY DEF NoRequest, RequestState, Stages
<1> QED  BY <1>1, <1>2, <1>3, Numbers DEF Init, TypeOK

LEMMA TypeTick == TypeOK /\ Tick => TypeOK'
<1> SUFFICES ASSUME TypeOK, Tick PROVE TypeOK'
  OBVIOUS
<1>1. /\ \A n \in 0 .. Cooldown : Less(n) \in 0 .. Cooldown
      /\ \A n \in 0 .. Window : Less(n) \in 0 .. Window
  BY Numbers DEF Less
<1>2. lock' \in [Posts -> 0 .. Cooldown]
  BY <1>1 DEF TypeOK, Tick
<1>3. budget' \in [hits : 0 .. Limit + 1, ttl : 0 .. Window]
  <2>1. budget' = IF budget.ttl = 1 THEN [hits |-> 0, ttl |-> 0]
                  ELSE [budget EXCEPT !.ttl = Less(budget.ttl)]
    BY DEF Tick
  <2> QED  BY <1>1, <2>1, Numbers DEF TypeOK
<1>4. memory' \in [Procs -> Memory]
  <2> SUFFICES ASSUME NEW c \in Procs
               PROVE  [cool |-> [p \in Posts |-> Less(memory[c].cool[p])],
                       hits |-> Aged(memory[c].hits)] \in Memory
    BY DEF Tick
  <2>1. Aged(memory[c].hits) \in Counts(Window)
    BY MemoryTyped, Ageing, Numbers DEF Aged
  <2>2. [p \in Posts |-> Less(memory[c].cool[p])] \in [Posts -> 0 .. Cooldown]
    BY <1>1, MemoryTyped
  <2> QED  BY <2>1, <2>2 DEF Memory
<1>5. spent' \in Counts(Window - 1)
  <2>1. Window - 1 \in Nat /\ spent \in Counts(Window - 1)
    BY Numbers DEF TypeOK
  <2> QED  BY <2>1, Ageing DEF Tick
<1>6. local' \in [Procs -> Counts(Window)]
  <2>1. \A c \in Procs : Older(local[c]) \in Counts(Window)
    BY Ageing, Numbers DEF TypeOK
  <2> QED  BY <2>1 DEF Tick
<1>7. passed' \in [Posts -> Counts(Cooldown - 1)]
  <2>1. Cooldown - 1 \in Nat /\ \A p \in Posts : passed[p] \in Counts(Cooldown - 1)
    BY Numbers DEF TypeOK
  <2>2. \A p \in Posts : Older(passed[p]) \in Counts(Cooldown - 1)
    BY <2>1, Ageing
  <2> QED  BY <2>2 DEF Tick
<1> QED  BY <1>2, <1>3, <1>4, <1>5, <1>6, <1>7 DEF TypeOK, Tick

\* A request that is handled knows its post and its process.
Handled ==
    \A r \in Requests :
      request[r].pc # "idle" => request[r].post \in Posts /\ request[r].proc \in Procs

Typed == TypeOK /\ Handled

LEMMA GoesHandled ==
    ASSUME Typed, NEW r \in Requests, NEW pc \in Stages, Goes(r, pc), request[r].pc # "idle"
    PROVE  Handled'
<1>1. \A x \in Requests \ {r} : request'[x] = request[x]
  BY DEF Goes, Typed, TypeOK
<1>2. /\ request'[r] = IF pc = "idle" THEN NoRequest ELSE [request[r] EXCEPT !.pc = pc]
      /\ request[r] \in RequestState
  BY DEF Goes, Done, Typed, TypeOK
<1>3. request'[r].pc # "idle" => request'[r].post \in Posts /\ request'[r].proc \in Procs
  BY <1>2 DEF NoRequest, RequestState, Typed, Handled
<1> QED  BY <1>1, <1>3 DEF Typed, Handled

LEMMA RepliesHandled ==
    ASSUME Typed, NEW r \in Requests, NEW pc \in Stages, Replies(r, pc), request[r].pc # "idle"
    PROVE  Handled'
BY GoesHandled DEF Replies, Stages

LEMMA TypeArrive ==
    ASSUME Typed, NEW r \in Requests, NEW p \in Posts, NEW c \in Procs, Arrive(r, p, c)
    PROVE  Typed'
<1>1. PICK q : q = [pc |-> "set", post |-> p, proc |-> c]
  OBVIOUS
<1>2. q \in RequestState /\ q.post \in Posts /\ q.proc \in Procs
  BY <1>1 DEF RequestState, Stages
<1>3. request' = [request EXCEPT ![r] = q]
  BY <1>1 DEF Arrive
<1>4. request' \in [Requests -> RequestState] /\ Handled'
  BY <1>2, <1>3 DEF Typed, TypeOK, Handled
<1> QED  BY <1>4 DEF Arrive, Typed, TypeOK, redis, ghosts

LEMMA TypeSetLock ==
    ASSUME Typed, NEW r \in Requests, SetLock(r)
    PROVE  Typed'
<1>1. PICK p : p = request[r].post
  OBVIOUS
<1>2. p \in Posts /\ request[r].pc # "idle"
  BY <1>1 DEF SetLock, Typed, Handled
<1>3. /\ lock' = [lock EXCEPT ![p] = Cooldown] \/ lock' = lock
      /\ passed' = [passed EXCEPT ![p] = AddNow(passed[p])] \/ passed' = passed
      /\ \E pc \in {"incr", "ttl"} : Replies(r, pc)
  BY <1>1 DEF SetLock
<1>4. lock' \in [Posts -> 0 .. Cooldown]
  BY <1>2, <1>3, Numbers DEF Typed, TypeOK
<1>5. passed' \in [Posts -> Counts(Cooldown - 1)]
  <2>1. Cooldown - 1 \in Nat /\ passed[p] \in Counts(Cooldown - 1)
    BY <1>2, Numbers DEF Typed, TypeOK
  <2>2. AddNow(passed[p]) \in Counts(Cooldown - 1)
    BY <2>1, Adding
  <2> QED  BY <1>3, <2>2 DEF Typed, TypeOK
<1>6. /\ request' \in [Requests -> RequestState]
      /\ up' \in BOOLEAN
      /\ faults' \in [outage : 0 .. MaxFaults, restart : 0 .. MaxFaults]
      /\ Handled'
  BY <1>2, <1>3, RepliesTyped, RepliesHandled DEF Stages, Typed
<1> QED  BY <1>4, <1>5, <1>6 DEF SetLock, Typed, TypeOK

LEMMA TypeIncr ==
    ASSUME Typed, NEW r \in Requests, Incr(r)
    PROVE  Typed'
<1>1. PICK hits : hits = IF budget.hits > Limit THEN budget.hits ELSE budget.hits + 1
  OBVIOUS
<1>2. budget' = [budget EXCEPT !.hits = hits] /\ hits \in 0 .. Limit + 1
  BY <1>1, Numbers DEF Incr, Typed, TypeOK
<1>3. budget' \in [hits : 0 .. Limit + 1, ttl : 0 .. Window]
  BY <1>2 DEF Typed, TypeOK
<1>4. spent' \in Counts(Window - 1)
  <2>1. Window - 1 \in Nat /\ spent \in Counts(Window - 1)
    BY Numbers DEF Typed, TypeOK
  <2>2. AddNow(spent) \in Counts(Window - 1)
    BY <2>1, Adding
  <2> QED  BY <2>1, <2>2 DEF Incr
<1>5. PICK pc \in {"expire", "idle", "ttl"} : Replies(r, pc)
  <2>1. PICK pc \in {"expire", "idle", "ttl"} :
          pc = CASE NeedsExpiry(hits) -> "expire"
                 [] ~NeedsExpiry(hits) /\ WithinLimit(hits) -> "idle"
                 [] OTHER -> "ttl"
    OBVIOUS
  <2> QED  BY <1>1, <2>1 DEF Incr
<1>6. /\ request' \in [Requests -> RequestState]
      /\ up' \in BOOLEAN
      /\ faults' \in [outage : 0 .. MaxFaults, restart : 0 .. MaxFaults]
      /\ Handled'
  BY <1>5, RepliesTyped, RepliesHandled DEF Incr, Stages, Typed
<1> QED  BY <1>3, <1>4, <1>6 DEF Incr, Typed, TypeOK

LEMMA TypeExpire ==
    ASSUME Typed, NEW r \in Requests, Expire(r) \/ AskTtl(r)
    PROVE  Typed'
<1>1. /\ request[r].pc # "idle" /\ Replies(r, "idle")
      /\ UNCHANGED <<lock, memory, spent, local, passed>>
  BY DEF Expire, AskTtl, redis, ghosts
<1>2. /\ request' \in [Requests -> RequestState]
      /\ up' \in BOOLEAN
      /\ faults' \in [outage : 0 .. MaxFaults, restart : 0 .. MaxFaults]
      /\ Handled'
  BY <1>1, RepliesTyped, RepliesHandled DEF Stages, Typed
<1>3. budget' = budget \/ budget' = [budget EXCEPT !.ttl = Window]
  BY DEF Expire, AskTtl, redis
<1>4. budget' \in [hits : 0 .. Limit + 1, ttl : 0 .. Window]
  BY <1>3, Numbers DEF Typed, TypeOK
<1> QED  BY <1>1, <1>2, <1>4 DEF Typed, TypeOK

LEMMA TypeFails ==
    ASSUME Typed, NEW r \in Requests, RedisFails(r) \/ FallbackRefuses(r)
    PROVE  Typed'
<1>1. /\ request[r].pc # "idle" /\ UNCHANGED <<up, redis, memory, ghosts, faults>>
      /\ \E pc \in Stages : Goes(r, pc)
  BY DEF RedisFails, FallbackRefuses, Stages
<1>2. request' \in [Requests -> RequestState] /\ Handled'
  BY <1>1, GoesTyped, GoesHandled DEF Typed
<1> QED  BY <1>1, <1>2 DEF Typed, TypeOK, redis, ghosts

\* What the fallback that lets a request pass writes.
LEMMA Counting ==
    ASSUME Typed, NEW r \in Requests, FallbackCounts(r)
    PROVE  \E p \in Posts, c \in Procs :
             /\ memory[c].cool[p] = 0
             /\ passed' = [passed EXCEPT ![p] = AddNow(passed[p])]
             /\ memory'[c].cool = [memory[c].cool EXCEPT ![p] = Cooldown]
             /\ memory' \in [Procs -> Memory]
             /\ local' \in [Procs -> Counts(Window)]
             /\ \A d \in Procs \ {c} : memory'[d] = memory[d] /\ local'[d] = local[d]
             /\ \/ memory'[c].hits = memory[c].hits /\ local' = local
                \/ /\ memory[c].hits[Window] < Limit
                   /\ memory'[c].hits = AddNow(memory[c].hits)
                   /\ local'[c] = AddNow(local[c])
<1>1. PICK p, c : p = request[r].post /\ c = request[r].proc
  OBVIOUS
<1>2. p \in Posts /\ c \in Procs
  BY <1>1 DEF FallbackCounts, Typed, Handled
<1>3. PICK allowed : allowed = (memory[c].hits[Window] < Limit)
  OBVIOUS
<1>4. PICK cool, hits : /\ cool = [memory[c].cool EXCEPT ![p] = Cooldown]
                        /\ hits = IF allowed THEN AddNow(memory[c].hits) ELSE memory[c].hits
  OBVIOUS
<1>5. PICK m : m = [cool |-> cool, hits |-> hits]
  OBVIOUS
<1>6. /\ memory[c] \in Memory /\ memory[c].cool \in [Posts -> 0 .. Cooldown]
      /\ memory[c].hits \in Counts(Window)
  BY <1>2, MemoryTyped DEF Typed
<1>7. PICK cooling : cooling = [memory[c] EXCEPT !.cool = cool]
  OBVIOUS
<1>8. memory' = [memory EXCEPT ![c] =
                   IF allowed THEN [cooling EXCEPT !.hits = AddNow(cooling.hits)] ELSE cooling]
  BY <1>1, <1>3, <1>4, <1>7 DEF FallbackCounts
<1>9. cooling = [cool |-> cool, hits |-> memory[c].hits]
  BY <1>6, <1>7 DEF Memory
<1>10. memory' = [memory EXCEPT ![c] = m]
  <2>1. CASE allowed
    <3>1. [cooling EXCEPT !.hits = AddNow(cooling.hits)] = m
      BY <1>4, <1>5, <1>9, <2>1
    <3> QED  BY <1>8, <2>1, <3>1
  <2>2. CASE ~allowed
    <3>1. cooling = m
      BY <1>4, <1>5, <1>9, <2>2
    <3> QED  BY <1>8, <2>2, <3>1
  <2> QED  BY <2>1, <2>2
<1>11. m \in Memory
  <2>1. cool \in [Posts -> 0 .. Cooldown]
    BY <1>2, <1>4, <1>6, Numbers
  <2>2. hits \in Counts(Window)
    BY <1>4, <1>6, Adding, Numbers
  <2> QED  BY <1>5, <2>1, <2>2 DEF Memory
<1>12. memory' \in [Procs -> Memory] /\ memory'[c] = m
       /\ \A d \in Procs \ {c} : memory'[d] = memory[d]
  BY <1>2, <1>10, <1>11 DEF Typed, TypeOK
<1>13. local' = IF allowed THEN [local EXCEPT ![c] = AddNow(local[c])] ELSE local
  BY <1>1, <1>3 DEF FallbackCounts
<1>14. local[c] \in Counts(Window) /\ AddNow(local[c]) \in Counts(Window)
  BY <1>2, Adding, Numbers DEF Typed, TypeOK
<1>15. /\ local' \in [Procs -> Counts(Window)]
       /\ \A d \in Procs \ {c} : local'[d] = local[d]
       /\ IF allowed THEN local'[c] = AddNow(local[c]) ELSE local' = local
  BY <1>2, <1>13, <1>14 DEF Typed, TypeOK
<1>16. /\ memory'[c].cool = [memory[c].cool EXCEPT ![p] = Cooldown]
       /\ memory'[c].hits = IF allowed THEN AddNow(memory[c].hits) ELSE memory[c].hits
  BY <1>4, <1>5, <1>12
<1>17. memory[c].cool[p] = 0 /\ passed' = [passed EXCEPT ![p] = AddNow(passed[p])]
  BY <1>1 DEF FallbackCounts
<1>18. \/ memory'[c].hits = memory[c].hits /\ local' = local
       \/ /\ memory[c].hits[Window] < Limit
          /\ memory'[c].hits = AddNow(memory[c].hits)
          /\ local'[c] = AddNow(local[c])
  BY <1>3, <1>15, <1>16
<1> QED  BY <1>2, <1>12, <1>15, <1>16, <1>17, <1>18

LEMMA TypeCounts ==
    ASSUME Typed, NEW r \in Requests, FallbackCounts(r)
    PROVE  Typed'
<1>1. PICK p \in Posts : /\ passed' = [passed EXCEPT ![p] = AddNow(passed[p])]
                         /\ memory' \in [Procs -> Memory]
                         /\ local' \in [Procs -> Counts(Window)]
  BY Counting
<1>2. passed' \in [Posts -> Counts(Cooldown - 1)]
  <2>1. Cooldown - 1 \in Nat /\ passed[p] \in Counts(Cooldown - 1)
    BY Numbers DEF Typed, TypeOK
  <2>2. AddNow(passed[p]) \in Counts(Cooldown - 1)
    BY <2>1, Adding
  <2> QED  BY <1>1, <2>2 DEF Typed, TypeOK
<1>3. request' \in [Requests -> RequestState] /\ Handled'
  BY GoesTyped, GoesHandled DEF FallbackCounts, Stages, Typed
<1> QED  BY <1>1, <1>2, <1>3 DEF FallbackCounts, Typed, TypeOK, redis

LEMMA TypeTrouble ==
    ASSUME Typed, LoseRedis \/ RedisReturns
    PROVE  Typed'
<1>1. UNCHANGED <<redis, memory, request, ghosts>> /\ up' \in BOOLEAN
  BY DEF LoseRedis, RedisReturns, Outage
<1>2. faults' \in [outage : 0 .. MaxFaults, restart : 0 .. MaxFaults]
  BY FaultTyped DEF LoseRedis, RedisReturns, Outage, Typed, TypeOK
<1> QED  BY <1>1, <1>2 DEF Typed, TypeOK, Handled, redis, ghosts

LEMMA TypeDies ==
    ASSUME Typed, NEW c \in Procs, ProcDies(c)
    PROVE  Typed'
<1>1. NoMemory \in Memory
  BY Zeros, Numbers DEF NoMemory, Memory
<1>2. memory' \in [Procs -> Memory]
  BY <1>1 DEF ProcDies, Typed, TypeOK
<1>3. NoRequest \in RequestState /\ NoRequest.pc = "idle"
  BY DEF NoRequest, RequestState, Stages
<1>4. request' \in [Requests -> RequestState] /\ Handled'
  BY <1>3 DEF ProcDies, Typed, TypeOK, Handled
<1>5. faults' \in [outage : 0 .. MaxFaults, restart : 0 .. MaxFaults]
  BY FaultTyped DEF ProcDies, Typed
<1> QED  BY <1>2, <1>4, <1>5 DEF ProcDies, Typed, TypeOK, redis, ghosts

LEMMA TypedInit == Init => Typed
<1>1. Init => Handled
  BY DEF Init, Handled, NoRequest
<1> QED  BY <1>1, TypeInit DEF Typed

LEMMA TypedKept == Typed /\ [Next]_vars => Typed'
<1> SUFFICES ASSUME Typed, [Next]_vars PROVE Typed'
  OBVIOUS
<1>1. CASE Tick
  <2>1. Handled'
    BY <1>1 DEF Tick, Typed, Handled
  <2> QED  BY <1>1, <2>1, TypeTick DEF Typed
<1>2. ASSUME NEW r \in Requests, NEW p \in Posts, NEW c \in Procs, Arrive(r, p, c)
      PROVE  Typed'
  BY <1>2, TypeArrive
<1>3. ASSUME NEW r \in Requests, Step(r)
      PROVE  Typed'
  BY <1>3, TypeSetLock, TypeIncr, TypeExpire, TypeFails, TypeCounts DEF Step
<1>4. CASE LoseRedis \/ RedisReturns
  BY <1>4, TypeTrouble
<1>5. ASSUME NEW c \in Procs, ProcDies(c)
      PROVE  Typed'
  BY <1>5, TypeDies
<1>6. CASE UNCHANGED vars
  BY <1>6 DEF vars, redis, ghosts, Typed, TypeOK, Handled
<1> QED  BY <1>1, <1>2, <1>3, <1>4, <1>5, <1>6 DEF Next

LEMMA TypedAlways == Spec => []Typed
BY TypedInit, TypedKept, PTL DEF Spec

\* Every counter, key and request keeps its type, whatever fails.
THEOREM TypeCorrect == Spec => []TypeOK
<1>1. Typed => TypeOK
  BY DEF Typed
<1> QED  BY <1>1, TypedAlways, PTL

-----------------------------------------------------------------------------
(* The budget in Redis                                                     *)

LEMMA TwoKeysInit == Init => TwoKeys
<1> SUFFICES ASSUME Init PROVE TwoKeys
  OBVIOUS
<1>1. /\ spent[Window - 1] = 0 /\ budget.hits = 0 /\ budget.ttl = 0
      /\ Rising(Window - 1, spent)
  BY Zeros, Numbers DEF Init
<1> QED  BY <1>1, Numbers DEF TwoKeys, Counted

\* What Typed says of the two sides of TwoKeys.
LEMMA BudgetTyped ==
    ASSUME Typed
    PROVE  /\ spent \in Counts(Window - 1) /\ Window - 1 \in Nat
           /\ \A n \in 0 .. Window - 1 : spent[n] \in Nat
           /\ budget.hits \in 0 .. Limit + 1 /\ budget.ttl \in 0 .. Window
           /\ budget = [hits |-> budget.hits, ttl |-> budget.ttl]
BY Numbers DEF Typed, TypeOK, Counts

LEMMA TwoKeysTick == Typed /\ TwoKeys /\ Tick => TwoKeys'
<1> SUFFICES ASSUME Typed, TwoKeys, Tick PROVE TwoKeys'
  OBVIOUS
<1>1. /\ spent'[0] = 0 /\ \A k \in 1 .. Window - 1 : spent'[k] = spent[k - 1]
      /\ \A k \in 0 .. Window - 1 : spent'[k] <= spent[k]
      /\ spent' \in Counts(Window - 1)
      /\ Rising(Window - 1, spent')
  BY BudgetTyped, Ageing DEF Tick, TwoKeys
<1>2. /\ \A k \in 0 .. Window - 1 : spent'[k] \in Nat /\ spent[k] \in Nat
      /\ Counted \in 0 .. Limit
  BY <1>1, BudgetTyped, Numbers DEF Counts, Counted
<1>3. CASE budget.ttl = 1
  <2>1. budget'.hits = 0 /\ budget'.ttl = 0
    BY <1>3 DEF Tick
  <2>2. spent'[Window - 1] <= Limit
    <3>1. CASE Window = 1
      BY <1>1, <3>1, Numbers
    <3>2. CASE Window # 1
      <4>1. spent'[Window - 1] = spent[Window - 2]
        BY <1>1, <3>2, Numbers
      <4>2. spent[Window - 2] <= Counted /\ Window - 2 \in 0 .. Window - 1
        BY <1>3, <3>2, Numbers DEF TwoKeys
      <4> QED  BY <1>2, <4>1, <4>2, Numbers
    <3> QED  BY <3>1, <3>2
  <2> QED  BY <1>1, <2>1, <2>2, Numbers DEF TwoKeys, Counted
<1>4. CASE budget.ttl # 1
  <2>1. /\ budget'.hits = budget.hits
        /\ budget'.ttl = IF budget.ttl = 0 THEN 0 ELSE budget.ttl - 1
    BY <1>4, BudgetTyped DEF Tick, Less
  <2>2. Counted' = Counted
    BY <2>1 DEF Counted
  <2>3. spent'[Window - 1] <= Limit + Counted'
    <3>1. Window - 1 \in 0 .. Window - 1
      BY Numbers
    <3>2. spent'[Window - 1] <= spent[Window - 1] /\ spent[Window - 1] <= Limit + Counted
      BY <1>1, <3>1 DEF TwoKeys
    <3> QED  BY <1>2, <2>2, <3>1, <3>2, Numbers
  <2>4. ASSUME budget'.ttl \in 1 .. Window - 1
        PROVE  spent'[Window - budget'.ttl - 1] <= Counted'
    <3>1. /\ budget.ttl \in 2 .. Window /\ budget'.ttl = budget.ttl - 1
      BY <2>1, <2>4, BudgetTyped, Numbers
    <3>2. CASE budget.ttl = Window
      <4>1. Window - budget'.ttl - 1 = 0
        BY <3>1, <3>2, Numbers
      <4> QED  BY <1>1, <1>2, <2>2, <4>1, Numbers
    <3>3. CASE budget.ttl # Window
      <4>1. /\ Window - budget'.ttl - 1 = Window - budget.ttl
            /\ Window - budget.ttl \in 1 .. Window - 1
        BY <3>1, <3>3, Numbers
      <4>2. spent'[Window - budget.ttl] = spent[Window - budget.ttl - 1]
        BY <1>1, <4>1
      <4>3. spent[Window - budget.ttl - 1] <= Counted
        BY <3>1, <3>3, Numbers DEF TwoKeys
      <4> QED  BY <2>2, <4>1, <4>2, <4>3
    <3> QED  BY <3>2, <3>3
  <2> QED  BY <1>1, <2>3, <2>4 DEF TwoKeys
<1> QED  BY <1>3, <1>4

LEMMA TwoKeysIncr ==
    ASSUME Typed, TwoKeys, NEW r \in Requests, Incr(r)
    PROVE  TwoKeys'
<1>1. PICK hits : hits = IF budget.hits > Limit THEN budget.hits ELSE budget.hits + 1
  OBVIOUS
<1>2. budget'.hits = hits /\ budget'.ttl = budget.ttl
  BY <1>1, BudgetTyped DEF Incr
<1>3. /\ spent' = IF hits <= Limit THEN AddNow(spent) ELSE spent
      /\ Counted' = IF hits <= Limit THEN Counted + 1 ELSE Counted
  BY <1>1, <1>2, BudgetTyped, Numbers DEF Incr, WithinLimit, Counted
<1>4. CASE hits <= Limit
  <2>1. /\ \A k \in 0 .. Window - 1 : spent'[k] = spent[k] + 1
        /\ Rising(Window - 1, spent')
    BY <1>3, <1>4, BudgetTyped, Adding DEF TwoKeys
  <2>2. Counted \in 0 .. Limit
    BY BudgetTyped, Numbers DEF Counted
  <2>3. spent'[Window - 1] <= Limit + Counted'
    <3>1. Window - 1 \in 0 .. Window - 1
      BY Numbers
    <3> QED  BY <1>3, <1>4, <2>1, <2>2, <3>1, BudgetTyped, Numbers DEF TwoKeys
  <2>4. ASSUME budget'.ttl \in 1 .. Window - 1
        PROVE  spent'[Window - budget'.ttl - 1] <= Counted'
    <3>1. Window - budget'.ttl - 1 \in 0 .. Window - 1
      BY <2>4, Numbers
    <3>2. spent[Window - budget'.ttl - 1] <= Counted
      BY <1>2, <2>4 DEF TwoKeys
    <3> QED  BY <1>3, <1>4, <2>1, <2>2, <3>1, <3>2, BudgetTyped
  <2> QED  BY <2>1, <2>3, <2>4 DEF TwoKeys
<1>5. CASE ~(hits <= Limit)
  <2>1. spent' = spent /\ Counted' = Counted
    BY <1>3, <1>5
  <2> QED  BY <1>2, <2>1 DEF TwoKeys
<1> QED  BY <1>4, <1>5

LEMMA TwoKeysExpire ==
    ASSUME Typed, TwoKeys, NEW r \in Requests, Expire(r)
    PROVE  TwoKeys'
<1>1. spent' = spent
  BY DEF Expire, ghosts
<1>2. \/ budget' = budget
      \/ budget'.hits = budget.hits /\ budget'.ttl = Window
  BY BudgetTyped DEF Expire
<1>3. budget'.hits = budget.hits
  BY <1>2
<1>4. Counted' = Counted
  BY <1>3 DEF Counted
<1>5. budget'.ttl \in 1 .. Window - 1 => budget'.ttl = budget.ttl
  BY <1>2, Numbers
<1> QED  BY <1>1, <1>4, <1>5 DEF TwoKeys

LEMMA TwoKeysKept == Typed /\ TwoKeys /\ [Next]_vars => TwoKeys'
<1> SUFFICES ASSUME Typed, TwoKeys, [Next]_vars PROVE TwoKeys'
  OBVIOUS
<1>1. ASSUME UNCHANGED <<spent, budget>> PROVE TwoKeys'
  BY <1>1 DEF TwoKeys, Counted
<1>2. CASE Tick
  BY <1>2, TwoKeysTick
<1>3. ASSUME NEW r \in Requests, Incr(r) \/ Expire(r) PROVE TwoKeys'
  BY <1>3, TwoKeysIncr, TwoKeysExpire
<1>4. ASSUME NEW r \in Requests,
             \/ \E p \in Posts, c \in Procs : Arrive(r, p, c)
             \/ SetLock(r) \/ AskTtl(r) \/ RedisFails(r) \/ FallbackRefuses(r)
             \/ FallbackCounts(r)
      PROVE  TwoKeys'
  BY <1>1, <1>4 DEF Arrive, SetLock, AskTtl, RedisFails, FallbackRefuses, FallbackCounts,
                    redis, ghosts
<1>5. CASE LoseRedis \/ RedisReturns \/ (\E c \in Procs : ProcDies(c)) \/ UNCHANGED vars
  BY <1>1, <1>5 DEF LoseRedis, RedisReturns, ProcDies, vars, redis, ghosts
<1> QED  BY <1>2, <1>3, <1>4, <1>5 DEF Next, Step

\* In no stretch of one window's length does Redis allow more than two budgets,
\* whatever requests, outages and restarts come between INCR and EXPIRE.
THEOREM RedisBudgetAlways == Spec => []RedisBudget
<1>1. Typed /\ TwoKeys => RedisBudget
  <2> SUFFICES ASSUME Typed, TwoKeys PROVE RedisBudget
    OBVIOUS
  <2>1. Counted \in 0 .. Limit /\ spent[Window - 1] \in Nat
    BY BudgetTyped, Numbers DEF Counted
  <2> QED  BY <2>1, Numbers DEF TwoKeys, RedisBudget
<1>2. Spec => [](Typed /\ TwoKeys)
  BY TypedInit, TypedKept, TwoKeysInit, TwoKeysKept, PTL DEF Spec
<1> QED  BY <1>1, <1>2, PTL

-----------------------------------------------------------------------------
(* The budget of the fallback                                              *)

LEMMA HitsTyped ==
    ASSUME Typed, NEW c \in Procs
    PROVE  /\ memory[c].hits \in Counts(Window) /\ local[c] \in Counts(Window)
           /\ \A n \in 0 .. Window : memory[c].hits[n] \in Nat /\ local[c][n] \in Nat
           /\ faults.restart \in Nat /\ Limit * faults.restart \in Nat
<1>1. memory[c].hits \in Counts(Window) /\ local[c] \in Counts(Window)
  BY MemoryTyped DEF Typed, TypeOK
<1>2. faults.restart \in Nat
  BY DEF Typed, TypeOK
<1> QED  BY <1>1, <1>2, Numbers DEF Counts

LEMMA RememberedInit == Init => Remembered
<1> SUFFICES ASSUME Init, NEW c \in Procs
             PROVE  /\ memory[c].hits[Window] <= Limit
                    /\ Rising(Window, memory[c].hits)
                    /\ \A n \in 0 .. Window :
                         local[c][n] <= memory[c].hits[n] + Limit * faults.restart
  BY DEF Remembered
<1>1. memory[c].hits = Zero(Window) /\ local[c] = Zero(Window) /\ faults.restart = 0
  BY DEF Init, NoMemory
<1>2. Rising(Window, Zero(Window)) /\ \A n \in 0 .. Window : Zero(Window)[n] = 0
  BY Zeros, Numbers
<1> QED  BY <1>1, <1>2, Numbers

LEMMA RememberedTick == Typed /\ Remembered /\ Tick => Remembered'
<1> SUFFICES ASSUME Typed, Remembered, Tick, NEW c \in Procs
             PROVE  /\ memory'[c].hits[Window] <= Limit
                    /\ Rising(Window, memory'[c].hits)
                    /\ \A n \in 0 .. Window :
                         local'[c][n] <= memory'[c].hits[n] + Limit * faults'.restart
  BY DEF Remembered
<1>1. /\ memory'[c].hits = Older(memory[c].hits) /\ local'[c] = Older(local[c])
      /\ faults' = faults
  BY DEF Tick, Aged
<1>2. PICK f, g : f = memory[c].hits /\ g = local[c]
  OBVIOUS
<1>3. f \in Counts(Window) /\ g \in Counts(Window) /\ Rising(Window, f) /\ f[Window] <= Limit
  BY <1>2, HitsTyped DEF Remembered
<1>4. /\ Older(f) \in Counts(Window) /\ Older(f)[0] = 0 /\ Older(g)[0] = 0
      /\ \A k \in 1 .. Window : Older(f)[k] = f[k - 1]
      /\ \A k \in 1 .. Window : Older(g)[k] = g[k - 1]
      /\ Rising(Window, Older(f)) /\ \A k \in 0 .. Window : Older(f)[k] <= f[k]
  BY <1>3, Ageing, Numbers
<1>5. Older(f)[Window] <= Limit
  <2>1. Window \in 0 .. Window
    BY Numbers
  <2>2. f[Window] \in Nat /\ Older(f)[Window] \in Nat /\ Older(f)[Window] <= f[Window]
    BY <1>3, <1>4, <2>1 DEF Counts
  <2> QED  BY <1>3, <2>2, Numbers
<1>6. ASSUME NEW n \in 0 .. Window
      PROVE  Older(g)[n] <= Older(f)[n] + Limit * faults.restart
  <2>1. CASE n = 0
    BY <1>4, <2>1, HitsTyped
  <2>2. CASE n # 0
    <3>1. n \in 1 .. Window /\ n - 1 \in 0 .. Window
      BY <2>2, Numbers
    <3>2. g[n - 1] <= f[n - 1] + Limit * faults.restart
      BY <1>2, <3>1 DEF Remembered
    <3> QED  BY <1>4, <3>1, <3>2
  <2> QED  BY <2>1, <2>2
<1> QED  BY <1>1, <1>2, <1>4, <1>5, <1>6

LEMMA RememberedCounts ==
    ASSUME Typed, Remembered, NEW r \in Requests, FallbackCounts(r)
    PROVE  Remembered'
<1>1. PICK c \in Procs :
        /\ memory' \in [Procs -> Memory]
        /\ local' \in [Procs -> Counts(Window)]
        /\ \A d \in Procs \ {c} : memory'[d] = memory[d] /\ local'[d] = local[d]
        /\ \/ memory'[c].hits = memory[c].hits /\ local' = local
           \/ /\ memory[c].hits[Window] < Limit
              /\ memory'[c].hits = AddNow(memory[c].hits)
              /\ local'[c] = AddNow(local[c])
  BY Counting
<1>2. faults' = faults
  BY DEF FallbackCounts
<1>3. CASE memory'[c].hits = memory[c].hits /\ local' = local
  BY <1>1, <1>2, <1>3 DEF Remembered
<1>4. CASE /\ memory[c].hits[Window] < Limit
           /\ memory'[c].hits = AddNow(memory[c].hits)
           /\ local'[c] = AddNow(local[c])
  <2>1. PICK f, g : f = memory[c].hits /\ g = local[c]
    OBVIOUS
  <2>2. /\ f \in Counts(Window) /\ g \in Counts(Window)
        /\ \A n \in 0 .. Window : f[n] \in Nat /\ g[n] \in Nat
        /\ Limit * faults.restart \in Nat
    BY <2>1, HitsTyped
  <2>3. /\ \A n \in 0 .. Window : AddNow(f)[n] = f[n] + 1
        /\ \A n \in 0 .. Window : AddNow(g)[n] = g[n] + 1
        /\ Rising(Window, AddNow(f))
    BY <2>1, <2>2, Adding, Numbers DEF Remembered
  <2>4. AddNow(f)[Window] <= Limit
    <3>1. Window \in 0 .. Window
      BY Numbers
    <3> QED  BY <1>4, <2>1, <2>2, <2>3, <3>1, Numbers
  <2>5. \A n \in 0 .. Window : AddNow(g)[n] <= AddNow(f)[n] + Limit * faults.restart
    <3>1. \A n \in 0 .. Window : g[n] <= f[n] + Limit * faults.restart
      BY <2>1 DEF Remembered
    <3>2. PICK k \in Nat : k = Limit * faults.restart
      BY <2>2
    <3> QED  BY <2>2, <2>3, <3>1, <3>2
  <2> QED  BY <1>1, <1>2, <1>4, <2>1, <2>3, <2>4, <2>5 DEF Remembered
<1> QED  BY <1>1, <1>3, <1>4

LEMMA RememberedDies ==
    ASSUME Typed, Remembered, NEW d \in Procs, ProcDies(d)
    PROVE  Remembered'
<1> SUFFICES ASSUME NEW c \in Procs
             PROVE  /\ memory'[c].hits[Window] <= Limit
                    /\ Rising(Window, memory'[c].hits)
                    /\ \A n \in 0 .. Window :
                         local'[c][n] <= memory'[c].hits[n] + Limit * faults'.restart
  BY DEF Remembered
<1>1. faults'.restart = faults.restart + 1
  BY FaultTyped DEF ProcDies, Typed, TypeOK
<1>2. PICK k \in Nat : k = Limit * faults.restart
  BY HitsTyped
<1>3. Limit * faults'.restart = k + Limit
  BY <1>1, <1>2, HitsTyped, Numbers
<1>4. /\ \A n \in 0 .. Window : memory[c].hits[n] \in Nat /\ local[c][n] \in Nat
      /\ \A n \in 0 .. Window : local[c][n] <= memory[c].hits[n] + k
      /\ Rising(Window, memory[c].hits) /\ memory[c].hits[Window] <= Limit
      /\ Window \in 0 .. Window
  BY <1>2, HitsTyped, Numbers DEF Remembered
<1>5. local' = local
  BY DEF ProcDies, ghosts
<1>6. CASE c = d
  <2>1. memory'[c].hits = Zero(Window)
    BY <1>6 DEF ProcDies, NoMemory, Typed, TypeOK
  <2>2. Rising(Window, Zero(Window)) /\ \A n \in 0 .. Window : Zero(Window)[n] = 0
    BY Zeros, Numbers
  <2>3. \A n \in 0 .. Window : memory[c].hits[n] <= memory[c].hits[Window]
    BY <1>4, Numbers DEF Rising
  <2>4. \A n \in 0 .. Window : local[c][n] <= k + Limit
    BY <1>4, <2>3, Numbers
  <2> QED  BY <1>3, <1>4, <1>5, <2>1, <2>2, <2>4, Numbers
<1>7. CASE c # d
  <2>1. memory'[c] = memory[c]
    BY <1>7 DEF ProcDies, Typed, TypeOK
  <2>2. \A n \in 0 .. Window : local[c][n] <= memory[c].hits[n] + (k + Limit)
    BY <1>4, Numbers
  <2> QED  BY <1>3, <1>4, <1>5, <2>1, <2>2
<1> QED  BY <1>6, <1>7

LEMMA RememberedKept == Typed /\ Remembered /\ [Next]_vars => Remembered'
<1> SUFFICES ASSUME Typed, Remembered, [Next]_vars PROVE Remembered'
  OBVIOUS
<1>1. ASSUME UNCHANGED <<memory, local>>, faults'.restart = faults.restart PROVE Remembered'
  BY <1>1 DEF Remembered
<1>2. ASSUME UNCHANGED <<memory, local>>, Outage \/ UNCHANGED faults PROVE Remembered'
  <2>1. Outage => faults'.restart = faults.restart
    BY FaultTyped DEF Outage, Typed, TypeOK
  <2> QED  BY <1>1, <1>2, <2>1
<1>3. CASE Tick
  BY <1>3, RememberedTick
<1>4. ASSUME NEW r \in Requests, FallbackCounts(r) PROVE Remembered'
  BY <1>4, RememberedCounts
<1>5. ASSUME NEW r \in Requests, SetLock(r) \/ Incr(r) \/ Expire(r) \/ AskTtl(r)
      PROVE  Remembered'
  BY <1>2, <1>5 DEF SetLock, Incr, Expire, AskTtl, Replies, redis, ghosts
<1>6. ASSUME NEW r \in Requests,
             \/ \E p \in Posts, c \in Procs : Arrive(r, p, c)
             \/ RedisFails(r) \/ FallbackRefuses(r)
      PROVE  Remembered'
  BY <1>2, <1>6 DEF Arrive, RedisFails, FallbackRefuses, ghosts
<1>7. CASE LoseRedis \/ RedisReturns \/ UNCHANGED vars
  BY <1>2, <1>7 DEF LoseRedis, RedisReturns, vars, ghosts
<1>8. ASSUME NEW c \in Procs, ProcDies(c) PROVE Remembered'
  BY <1>8, RememberedDies
<1> QED  BY <1>3, <1>4, <1>5, <1>6, <1>7, <1>8 DEF Next, Step

\* The fallback of a process allows one budget in a window, and one more for
\* every restart: refusals, outages and ageing hits never let one more through.
THEOREM FallbackBudgetAlways == Spec => []FallbackBudget
<1>1. Typed /\ Remembered => FallbackBudget
  <2> SUFFICES ASSUME Typed, Remembered, NEW c \in Procs
               PROVE  local[c][Window] <= Limit * (1 + faults.restart)
    BY DEF FallbackBudget
  <2>1. PICK k \in Nat : k = Limit * faults.restart
    BY HitsTyped
  <2>2. Limit * (1 + faults.restart) = Limit + k
    BY <2>1, HitsTyped, Numbers
  <2>3. Window \in 0 .. Window
    BY Numbers
  <2>4. /\ local[c][Window] \in Nat /\ memory[c].hits[Window] \in Nat
        /\ local[c][Window] <= memory[c].hits[Window] + k
        /\ memory[c].hits[Window] <= Limit
    BY <2>1, <2>3, HitsTyped DEF Remembered
  <2> QED  BY <2>2, <2>4, Numbers
<1>2. Spec => [](Typed /\ Remembered)
  BY TypedInit, TypedKept, RememberedInit, RememberedKept, PTL DEF Spec
<1> QED  BY <1>1, <1>2, PTL

-----------------------------------------------------------------------------
(* The cooldown                                                            *)

LEMMA GoesOn ==
    ASSUME Typed, NEW r \in Requests, NEW pc \in Stages, Goes(r, pc)
    PROVE  /\ request'[r].pc = pc
           /\ \A x \in Requests \ {r} : request'[x] = request[x]
<1>1. request[r] \in RequestState /\ request \in [Requests -> RequestState]
  BY DEF Typed, TypeOK
<1>2. request'[r] = IF pc = "idle" THEN NoRequest ELSE [request[r] EXCEPT !.pc = pc]
  BY <1>1 DEF Goes, Done
<1>3. request'[r].pc = pc
  BY <1>1, <1>2 DEF NoRequest, RequestState
<1> QED  BY <1>1, <1>3 DEF Goes

LEMMA OutageCounted ==
    ASSUME Typed, Outage
    PROVE  /\ faults'.outage = faults.outage + 1 /\ faults'.restart = faults.restart
           /\ faults.outage \in Nat /\ faults.restart \in Nat
<1>1. faults' = [faults EXCEPT !["outage"] = faults["outage"] + 1]
  BY FaultTyped DEF Outage, Typed
<1> QED  BY <1>1 DEF Typed, TypeOK

LEMMA RestartCounted ==
    ASSUME Typed, NEW c \in Procs, ProcDies(c)
    PROVE  /\ faults'.outage = faults.outage /\ faults'.restart = faults.restart + 1
           /\ faults.outage \in Nat /\ faults.restart \in Nat
<1>1. faults' = [faults EXCEPT !["restart"] = faults["restart"] + 1]
  BY FaultTyped DEF ProcDies, Typed
<1> QED  BY <1>1 DEF Typed, TypeOK

\* Faults are counted and never forgotten.
LEMMA FaultsGrow ==
    ASSUME Typed, [Next]_vars
    PROVE  \/ UNCHANGED faults
           \/ Outage
           \/ \E c \in Procs : ProcDies(c)
<1>1. ASSUME NEW r \in Requests, Step(r) PROVE UNCHANGED faults \/ Outage
  BY <1>1 DEF Step, SetLock, Incr, Expire, AskTtl, RedisFails, FallbackRefuses, FallbackCounts,
              Replies
<1>2. ASSUME NEW r \in Requests, NEW p \in Posts, NEW c \in Procs, Arrive(r, p, c)
      PROVE  UNCHANGED faults
  BY <1>2 DEF Arrive
<1>3. CASE Tick \/ RedisReturns \/ LoseRedis \/ UNCHANGED vars
  BY <1>3 DEF Tick, RedisReturns, LoseRedis, vars
<1> QED  BY <1>1, <1>2, <1>3 DEF Next

LEMMA UndisturbedInit == Init => Undisturbed
BY DEF Init, Undisturbed, NoRequest, NoMemory

LEMMA UndisturbedReplies ==
    ASSUME Typed, Undisturbed, faults'.outage = 0, UNCHANGED memory,
           NEW r \in Requests, NEW pc \in Stages \ {"fallback"}, Replies(r, pc)
    PROVE  Undisturbed'
<1>1. Goes(r, pc) /\ UNCHANGED <<up, faults>>
  BY OutageCounted DEF Replies
<1>2. request'[r].pc = pc /\ \A x \in Requests \ {r} : request'[x] = request[x]
  BY <1>1, GoesOn
<1> QED  BY <1>1, <1>2 DEF Undisturbed

LEMMA UndisturbedKept == Typed /\ Undisturbed /\ [Next]_vars => Undisturbed'
<1> SUFFICES ASSUME Typed, Undisturbed, [Next]_vars, faults'.outage = 0 PROVE Undisturbed'
  BY DEF Undisturbed
<1>1. faults.outage = 0 /\ ~Outage
  BY FaultsGrow, OutageCounted, RestartCounted
<1>2. /\ up
      /\ \A r \in Requests : request[r].pc # "fallback"
      /\ \A c \in Procs, p \in Posts : memory[c].cool[p] = 0
  BY <1>1 DEF Undisturbed
<1>3. CASE Tick
  <2>1. \A c \in Procs, p \in Posts : memory'[c].cool[p] = Less(memory[c].cool[p])
    BY <1>3 DEF Tick
  <2> QED  BY <1>2, <1>3, <2>1 DEF Tick, Less, Undisturbed
<1>4. ASSUME NEW r \in Requests, NEW p \in Posts, NEW c \in Procs, Arrive(r, p, c)
      PROVE  Undisturbed'
  <2>1. /\ UNCHANGED <<up, memory>>
        /\ request' = [request EXCEPT ![r] = [pc |-> "set", post |-> p, proc |-> c]]
    BY <1>4 DEF Arrive
  <2> QED  BY <1>2, <2>1 DEF Undisturbed, Typed, TypeOK
<1>5. ASSUME NEW r \in Requests, Step(r) PROVE Undisturbed'
  <2>1. CASE SetLock(r)
    BY <1>1, <2>1, UndisturbedReplies DEF SetLock, Stages
  <2>2. CASE Incr(r)
    <3>1. PICK pc \in {"expire", "idle", "ttl"} : Replies(r, pc)
      BY <2>2 DEF Incr
    <3> QED  BY <2>2, <3>1, UndisturbedReplies DEF Incr, Stages
  <2>3. CASE Expire(r) \/ AskTtl(r)
    BY <2>3, UndisturbedReplies DEF Expire, AskTtl, Stages
  <2> QED  BY <1>2, <1>5, <2>1, <2>2, <2>3 DEF Step, RedisFails, FallbackRefuses, FallbackCounts
<1>6. ASSUME NEW c \in Procs, ProcDies(c) PROVE Undisturbed'
  <2>1. /\ up' = up
        /\ memory' = [memory EXCEPT ![c] = NoMemory]
        /\ request' = [r \in Requests |-> IF request[r].proc = c THEN NoRequest ELSE request[r]]
    BY <1>6 DEF ProcDies
  <2>2. \A d \in Procs, p \in Posts : memory'[d].cool[p] = 0
    BY <1>2, <2>1 DEF NoMemory, Typed, TypeOK
  <2> QED  BY <1>2, <2>1, <2>2 DEF Undisturbed, NoRequest
<1>7. CASE LoseRedis \/ RedisReturns \/ UNCHANGED vars
  BY <1>1, <1>2, <1>7 DEF LoseRedis, RedisReturns, Undisturbed, vars
<1> QED  BY <1>3, <1>4, <1>5, <1>6, <1>7 DEF Next

LEMMA CoolingFinite ==
    ASSUME Typed, NEW p \in Posts, NEW n \in 0 .. Cooldown - 1
    PROVE  /\ IsFiniteSet(Cooling(p, n)) /\ Cardinality(Cooling(p, n)) \in Nat
           /\ Cardinality(Cooling(p, n)) <= Cardinality(Procs) /\ Cardinality(Procs) \in Nat
           /\ Locked(p, n) \in {0, 1}
<1>1. IsFiniteSet(Procs) /\ Cooling(p, n) \subseteq Procs
  BY LimiterAssumption DEF Cooling
<1> QED  BY <1>1, FS_Subset, FS_CardinalityType DEF Locked

LEMMA PassesTyped ==
    ASSUME Typed, NEW p \in Posts
    PROVE  /\ Cooldown - 1 \in Nat
           /\ passed[p] \in Counts(Cooldown - 1)
           /\ \A n \in 0 .. Cooldown - 1 : passed[p][n] \in Nat
           /\ lock[p] \in 0 .. Cooldown
           /\ \A c \in Procs : memory[c].cool[p] \in 0 .. Cooldown
           /\ faults.outage \in Nat /\ faults.restart \in Nat
<1>1. \A c \in Procs : memory[c].cool[p] \in 0 .. Cooldown
  BY MemoryTyped DEF Typed
<1>2. Cooldown - 1 \in Nat
  BY Numbers
<1> QED  BY <1>1, <1>2 DEF Typed, TypeOK, Counts

LEMMA PassesInit == Init => Passes
<1> SUFFICES ASSUME Init, NEW p \in Posts, NEW n \in 0 .. Cooldown - 1
             PROVE  passed[p][n] <= Locked(p, n) + Cardinality(Cooling(p, n))
                                      + IF faults.outage = 0 THEN 0 ELSE faults.restart
  BY DEF Passes
<1>1. passed[p][n] = 0 /\ faults.outage = 0
  BY Zeros, Numbers DEF Init
<1>2. Cardinality(Cooling(p, n)) \in Nat /\ Locked(p, n) \in {0, 1}
  BY TypedInit, CoolingFinite
<1> QED  BY <1>1, <1>2

\* A step that starts no cooldown and lets nobody pass.
LEMMA PassesIdle ==
    ASSUME Typed, Passes, UNCHANGED <<lock, memory, passed>>, Outage \/ UNCHANGED faults
    PROVE  Passes'
<1> SUFFICES ASSUME NEW p \in Posts, NEW n \in 0 .. Cooldown - 1
             PROVE  (passed[p][n] <= Locked(p, n) + Cardinality(Cooling(p, n))
                                       + IF faults.outage = 0 THEN 0 ELSE faults.restart)'
  BY DEF Passes
<1>1. /\ passed'[p][n] = passed[p][n] /\ Locked(p, n)' = Locked(p, n)
      /\ Cooling(p, n)' = Cooling(p, n)
  BY DEF Locked, Cooling
<1>2. /\ passed[p][n] <= Locked(p, n) + Cardinality(Cooling(p, n))
                           + IF faults.outage = 0 THEN 0 ELSE faults.restart
      /\ passed[p][n] \in Nat /\ Locked(p, n) \in {0, 1}
      /\ Cardinality(Cooling(p, n)) \in Nat
      /\ faults.outage \in Nat /\ faults.restart \in Nat
  BY PassesTyped, CoolingFinite DEF Passes
<1>3. \/ faults' = faults
      \/ faults'.outage = faults.outage + 1 /\ faults'.restart = faults.restart
  BY OutageCounted
<1> QED  BY <1>1, <1>2, <1>3

LEMMA PassesTick ==
    ASSUME Typed, Passes, Tick
    PROVE  Passes'
<1> SUFFICES ASSUME NEW p \in Posts, NEW n \in 0 .. Cooldown - 1
             PROVE  (passed[p][n] <= Locked(p, n) + Cardinality(Cooling(p, n))
                                       + IF faults.outage = 0 THEN 0 ELSE faults.restart)'
  BY DEF Passes
<1>1. /\ faults' = faults /\ lock'[p] = Less(lock[p])
      /\ \A c \in Procs : memory'[c].cool[p] = Less(memory[c].cool[p])
  BY DEF Tick
<1>2. /\ passed'[p][0] = 0
      /\ \A k \in 1 .. Cooldown - 1 : passed'[p][k] = passed[p][k - 1]
  BY PassesTyped, Ageing DEF Tick
<1>3. Cooling(p, n)' = {c \in Procs : memory'[c].cool[p] + n >= Cooldown}
  BY DEF Cooling
<1>4. Locked(p, n)' = IF lock'[p] + n >= Cooldown THEN 1 ELSE 0
  BY DEF Locked
<1>5. CASE n = 0
  <2>1. IsFiniteSet(Procs) /\ Cooling(p, n)' \subseteq Procs
    BY <1>3, LimiterAssumption
  <2>2. Cardinality(Cooling(p, n)') \in Nat
    BY <2>1, FS_Subset, FS_CardinalityType
  <2>3. Cardinality(Cooling(p, n))' \in Nat
    BY <2>2
  <2> QED  BY <1>1, <1>2, <1>4, <1>5, <2>3, PassesTyped
<1>6. CASE n # 0
  <2>1. n - 1 \in 0 .. Cooldown - 1 /\ n \in 1 .. Cooldown - 1 /\ n <= Cooldown - 1
    BY <1>6, Numbers
  <2>2. Locked(p, n)' = Locked(p, n - 1)
    BY <1>1, <1>4, <2>1, PassesTyped, Numbers DEF Locked, Less
  <2>3. Cooling(p, n)' = Cooling(p, n - 1)
    <3>1. ASSUME NEW c \in Procs
          PROVE  memory'[c].cool[p] + n >= Cooldown <=> memory[c].cool[p] + (n - 1) >= Cooldown
      BY <1>1, <2>1, PassesTyped, Numbers DEF Less
    <3> QED  BY <1>3, <3>1 DEF Cooling
  <2>4. passed[p][n - 1] <= Locked(p, n - 1) + Cardinality(Cooling(p, n - 1))
                              + IF faults.outage = 0 THEN 0 ELSE faults.restart
    BY <2>1 DEF Passes
  <2> QED  BY <1>1, <1>2, <2>1, <2>2, <2>3, <2>4
<1> QED  BY <1>5, <1>6

LEMMA PassesSetLock ==
    ASSUME Typed, Passes, NEW r \in Requests, SetLock(r)
    PROVE  Passes'
<1>1. PICK p \in Posts : p = request[r].post
  BY DEF SetLock, Typed, Handled
<1>2. memory' = memory /\ (Outage \/ UNCHANGED faults)
  BY DEF SetLock, Replies
<1>3. CASE UNCHANGED <<lock, passed>>
  BY <1>2, <1>3, PassesIdle
<1>4. CASE ~UNCHANGED <<lock, passed>>
  <2>1. /\ lock[p] = 0
        /\ lock' = [lock EXCEPT ![p] = Cooldown]
        /\ passed' = [passed EXCEPT ![p] = AddNow(passed[p])]
    BY <1>1, <1>4 DEF SetLock, Unlocked
  <2> SUFFICES ASSUME NEW q \in Posts, NEW n \in 0 .. Cooldown - 1
               PROVE  (passed[q][n] <= Locked(q, n) + Cardinality(Cooling(q, n))
                                         + IF faults.outage = 0 THEN 0 ELSE faults.restart)'
    BY DEF Passes
  <2>2. Cooling(q, n)' = Cooling(q, n)
    BY <1>2 DEF Cooling
  <2>3. passed'[q][n] - Locked(q, n)' <= passed[q][n] - Locked(q, n)
    <3>1. CASE q = p
      <4>1. lock'[q] = Cooldown /\ passed'[q] = AddNow(passed[q])
        BY <2>1, <3>1 DEF Typed, TypeOK
      <4>2. passed'[q][n] = passed[q][n] + 1
        BY <4>1, PassesTyped, Adding
      <4>3. Locked(q, n) = 0 /\ Locked(q, n)' = 1
        BY <2>1, <3>1, <4>1, Numbers DEF Locked
      <4> QED  BY <4>2, <4>3, PassesTyped
    <3>2. CASE q # p
      <4>1. lock'[q] = lock[q] /\ passed'[q] = passed[q]
        BY <2>1, <3>2 DEF Typed, TypeOK
      <4>2. Locked(q, n)' = Locked(q, n)
        BY <4>1 DEF Locked
      <4> QED  BY <4>1, <4>2, PassesTyped, CoolingFinite
    <3> QED  BY <3>1, <3>2
  <2>4. passed'[q][n] \in Nat /\ Locked(q, n)' \in {0, 1}
    <3>1. passed'[q] = AddNow(passed[q]) \/ passed'[q] = passed[q]
      BY <2>1 DEF Typed, TypeOK
    <3> QED  BY <3>1, PassesTyped, Adding DEF Locked
  <2>5. /\ passed[q][n] <= Locked(q, n) + Cardinality(Cooling(q, n))
                             + IF faults.outage = 0 THEN 0 ELSE faults.restart
        /\ passed[q][n] \in Nat /\ Locked(q, n) \in {0, 1}
        /\ Cardinality(Cooling(q, n)) \in Nat
        /\ faults.outage \in Nat /\ faults.restart \in Nat
    BY PassesTyped, CoolingFinite DEF Passes
  <2>6. \/ faults' = faults
        \/ faults'.outage = faults.outage + 1 /\ faults'.restart = faults.restart
    BY <1>2, OutageCounted
  <2> QED  BY <2>2, <2>3, <2>4, <2>5, <2>6
<1> QED  BY <1>3, <1>4

LEMMA PassesCounts ==
    ASSUME Typed, Passes, NEW r \in Requests, FallbackCounts(r)
    PROVE  Passes'
<1>1. PICK p \in Posts, c \in Procs :
        /\ memory[c].cool[p] = 0
        /\ passed' = [passed EXCEPT ![p] = AddNow(passed[p])]
        /\ memory'[c].cool = [memory[c].cool EXCEPT ![p] = Cooldown]
        /\ \A d \in Procs \ {c} : memory'[d] = memory[d]
  BY Counting
<1>2. lock' = lock /\ faults' = faults
  BY DEF FallbackCounts, redis
<1> SUFFICES ASSUME NEW q \in Posts, NEW n \in 0 .. Cooldown - 1
             PROVE  (passed[q][n] <= Locked(q, n) + Cardinality(Cooling(q, n))
                                       + IF faults.outage = 0 THEN 0 ELSE faults.restart)'
  BY DEF Passes
<1>3. /\ passed[q][n] <= Locked(q, n) + Cardinality(Cooling(q, n))
                           + IF faults.outage = 0 THEN 0 ELSE faults.restart
      /\ passed[q][n] \in Nat /\ Locked(q, n) \in {0, 1}
      /\ IsFiniteSet(Cooling(q, n)) /\ Cardinality(Cooling(q, n)) \in Nat
      /\ faults.outage \in Nat /\ faults.restart \in Nat
  BY PassesTyped, CoolingFinite DEF Passes
<1>4. Locked(q, n)' = Locked(q, n)
  BY <1>2 DEF Locked
<1>5. CASE q = p
  <2>1. passed'[q][n] = passed[q][n] + 1
    <3>1. passed'[q] = AddNow(passed[q])
      BY <1>1, <1>5 DEF Typed, TypeOK
    <3> QED  BY <3>1, PassesTyped, Adding
  <2>2. Cooling(q, n)' = Cooling(q, n) \cup {c} /\ c \notin Cooling(q, n)
    <3>1. memory'[c].cool[q] = Cooldown
      BY <1>1, <1>5, MemoryTyped DEF Typed
    <3> QED  BY <1>1, <1>5, <3>1, Numbers DEF Cooling
  <2>3. Cardinality(Cooling(q, n) \cup {c}) = Cardinality(Cooling(q, n)) + 1
    BY <1>3, <2>2, FS_AddElement
  <2> QED  BY <1>2, <1>3, <1>4, <2>1, <2>2, <2>3
<1>6. CASE q # p
  <2>1. passed'[q][n] = passed[q][n]
    BY <1>1, <1>6 DEF Typed, TypeOK
  <2>2. Cooling(q, n)' = Cooling(q, n)
    <3>1. memory'[c].cool[q] = memory[c].cool[q]
      BY <1>1, <1>6, MemoryTyped DEF Typed
    <3> QED  BY <1>1, <3>1 DEF Cooling
  <2> QED  BY <1>2, <1>3, <1>4, <2>1, <2>2
<1> QED  BY <1>5, <1>6

LEMMA PassesDies ==
    ASSUME Typed, Undisturbed, Passes, NEW c \in Procs, ProcDies(c)
    PROVE  Passes'
<1>1. /\ lock' = lock /\ passed' = passed
      /\ memory' = [memory EXCEPT ![c] = NoMemory]
  BY DEF ProcDies, redis, ghosts
<1>2. faults'.outage = faults.outage /\ faults'.restart = faults.restart + 1
  BY RestartCounted
<1> SUFFICES ASSUME NEW q \in Posts, NEW n \in 0 .. Cooldown - 1
             PROVE  (passed[q][n] <= Locked(q, n) + Cardinality(Cooling(q, n))
                                       + IF faults.outage = 0 THEN 0 ELSE faults.restart)'
  BY DEF Passes
<1>3. /\ passed[q][n] <= Locked(q, n) + Cardinality(Cooling(q, n))
                           + IF faults.outage = 0 THEN 0 ELSE faults.restart
      /\ passed[q][n] \in Nat /\ Locked(q, n) \in {0, 1}
      /\ IsFiniteSet(Cooling(q, n)) /\ Cardinality(Cooling(q, n)) \in Nat
      /\ faults.outage \in Nat /\ faults.restart \in Nat
  BY PassesTyped, CoolingFinite DEF Passes
<1>4. Locked(q, n)' = Locked(q, n) /\ passed'[q][n] = passed[q][n]
  BY <1>1 DEF Locked
<1>5. Cooling(q, n)' = Cooling(q, n) \ {c}
  <2>1. memory'[c].cool[q] = 0 /\ \A d \in Procs \ {c} : memory'[d] = memory[d]
    BY <1>1 DEF NoMemory, Typed, TypeOK
  <2> QED  BY <2>1, Numbers DEF Cooling
<1>6. CASE c \notin Cooling(q, n)
  <2>1. Cooling(q, n)' = Cooling(q, n)
    BY <1>5, <1>6
  <2> QED  BY <1>2, <1>3, <1>4, <2>1
<1>7. CASE c \in Cooling(q, n)
  <2>1. faults.outage # 0
    BY <1>7, Numbers DEF Cooling, Undisturbed
  <2>2. /\ Cardinality(Cooling(q, n) \ {c}) = Cardinality(Cooling(q, n)) - 1
        /\ Cardinality(Cooling(q, n) \ {c}) \in Nat
    BY <1>3, <1>7, FS_RemoveElement, FS_CardinalityType
  <2> QED  BY <1>2, <1>3, <1>4, <1>5, <2>1, <2>2
<1> QED  BY <1>6, <1>7

LEMMA PassesKept == Typed /\ Undisturbed /\ Passes /\ [Next]_vars => Passes'
<1> SUFFICES ASSUME Typed, Undisturbed, Passes, [Next]_vars PROVE Passes'
  OBVIOUS
<1>1. CASE Tick
  BY <1>1, PassesTick
<1>2. ASSUME NEW r \in Requests, SetLock(r) \/ FallbackCounts(r) PROVE Passes'
  BY <1>2, PassesSetLock, PassesCounts
<1>3. ASSUME NEW r \in Requests, Incr(r) \/ Expire(r) \/ AskTtl(r) PROVE Passes'
  BY <1>3, PassesIdle DEF Incr, Expire, AskTtl, Replies, redis, ghosts
<1>4. ASSUME NEW r \in Requests,
             \/ \E p \in Posts, c \in Procs : Arrive(r, p, c)
             \/ RedisFails(r) \/ FallbackRefuses(r)
      PROVE  Passes'
  BY <1>4, PassesIdle DEF Arrive, RedisFails, FallbackRefuses, redis, ghosts
<1>5. CASE LoseRedis \/ RedisReturns \/ UNCHANGED vars
  BY <1>5, PassesIdle DEF LoseRedis, RedisReturns, vars, redis, ghosts
<1>6. ASSUME NEW c \in Procs, ProcDies(c) PROVE Passes'
  BY <1>6, PassesDies
<1> QED  BY <1>1, <1>2, <1>3, <1>4, <1>5, <1>6 DEF Next, Step

\* Within one cooldown a post is refreshed once; an outage is worth one more in
\* each process, however often Redis comes and goes, and a restart one more.
THEOREM CooldownHoldsAlways == Spec => []CooldownHolds
<1>1. Typed /\ Undisturbed /\ Passes => CooldownHolds
  <2> SUFFICES ASSUME Typed, Undisturbed, Passes, NEW p \in Posts
               PROVE  passed[p][Cooldown - 1] <=
                        1 + IF faults.outage = 0 THEN 0
                            ELSE Cardinality(Procs) + faults.restart
    BY DEF CooldownHolds
  <2>1. PICK n \in 0 .. Cooldown - 1 : n = Cooldown - 1
    BY Numbers
  <2>2. /\ passed[p][n] <= Locked(p, n) + Cardinality(Cooling(p, n))
                             + IF faults.outage = 0 THEN 0 ELSE faults.restart
        /\ passed[p][n] \in Nat /\ Locked(p, n) \in {0, 1}
        /\ Cardinality(Cooling(p, n)) \in Nat
        /\ Cardinality(Cooling(p, n)) <= Cardinality(Procs) /\ Cardinality(Procs) \in Nat
        /\ faults.outage \in Nat /\ faults.restart \in Nat
    BY PassesTyped, CoolingFinite DEF Passes
  <2>3. faults.outage = 0 => Cardinality(Cooling(p, n)) = 0
    <3>1. faults.outage = 0 => Cooling(p, n) = {}
      BY Numbers DEF Undisturbed, Cooling
    <3> QED  BY <3>1, FS_EmptySet
  <2> QED  BY <2>1, <2>2, <2>3
<1>2. Spec => [](Typed /\ Undisturbed /\ Passes)
  BY TypedInit, TypedKept, UndisturbedInit, UndisturbedKept, PassesInit, PassesKept, PTL DEF Spec
<1> QED  BY <1>1, <1>2, PTL

-----------------------------------------------------------------------------
(* The budget key that nobody gives a TTL                                  *)

LEMMA SetByFirstInit == Init => SetByFirst
BY DEF Init, SetByFirst

LEMMA SetByFirstKept == Typed /\ Undisturbed /\ SetByFirst /\ [Next]_vars => SetByFirst'
<1> SUFFICES ASSUME Typed, Undisturbed, SetByFirst, [Next]_vars, Faults' = 0 PROVE SetByFirst'
  BY DEF SetByFirst
<1>1. UNCHANGED faults /\ ~Outage /\ Faults = 0
  <2>1. faults.outage \in Nat /\ faults.restart \in Nat
    BY DEF Typed, TypeOK
  <2>2. ~Outage
    BY <2>1, OutageCounted DEF Faults
  <2>3. \A c \in Procs : ~ProcDies(c)
    BY <2>1, RestartCounted DEF Faults
  <2> QED  BY <2>2, <2>3, FaultsGrow DEF Faults
<1>2. /\ up
      /\ budget.hits > 0 /\ budget.ttl = 0 => \E r \in Requests : request[r].pc = "expire"
  BY <1>1 DEF SetByFirst
<1>3. \A r \in Requests : request[r].pc # "fallback"
  BY <1>1 DEF Undisturbed, Faults, Typed, TypeOK
<1>4. ASSUME NEW r \in Requests, NEW pc \in Stages, Replies(r, pc)
      PROVE  /\ up' = up /\ request'[r].pc = pc
             /\ \A x \in Requests \ {r} : request'[x] = request[x]
  BY <1>1, <1>4, GoesOn DEF Replies
<1>5. CASE Tick
  <2>1. budget'.hits > 0 /\ budget'.ttl = 0 => budget.hits > 0 /\ budget.ttl = 0
    BY <1>5, BudgetTyped DEF Tick, Less
  <2> QED  BY <1>2, <1>5, <2>1 DEF Tick, SetByFirst
<1>6. ASSUME NEW r \in Requests, NEW p \in Posts, NEW c \in Procs, Arrive(r, p, c)
      PROVE  SetByFirst'
  <2>1. /\ UNCHANGED <<up, budget>> /\ request[r].pc = "idle"
        /\ \A x \in Requests \ {r} : request'[x] = request[x]
    BY <1>6 DEF Arrive, redis, Typed, TypeOK
  <2> QED  BY <1>2, <2>1 DEF SetByFirst
<1>7. ASSUME NEW r \in Requests, SetLock(r) \/ AskTtl(r) PROVE SetByFirst'
  <2>1. /\ budget' = budget /\ request[r].pc # "expire"
        /\ \E pc \in Stages : Replies(r, pc)
    BY <1>7 DEF SetLock, AskTtl, redis, Stages
  <2>2. up' = up /\ \A x \in Requests \ {r} : request'[x] = request[x]
    BY <1>4, <2>1
  <2> QED  BY <1>2, <2>1, <2>2 DEF SetByFirst
<1>8. ASSUME NEW r \in Requests, Incr(r) PROVE SetByFirst'
  <2>1. PICK hits : hits = IF budget.hits > Limit THEN budget.hits ELSE budget.hits + 1
    OBVIOUS
  <2>2. /\ request[r].pc = "incr" /\ budget'.ttl = budget.ttl
        /\ \E pc \in Stages : Replies(r, pc)
        /\ hits = 1 => Replies(r, "expire")
    <3>1. PICK pc \in {"expire", "idle", "ttl"} :
            pc = CASE NeedsExpiry(hits) -> "expire"
                   [] ~NeedsExpiry(hits) /\ WithinLimit(hits) -> "idle"
                   [] OTHER -> "ttl"
      OBVIOUS
    <3>2. Replies(r, pc) /\ (hits = 1 => pc = "expire")
      BY <1>8, <2>1, <3>1 DEF Incr, NeedsExpiry
    <3> QED  BY <1>8, <3>2, BudgetTyped DEF Incr, Stages
  <2>3. up' = up /\ \A x \in Requests \ {r} : request'[x] = request[x]
    BY <1>4, <2>2
  <2>4. CASE budget.hits = 0
    <3>1. request'[r].pc = "expire"
      BY <1>4, <2>1, <2>2, <2>4, Numbers DEF Stages
    <3> QED  BY <1>2, <2>3, <3>1 DEF SetByFirst
  <2>5. CASE budget.hits # 0
    <3>1. budget.hits > 0
      BY <2>5, BudgetTyped
    <3> QED  BY <1>2, <2>2, <2>3, <3>1 DEF SetByFirst
  <2> QED  BY <2>4, <2>5
<1>9. ASSUME NEW r \in Requests, Expire(r) PROVE SetByFirst'
  <2>1. up' = up
    BY <1>4, <1>9 DEF Expire, Stages
  <2>2. ~(budget'.hits > 0 /\ budget'.ttl = 0)
    BY <1>9, BudgetTyped, Numbers DEF Expire
  <2> QED  BY <1>2, <2>1, <2>2 DEF SetByFirst
<1>10. ASSUME NEW r \in Requests, RedisFails(r) \/ FallbackRefuses(r) \/ FallbackCounts(r)
       PROVE  FALSE
  BY <1>2, <1>3, <1>10 DEF RedisFails, FallbackRefuses, FallbackCounts
<1>11. ~(\E c \in Procs : ProcDies(c))
  BY <1>1, RestartCounted
<1>12. CASE LoseRedis \/ RedisReturns \/ UNCHANGED vars
  BY <1>1, <1>2, <1>12 DEF LoseRedis, RedisReturns, vars, redis, SetByFirst
<1> QED  BY <1>5, <1>6, <1>7, <1>8, <1>9, <1>10, <1>11, <1>12 DEF Next, Step

\* Without an outage or a restart the budget key never lacks a TTL for good: of
\* the requests that race for a new window exactly one finds 1 and sets it.
THEOREM OrphanNeedsFaultAlways == Spec => []OrphanNeedsFault
<1>1. Typed /\ Undisturbed /\ SetByFirst => OrphanNeedsFault
  <2>1. Typed => Faults \in Nat
    BY DEF Typed, TypeOK, Faults
  <2> QED  BY <2>1 DEF SetByFirst, OrphanNeedsFault, Orphaned
<1>2. Spec => [](Typed /\ Undisturbed /\ SetByFirst)
  BY TypedInit, TypedKept, UndisturbedInit, UndisturbedKept, SetByFirstInit, SetByFirstKept,
     PTL DEF Spec
<1> QED  BY <1>1, <1>2, PTL

=============================================================================
