-------------------------- MODULE AccountsConnect --------------------------
(***************************************************************************)
(* Connecting an X account (routes/accounts.py): x_connect hands out a     *)
(* state and keeps its PKCE payload, x_callback takes the payload and      *)
(* stores the grant.  Payloads are kept in Redis; outside production also  *)
(* in the memory of the process whose Redis command has failed.            *)
(*                                                                         *)
(* Every Redis command is a step of its own, and may be executed although  *)
(* its reply is lost.  A dictionary is used without an await, in the step  *)
(* of the exception that leads there.  Time is counted in ticks.           *)
(***************************************************************************)
EXTENDS AuthSession

CONSTANTS
    Ttl,        \* _PKCE_TTL
    MaxFaults   \* bound: Redis outages and dying processes

ASSUME ConnectAssumption ==
    /\ Ttl \in Nat \ {0} /\ None \notin 0 .. Ttl
    /\ MaxFaults \in Nat

VARIABLES
    production,  \* settings.app_env = "production"
    up,          \* Redis can be reached
    redis,       \* redis[s]: ticks the key of state s has left, 0: no key
    memory,      \* memory[c][s]: the same for _pkce_fallback_store of c
    owner,       \* owner[s]: the user in the payload of s; None: s is unused
    age,         \* age[s]: ticks since a URL with s was returned; None: never
    spent,       \* the states whose payload a callback has taken
    account,     \* users with a connected_accounts row
    faults       \* outages and restarts so far

stores == <<redis, memory>>
connectVars == <<production, up, stores, owner, age, spent, account, faults>>
vars == <<authVars, request, connectVars>>

TypeOK ==
    /\ AuthTypeOK
    /\ production \in BOOLEAN /\ up \in BOOLEAN
    /\ redis \in [States -> 0 .. Ttl]
    /\ memory \in [Procs -> [States -> 0 .. Ttl]]
    /\ owner \in [States -> Subs \cup {None}]
    /\ age \in [States -> 0 .. Ttl \cup {None}]
    /\ spent \subseteq States
    /\ account \subseteq Subs
    /\ faults \in 0 .. MaxFaults

Init ==
    /\ AuthInit
    /\ production \in BOOLEAN
    /\ up = TRUE
    /\ redis = [s \in States |-> 0]
    /\ memory = [c \in Procs |-> [s \in States |-> 0]]
    /\ owner = [s \in States |-> None]
    /\ age = [s \in States |-> None]
    /\ spent = {} /\ account = {}
    /\ faults = 0

Fault == faults < MaxFaults /\ faults' = faults + 1

Outage == up' = FALSE /\ Fault

-----------------------------------------------------------------------------
(* x_connect                                                               *)

\* A bound of the model: a request that comes too late for a state waits.
StateLeft == \E s \in States : owner[s] = None

Connecting(who, pc) == [Idle EXCEPT !.pc = pc, !.who = who]

\* _resolve_x_connect_user: the bearer of an access token; outside production
\* a request without one is the development user's.
ConnectBegin(r, k) ==
    /\ At(r, "idle") /\ StateLeft
    /\ access[k] # None
    /\ request' = [request EXCEPT ![r] = Connecting(UserOf(access[k]), "setex")]
    /\ UNCHANGED <<authVars, connectVars>>

ConnectAnonymous(r) ==
    /\ At(r, "idle") /\ StateLeft
    /\ ~production
    /\ request' = [request EXCEPT ![r] =
                     Connecting(Dev, IF Found(Dev.sub) = None THEN "provision" ELSE "setex")]
    /\ UNCHANGED <<authVars, connectVars>>

Provision(r) ==
    /\ At(r, "provision")
    /\ IF CanWrite(Dev, None)
       THEN /\ users' = [users EXCEPT ![Dev.sub] = Dev.email]
            /\ Goes(r, "setex")
            /\ UNCHANGED refused
       ELSE Refused(Dev.sub) /\ Goes(r, "idle") /\ UNCHANGED users
    /\ UNCHANGED <<session, access, connectVars>>

\* The except branch: production raises, development keeps the payload in c.
KeepInMemory(c, s) ==
    IF production THEN UNCHANGED <<memory, age>>
    ELSE /\ memory' = [memory EXCEPT ![c][s] = Ttl]
         /\ age' = [age EXCEPT ![s] = 0]

\* SETEX succeeds, or its reply is lost, or Redis cannot be reached.
SetState(r, c, s) ==
    /\ At(r, "setex")
    /\ owner[s] = None
    /\ owner' = [owner EXCEPT ![s] = request[r].who.sub]
    /\ redis' = IF up THEN [redis EXCEPT ![s] = Ttl] ELSE redis
    /\ \/ up /\ age' = [age EXCEPT ![s] = 0] /\ UNCHANGED <<up, memory, faults>>
       \/ up /\ Outage /\ KeepInMemory(c, s)
       \/ ~up /\ KeepInMemory(c, s) /\ UNCHANGED <<up, faults>>
    /\ Goes(r, "idle")
    /\ UNCHANGED <<authVars, production, spent, account>>

-----------------------------------------------------------------------------
(* x_callback                                                              *)

\* X redirects a browser to the callback, perhaps again, perhaps late.
CallbackBegin(r, s, c) ==
    /\ At(r, "idle")
    /\ age[s] # None
    /\ request' = [request EXCEPT ![r] =
         [Idle EXCEPT !.pc = "get", !.state = s, !.proc = c,
                      !.late = CASE s \in spent -> "spent"
                                 [] s \notin spent /\ age[s] = Ttl -> "expired"
                                 [] OTHER -> "no"]]
    /\ UNCHANGED <<authVars, connectVars>>

Take(r) == Goes(r, "exchange") /\ spent' = spent \cup {request[r].state}

\* _pop_pkce_fallback.
Pop(r) ==
    LET s == request[r].state
        c == request[r].proc
    IN IF ~production /\ memory[c][s] > 0
       THEN Take(r) /\ memory' = [memory EXCEPT ![c][s] = 0]
       ELSE Goes(r, "idle") /\ UNCHANGED <<memory, spent>>

\* The exception of a Redis command, be it executed or not.
Raises(r) ==
    /\ \/ up /\ Outage
       \/ ~up /\ UNCHANGED <<up, faults>>
    /\ Pop(r)

Get(r) ==
    /\ At(r, "get")
    /\ \/ /\ up
          /\ Goes(r, IF redis[request[r].state] > 0 THEN "delete" ELSE "idle")
          /\ UNCHANGED <<up, memory, spent, faults>>
       \/ Raises(r)
    /\ UNCHANGED <<authVars, production, redis, owner, age, account>>

\* Mutant: the payload is left where it is.
DeletedNothing(s) == redis

Deleted(s) == [redis EXCEPT ![s] = 0]

Delete(r) ==
    /\ At(r, "delete")
    /\ redis' = IF up THEN Deleted(request[r].state) ELSE redis
    /\ \/ up /\ Take(r) /\ UNCHANGED <<up, memory, faults>>
       \/ Raises(r)
    /\ UNCHANGED <<authVars, production, owner, age, account>>

\* The token exchange or the user info fails; or the handler goes on to look
\* for the account of the user.
Exchange(r) ==
    /\ At(r, "exchange")
    /\ \/ Goes(r, "idle")
       \/ request' = [request EXCEPT ![r] =
            [@ EXCEPT !.pc = "store",
                      !.row = IF owner[request[r].state] \in account THEN "found" ELSE "none"]]
    /\ UNCHANGED <<authVars, connectVars>>

\* INSERT, refused if another callback was faster, or UPDATE of a row that is
\* still there.
Store(r) ==
    LET sub == owner[request[r].state] IN
    /\ At(r, "store")
    /\ account' = IF request[r].row = "none" THEN account \cup {sub} ELSE account
    /\ Goes(r, "idle")
    /\ UNCHANGED <<authVars, production, up, stores, owner, age, spent, faults>>

\* DELETE /accounts/{id}: an UPDATE under way will not find the row again.
Disconnect(sub) ==
    /\ sub \in account
    /\ \E k \in Sessions : access[k] = sub
    /\ account' = account \ {sub}
    /\ request' = [r \in Requests |->
         IF At(r, "store") /\ owner[request[r].state] = sub /\ request[r].row = "found"
         THEN [request[r] EXCEPT !.row = "gone"] ELSE request[r]]
    /\ UNCHANGED <<authVars, production, up, stores, owner, age, spent, faults>>

-----------------------------------------------------------------------------
(* Time and trouble                                                        *)

\* Mutant: a key without a TTL.
Forever(n) == n

\* Mutant: a key that is gone goes on ageing.
LeftUnguarded(n) == n - 1

Left(n) == IF n = 0 THEN 0 ELSE n - 1

Older(n) == IF n = Ttl THEN n ELSE n + 1

Tick ==
    /\ \E s \in States : age[s] # None /\ age[s] < Ttl
    /\ redis' = [s \in States |-> Left(redis[s])]
    /\ memory' = [c \in Procs |-> [s \in States |-> Left(memory[c][s])]]
    /\ age' = [s \in States |-> IF age[s] = None THEN None ELSE Older(age[s])]
    /\ UNCHANGED <<authVars, request, production, up, owner, spent, account, faults>>

LoseRedis ==
    /\ up
    /\ Outage
    /\ UNCHANGED <<authVars, request, production, stores, owner, age, spent, account>>

RedisReturns ==
    /\ ~up
    /\ up' = TRUE
    /\ UNCHANGED <<authVars, request, production, stores, owner, age, spent, account, faults>>

\* A process restarts: its requests and its dictionary are gone.
ProcDies(c) ==
    /\ Fault
    /\ memory' = [memory EXCEPT ![c] = [s \in States |-> 0]]
    /\ request' = [r \in Requests |-> IF request[r].proc = c THEN Idle ELSE request[r]]
    /\ UNCHANGED <<authVars, production, up, redis, owner, age, spent, account>>

ConnectNext ==
    \/ \E r \in Requests :
         \/ \E k \in Sessions : ConnectBegin(r, k)
         \/ ConnectAnonymous(r)
         \/ Provision(r)
         \/ \E c \in Procs, s \in States : SetState(r, c, s) \/ CallbackBegin(r, s, c)
         \/ Get(r) \/ Delete(r) \/ Exchange(r) \/ Store(r)
    \/ \E sub \in Subs : Disconnect(sub)
    \/ Tick
    \/ LoseRedis
    \/ RedisReturns
    \/ \E c \in Procs : ProcDies(c)

Next ==
    \/ AuthNext /\ UNCHANGED connectVars
    \/ ConnectNext

Spec == Init /\ [][Next]_vars

-----------------------------------------------------------------------------
(* What the flow promises                                                  *)

Past(r) == request[r].pc \in {"exchange", "store"}

\* Only callbacks that overlap can share a state: one that starts after the
\* payload was taken gets nothing, however the commands of the two fail.  Only
\* in development, and only if Redis has failed, are there two copies to take.
SpentStateUseless ==
    \A r \in Requests : Past(r) /\ request[r].late = "spent" => ~production /\ faults > 0

\* A state whose ten minutes are over is useless, whichever store has it.
ExpiredStateUseless ==
    \A r \in Requests : Past(r) => request[r].late # "expired"

=============================================================================
