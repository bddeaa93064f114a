----------------------- MODULE AccountsConnectProofs -----------------------
(***************************************************************************)
(* Theorems about AccountsConnect and the requests of AuthSession that run *)
(* beside it, for any number of users, requests, sessions, processes,      *)
(* states and failures: their types, that a spent or an expired PKCE state *)
(* is useless, and how often a user can be refused.                        *)
(***************************************************************************)
EXTENDS AccountsConnect, FiniteSetTheorems, TLAPS

-----------------------------------------------------------------------------
(* What a request carries, and what the tables know                        *)

Callback == {"get", "delete", "exchange", "store"}

\* What the record q of a request holds at each of its steps.
Sound(q) ==
    /\ q.pc = "login" => /\ q.who \in Logins
                         /\ q.seen # None => users[q.who.sub] # None
    /\ q.pc = "issue" => /\ q.session \in Sessions
                         /\ q.who \in User
                         /\ users[q.who.sub] # None
    /\ q.pc = "provision" => q.who = Dev
    /\ q.pc = "setex" => q.who \in User
    /\ q.pc \in Callback => /\ q.state \in States
                            /\ q.proc \in Procs
                            /\ owner[q.state] # None

\* A row of users is what a provider vouched for, or the development user.
KnownUsers ==
    \A s \in Subs : users[s] # None => [sub |-> s, email |-> users[s]] \in Identities

\* Tokens are for users with a row.
TokensOfUsers ==
    /\ \A k \in Sessions : access[k] # None => users[access[k]] # None
    /\ \A k \in Sessions : session[k].state = "live" => /\ session[k].sub # None
                                                        /\ users[session[k].sub] # None

\* A state that was handed out or taken belongs to a user.
Owned ==
    /\ \A s \in States : age[s] # None => owner[s] # None
    /\ \A s \in spent : owner[s] # None

Base ==
    /\ TypeOK
    /\ \A r \in Requests : Sound(request[r])
    /\ KnownUsers
    /\ TokensOfUsers
    /\ Owned

\* A payload lives no longer than what the state has left of its time.
Lifetimes ==
    \A s \in States : age[s] # None => /\ redis[s] + age[s] <= Ttl
                                       /\ \A c \in Procs : memory[c][s] + age[s] <= Ttl

\* A callback that came too late is at its first command.
LateExpired ==
    \A r \in Requests : request[r].late = "expired" => /\ request[r].pc = "get"
                                                       /\ age[request[r].state] = Ttl

\* While no process has had to keep a payload, what was taken is gone.
SpentGone ==
    production \/ faults = 0 =>
      /\ \A s \in spent : redis[s] = 0
      /\ \A c \in Procs, s \in States : memory[c][s] = 0
      /\ faults = 0 => up
      /\ \A r \in Requests : request[r].late = "spent" => /\ request[r].pc = "get"
                                                          /\ request[r].state \in spent

\* The requests that saw no row of s and are about to insert one.
Inserting(s) ==
    {r \in Requests : \/ At(r, "login") /\ request[r].who.sub = s /\ request[r].seen = None
                      \/ At(r, "provision") /\ Dev.sub = s}

\* Nobody is refused before there is a row, and then only who is inserting.
Refusal(s) ==
    Private(s) => IF users[s] = None THEN refused[s] = 0
                  ELSE refused[s] + Cardinality(Inserting(s)) < Cardinality(Requests)

Refusals == \A s \in Subs : Refusal(s)

-----------------------------------------------------------------------------
(* Type correctness                                                        *)

LEMMA Identified == Dev \in User /\ Logins \subseteq User /\ Identities \subseteq User
BY AuthAssumption DEF User, Identities

LEMMA IdleTyped == Idle \in RequestState
BY DEF Idle, RequestState

\* A row of users stays, and a state stays with its user.
Grows ==
    /\ \A s \in Subs : users[s] # None => users'[s] # None
    /\ \A s \in States : owner[s] # None => owner'[s] # None

LEMMA SoundStays ==
    ASSUME Grows, NEW q \in RequestState, Sound(q)
    PROVE  Sound(q)'
<1>1. q.pc = "login" => q.who \in User
  BY Identified DEF Sound
<1> QED  BY <1>1 DEF Sound, Grows, User

\* One request goes on to q, the others stay where they are.
LEMMA OneRequest ==
    ASSUME Base, Grows, NEW r \in Requests, NEW q \in RequestState, Sound(q)',
           request' = [request EXCEPT ![r] = q]
    PROVE  /\ request' \in [Requests -> RequestState]
           /\ \A x \in Requests : Sound(request[x])'
<1>1. request' \in [Requests -> RequestState]
  BY DEF Base, TypeOK, AuthTypeOK
<1>2. ASSUME NEW x \in Requests PROVE Sound(request[x])'
  <2>1. CASE x = r
    <3>1. request'[x] = q
      BY <2>1 DEF Base, TypeOK, AuthTypeOK
    <3> QED  BY <3>1 DEF Sound
  <2>2. CASE x # r
    <3>1. PICK p : p = request[x]
      OBVIOUS
    <3>2. request'[x] = p /\ p \in RequestState /\ Sound(p)
      BY <2>2, <3>1 DEF Base, TypeOK, AuthTypeOK, Sound
    <3>3. Sound(p)'
      BY <3>2, SoundStays
    <3> QED  BY <3>2, <3>3 DEF Sound
  <2> QED  BY <2>1, <2>2
<1> QED  BY <1>1, <1>2

LEMMA SameRequests ==
    ASSUME Base, Grows, request' = request
    PROVE  /\ request' \in [Requests -> RequestState]
           /\ \A x \in Requests : Sound(request[x])'
<1>1. request' \in [Requests -> RequestState]
  BY DEF Base, TypeOK, AuthTypeOK
<1>2. ASSUME NEW x \in Requests PROVE Sound(request[x])'
  <2>1. PICK p : p = request[x]
    OBVIOUS
  <2>2. request'[x] = p /\ p \in RequestState /\ Sound(p)
    BY <2>1 DEF Base, TypeOK, AuthTypeOK, Sound
  <2>3. Sound(p)'
    BY <2>2, SoundStays
  <2> QED  BY <2>2, <2>3 DEF Sound
<1> QED  BY <1>1, <1>2

LEMMA SoundIdle == Sound(Idle)'
BY DEF Sound, Idle, Callback

\* Goes(r, pc), for the steps that need nothing new of the request.
LEMMA RequestGoes ==
    ASSUME Base, Grows, NEW r \in Requests, NEW pc, Goes(r, pc),
           \/ pc = "idle"
           \/ pc \in Callback /\ request[r].pc \in Callback
           \/ pc = "setex" /\ request[r].who \in User
    PROVE  /\ request' \in [Requests -> RequestState]
           /\ \A x \in Requests : Sound(request[x])'
<1>1. PICK q : q = IF pc = "idle" THEN Idle ELSE [request[r] EXCEPT !.pc = pc]
  OBVIOUS
<1>2. request' = [request EXCEPT ![r] = q]
  BY <1>1 DEF Goes
<1>3. request[r] \in RequestState /\ Sound(request[r])
  BY DEF Base, TypeOK, AuthTypeOK
<1>4. q \in RequestState /\ Sound(q)'
  <2>1. CASE pc = "idle"
    BY <1>1, <2>1, IdleTyped, SoundIdle
  <2>2. CASE pc # "idle"
    <3>1. pc \in Callback \cup {"setex"}
      BY <2>2
    <3>2. q = [request[r] EXCEPT !.pc = pc]
      BY <1>1, <2>2
    <3>3. q \in RequestState
      BY <1>3, <3>1, <3>2 DEF RequestState, Callback
    <3>4. /\ q.pc = pc /\ q.who = request[r].who /\ q.state = request[r].state
          /\ q.proc = request[r].proc
      BY <1>3, <3>2 DEF RequestState
    <3>5. CASE pc = "setex"
      <4>1. q.pc = "setex" /\ q.who \in User
        BY <3>4, <3>5 DEF Callback
      <4> QED  BY <3>3, <4>1 DEF Sound, Callback
    <3>6. CASE pc \in Callback
      <4>1. /\ request[r].state \in States /\ request[r].proc \in Procs
            /\ owner[request[r].state] # None
        BY <1>3, <2>2, <3>6 DEF Sound, Callback
      <4>2. owner'[request[r].state] # None
        BY <4>1 DEF Grows
      <4>3. /\ q.pc \in Callback /\ q.state \in States /\ q.proc \in Procs
            /\ owner'[q.state] # None
        BY <3>4, <3>6, <4>1, <4>2
      <4> QED  BY <3>3, <4>3 DEF Sound, Callback
    <3> QED  BY <3>1, <3>5, <3>6
  <2> QED  BY <2>1, <2>2
<1> QED  BY <1>2, <1>4, OneRequest

-----------------------------------------------------------------------------
(* The actions of AuthSession                                              *)

LEMMA RefusedTyped ==
    ASSUME AuthTypeOK, NEW sub \in Subs, Refused(sub)
    PROVE  refused' \in [Subs -> 0 .. Cardinality(Requests)]
<1>1. Cardinality(Requests) \in Nat
  BY AuthAssumption, FS_CardinalityType
<1> QED  BY <1>1 DEF AuthTypeOK, Refused

\* Steps that change nothing but requests.
LEMMA OnlyRequests ==
    ASSUME Base, UNCHANGED <<authVars, connectVars>>,
           request' \in [Requests -> RequestState],
           \A x \in Requests : Sound(request[x])'
    PROVE  Base'
BY DEF Base, authVars, connectVars, stores, TypeOK, AuthTypeOK, KnownUsers, TokensOfUsers, Owned

LEMMA UnchangedGrows ==
    ASSUME UNCHANGED <<users, owner>>
    PROVE  Grows
BY DEF Grows

\* Steps of the users and their sessions.
LEMMA OnlyUsers ==
    ASSUME Base, UNCHANGED connectVars, AuthTypeOK',
           \A x \in Requests : Sound(request[x])', KnownUsers', TokensOfUsers'
    PROVE  Base'
BY DEF Base, connectVars, stores, TypeOK, Owned

LEMMA LoginBegins ==
    ASSUME Base, NEW r \in Requests, NEW login \in Logins, LoginBegin(r, login),
           UNCHANGED connectVars
    PROVE  Base'
<1>1. UNCHANGED authVars
  BY DEF LoginBegin
<1>2. Grows
  BY <1>1, UnchangedGrows DEF authVars, connectVars
<1>3. PICK q : q = [Idle EXCEPT !.pc = "login", !.who = login, !.seen = Found(login.sub)]
  OBVIOUS
<1>4. login \in User /\ login.sub \in Subs
  BY Identified DEF User
<1>5. Found(login.sub) \in Emails \cup {None}
  BY <1>4 DEF Base, TypeOK, AuthTypeOK, Found
<1>6. q \in RequestState
  BY <1>3, <1>4, <1>5, IdleTyped DEF RequestState
<1>7. q.pc = "login" /\ q.who = login /\ q.seen = users[login.sub]
  BY <1>3 DEF Idle, Found
<1>8. Sound(q)'
  BY <1>1, <1>7 DEF Sound, Callback, authVars
<1>9. request' = [request EXCEPT ![r] = q]
  BY <1>3 DEF LoginBegin
<1> QED  BY <1>1, <1>2, <1>6, <1>8, <1>9, OneRequest, OnlyRequests

LEMMA LoginWrites ==
    ASSUME Base, NEW r \in Requests, LoginWrite(r), UNCHANGED connectVars
    PROVE  Base'
<1> DEFINE who == request[r].who
           seen == request[r].seen
<1>1. /\ who \in Logins /\ who \in User /\ who.sub \in Subs /\ who.email \in Emails
      /\ who = [sub |-> who.sub, email |-> who.email] /\ who \in Identities
      /\ seen # None => users[who.sub] # None
  <2>1. who \in Logins /\ (seen # None => users[who.sub] # None)
    BY DEF Base, Sound, LoginWrite, At
  <2> QED  BY <2>1, Identified DEF User, Identities
<1>2. None \notin Emails /\ None \notin Subs
  BY AuthAssumption
<1>3. CASE CanWrite(who, seen)
  <2>1. users' = IF seen = who.email THEN users ELSE [users EXCEPT ![who.sub] = who.email]
    BY <1>3 DEF LoginWrite
  <2>2. users' \in [Subs -> Emails \cup {None}]
    BY <1>1, <2>1 DEF Base, TypeOK, AuthTypeOK
  <2>3. users'[who.sub] # None
    BY <1>1, <1>2, <2>1 DEF Base, TypeOK, AuthTypeOK
  <2>4. \A s \in Subs : users[s] # None => users'[s] # None
    BY <1>1, <1>2, <2>1 DEF Base, TypeOK, AuthTypeOK
  <2>5. Grows
    BY <2>4 DEF Grows, connectVars
  <2>6. KnownUsers'
    BY <1>1, <2>1 DEF KnownUsers, Base, TypeOK, AuthTypeOK
  <2>7. PICK k \in Fresh :
           /\ session' = [session EXCEPT ![k] = [state |-> "live", sub |-> who.sub]]
           /\ access' = [access EXCEPT ![k] = who.sub]
    BY <1>3 DEF LoginWrite
  <2>8. /\ session' \in [Sessions -> SessionRow]
        /\ access' \in [Sessions -> Subs \cup {None}]
    BY <1>1, <2>7 DEF Base, TypeOK, AuthTypeOK, SessionRow, Fresh
  <2>9. TokensOfUsers'
    <3>1. \A j \in Sessions : access'[j] # None => users'[access'[j]] # None
      BY <2>3, <2>4, <2>7 DEF Base, TokensOfUsers, TypeOK, AuthTypeOK, Fresh
    <3>2. ASSUME NEW j \in Sessions, session'[j].state = "live"
          PROVE  session'[j].sub # None /\ users'[session'[j].sub] # None
      <4>1. CASE j = k
        <5>1. session'[j] = [state |-> "live", sub |-> who.sub]
          BY <2>7, <4>1 DEF Base, TypeOK, AuthTypeOK
        <5> QED  BY <1>1, <1>2, <2>3, <5>1
      <4>2. CASE j # k
        <5>1. session'[j] = session[j]
          BY <2>7, <4>2 DEF Base, TypeOK, AuthTypeOK
        <5>2. session[j].sub \in Subs \cup {None}
          BY DEF Base, TypeOK, AuthTypeOK, SessionRow
        <5> QED  BY <2>4, <3>2, <5>1, <5>2 DEF Base, TokensOfUsers
      <4> QED  BY <4>1, <4>2
    <3> QED  BY <3>1, <3>2 DEF TokensOfUsers
  <2>10. /\ request' \in [Requests -> RequestState]
         /\ \A x \in Requests : Sound(request[x])'
    BY <2>5, RequestGoes DEF LoginWrite
  <2>11. refused' = refused
    BY <1>3 DEF LoginWrite
  <2>12. AuthTypeOK'
    BY <2>2, <2>8, <2>10, <2>11 DEF Base, TypeOK, AuthTypeOK
  <2> QED  BY <2>6, <2>9, <2>10, <2>12, OnlyUsers
<1>4. CASE ~CanWrite(who, seen)
  <2>1. Refused(who.sub) /\ UNCHANGED <<users, session, access>>
    BY <1>4 DEF LoginWrite
  <2>2. Grows
    BY <2>1, UnchangedGrows DEF connectVars
  <2>3. /\ request' \in [Requests -> RequestState]
        /\ \A x \in Requests : Sound(request[x])'
    BY <2>2, RequestGoes DEF LoginWrite
  <2>4. AuthTypeOK'
    BY <1>1, <2>1, <2>3, RefusedTyped DEF Base, TypeOK, AuthTypeOK
  <2>5. KnownUsers' /\ TokensOfUsers'
    BY <2>1 DEF Base, KnownUsers, TokensOfUsers
  <2> QED  BY <2>3, <2>4, <2>5, OnlyUsers
<1> QED  BY <1>3, <1>4

LEMMA RefreshBegins ==
    ASSUME Base, NEW r \in Requests, NEW k \in Sessions, RefreshBegin(r, k),
           UNCHANGED connectVars
    PROVE  Base'
<1>1. UNCHANGED authVars
  BY DEF RefreshBegin
<1>2. Grows
  BY <1>1, UnchangedGrows DEF authVars, connectVars
<1>3. PICK w : w = UserOf(session[k].sub)
  OBVIOUS
<1>4. w \in User /\ w.sub = session[k].sub /\ users[w.sub] # None
  <2>1. session[k].sub \in Subs /\ users[session[k].sub] # None
    BY DEF Base, TypeOK, AuthTypeOK, SessionRow, TokensOfUsers, RefreshBegin
  <2> QED  BY <1>3, <2>1 DEF UserOf, User, Base, TypeOK, AuthTypeOK
<1>5. PICK q : q = [Idle EXCEPT !.pc = "issue", !.session = k, !.who = w]
  OBVIOUS
<1>6. q \in RequestState
  BY <1>4, <1>5, IdleTyped DEF RequestState
<1>7. q.pc = "issue" /\ q.who = w /\ q.session = k
  BY <1>5 DEF Idle
<1>8. Sound(q)'
  BY <1>1, <1>4, <1>7 DEF Sound, Callback, authVars
<1>9. request' = [request EXCEPT ![r] = q]
  BY <1>3, <1>5 DEF RefreshBegin
<1> QED  BY <1>1, <1>2, <1>6, <1>8, <1>9, OneRequest, OnlyRequests

LEMMA RefreshIssues ==
    ASSUME Base, NEW r \in Requests, RefreshIssue(r), UNCHANGED connectVars
    PROVE  Base'
<1>1. Grows
  BY UnchangedGrows DEF RefreshIssue, connectVars
<1>2. /\ request' \in [Requests -> RequestState]
      /\ \A x \in Requests : Sound(request[x])'
  BY <1>1, RequestGoes DEF RefreshIssue
<1>3. PICK k, sub : k = request[r].session /\ sub = request[r].who.sub
  OBVIOUS
<1>4. k \in Sessions /\ sub \in Subs /\ users[sub] # None
  BY <1>3 DEF Base, Sound, RefreshIssue, At, User
<1>5. access' = [access EXCEPT ![k] = sub]
  BY <1>3 DEF RefreshIssue
<1>6. access' \in [Sessions -> Subs \cup {None}]
  BY <1>4, <1>5 DEF Base, TypeOK, AuthTypeOK
<1>7. AuthTypeOK'
  BY <1>2, <1>6 DEF RefreshIssue, Base, TypeOK, AuthTypeOK
<1>8. KnownUsers' /\ TokensOfUsers'
  BY <1>4, <1>5 DEF RefreshIssue, Base, TypeOK, AuthTypeOK, KnownUsers, TokensOfUsers
<1> QED  BY <1>2, <1>7, <1>8, OnlyUsers

LEMMA LogsOut ==
    ASSUME Base, NEW k \in Sessions, Logout(k), UNCHANGED connectVars
    PROVE  Base'
<1>1. Grows
  BY UnchangedGrows DEF Logout, connectVars
<1>2. \A x \in Requests : Sound(request[x])'
  BY <1>1, SameRequests DEF Logout
<1>3. NoSession \in SessionRow /\ NoSession.state # "live"
  BY DEF NoSession, SessionRow
<1>4. session' \in [Sessions -> SessionRow]
  BY <1>3 DEF Logout, Base, TypeOK, AuthTypeOK
<1>5. AuthTypeOK'
  BY <1>4 DEF Logout, Base, TypeOK, AuthTypeOK
<1>6. KnownUsers' /\ TokensOfUsers'
  BY <1>3 DEF Logout, Base, TypeOK, AuthTypeOK, KnownUsers, TokensOfUsers
<1> QED  BY <1>2, <1>5, <1>6, OnlyUsers

LEMMA SessionsExpire ==
    ASSUME Base, NEW k \in Sessions, SessionExpires(k), UNCHANGED connectVars
    PROVE  Base'
<1>1. Grows
  BY UnchangedGrows DEF SessionExpires, connectVars
<1>2. \A x \in Requests : Sound(request[x])'
  BY <1>1, SameRequests DEF SessionExpires
<1>3. session' = [session EXCEPT ![k] = [session[k] EXCEPT !.state = "expired"]]
  BY DEF SessionExpires
<1>4. session' \in [Sessions -> SessionRow]
  BY <1>3 DEF Base, TypeOK, AuthTypeOK, SessionRow
<1>5. \A j \in Sessions : session'[j].state = "live" => session'[j] = session[j]
  BY <1>3 DEF Base, TypeOK, AuthTypeOK, SessionRow
<1>6. AuthTypeOK'
  BY <1>4 DEF SessionExpires, Base, TypeOK, AuthTypeOK
<1>7. KnownUsers' /\ TokensOfUsers'
  BY <1>5 DEF SessionExpires, Base, KnownUsers, TokensOfUsers
<1> QED  BY <1>2, <1>6, <1>7, OnlyUsers

LEMMA AccessTokensExpire ==
    ASSUME Base, NEW k \in Sessions, AccessExpires(k), UNCHANGED connectVars
    PROVE  Base'
<1>1. Grows
  BY UnchangedGrows DEF AccessExpires, connectVars
<1>2. \A x \in Requests : Sound(request[x])'
  BY <1>1, SameRequests DEF AccessExpires
<1>3. AuthTypeOK'
  BY DEF AccessExpires, Base, TypeOK, AuthTypeOK
<1>4. KnownUsers' /\ TokensOfUsers'
  BY DEF AccessExpires, Base, TypeOK, AuthTypeOK, KnownUsers, TokensOfUsers
<1> QED  BY <1>2, <1>3, <1>4, OnlyUsers

-----------------------------------------------------------------------------
(* The actions of AccountsConnect                                          *)

ConnectTypeOK ==
    /\ production \in BOOLEAN /\ up \in BOOLEAN
    /\ redis \in [States -> 0 .. Ttl]
    /\ memory \in [Procs -> [States -> 0 .. Ttl]]
    /\ owner \in [States -> Subs \cup {None}]
    /\ age \in [States -> 0 .. Ttl \cup {None}]
    /\ spent \subseteq States
    /\ account \subseteq Subs
    /\ faults \in 0 .. MaxFaults

LEMMA TypeInTwo == TypeOK <=> AuthTypeOK /\ ConnectTypeOK
BY DEF TypeOK, ConnectTypeOK

LEMMA ConnectTypes == Base => ConnectTypeOK
BY DEF Base, TypeOK, ConnectTypeOK

\* Steps of the flow: they leave the users and their tokens alone.
LEMMA OnlyFlow ==
    ASSUME Base, UNCHANGED authVars,
           request' \in [Requests -> RequestState],
           \A x \in Requests : Sound(request[x])', ConnectTypeOK', Owned'
    PROVE  Base'
BY DEF Base, authVars, ConnectTypeOK, TypeOK, AuthTypeOK, KnownUsers, TokensOfUsers

LEMMA OutageTyped ==
    ASSUME ConnectTypeOK
    PROVE  /\ Fault => faults' \in 0 .. MaxFaults /\ faults' > 0
           /\ Outage => up' \in BOOLEAN
<1>1. faults \in 0 .. MaxFaults /\ MaxFaults \in Nat
  BY ConnectAssumption DEF ConnectTypeOK
<1>2. Fault => faults' \in 0 .. MaxFaults /\ faults' > 0
  BY <1>1 DEF Fault
<1>3. Outage => up' \in BOOLEAN
  BY DEF Outage
<1> QED  BY <1>2, <1>3

LEMMA ConnectBegins ==
    ASSUME Base, NEW r \in Requests, NEW k \in Sessions, ConnectBegin(r, k)
    PROVE  Base'
<1>1. UNCHANGED <<authVars, connectVars>> /\ Grows
  BY UnchangedGrows DEF ConnectBegin, authVars, connectVars
<1>2. PICK w : w = UserOf(access[k])
  OBVIOUS
<1>3. w \in User
  <2>1. access[k] \in Subs /\ users[access[k]] # None
    BY DEF Base, TypeOK, AuthTypeOK, TokensOfUsers, ConnectBegin
  <2> QED  BY <1>2, <2>1 DEF UserOf, User, Base, TypeOK, AuthTypeOK
<1>4. PICK q : q = Connecting(w, "setex")
  OBVIOUS
<1>5. q \in RequestState /\ q.pc = "setex" /\ q.who = w
  BY <1>3, <1>4, IdleTyped DEF Connecting, Idle, RequestState
<1>6. Sound(q)'
  BY <1>3, <1>5 DEF Sound, Callback
<1>7. request' = [request EXCEPT ![r] = q]
  BY <1>2, <1>4 DEF ConnectBegin
<1> QED  BY <1>1, <1>5, <1>6, <1>7, OneRequest, OnlyRequests

LEMMA ConnectsAnonymously ==
    ASSUME Base, NEW r \in Requests, ConnectAnonymous(r)
    PROVE  Base'
<1>1. UNCHANGED <<authVars, connectVars>> /\ Grows
  BY UnchangedGrows DEF ConnectAnonymous, authVars, connectVars
<1>2. PICK pc : pc = IF Found(Dev.sub) = None THEN "provision" ELSE "setex"
  OBVIOUS
<1>3. PICK q : q = Connecting(Dev, pc)
  OBVIOUS
<1>4. q \in RequestState /\ q.pc = pc /\ q.who = Dev
  BY <1>2, <1>3, Identified, IdleTyped DEF Connecting, Idle, RequestState
<1>5. Sound(q)'
  BY <1>2, <1>4, Identified DEF Sound, Callback
<1>6. request' = [request EXCEPT ![r] = q]
  BY <1>2, <1>3 DEF ConnectAnonymous
<1> QED  BY <1>1, <1>4, <1>5, <1>6, OneRequest, OnlyRequests

LEMMA Provisions ==
    ASSUME Base, NEW r \in Requests, Provision(r)
    PROVE  Base'
<1>1. /\ Dev \in User /\ Dev.sub \in Subs /\ Dev.email \in Emails
      /\ Dev = [sub |-> Dev.sub, email |-> Dev.email] /\ Dev \in Identities
  BY Identified DEF User, Identities
<1>2. request[r].who = Dev
  BY DEF Provision, At, Base, Sound
<1>3. None \notin Emails /\ None \notin Subs
  BY AuthAssumption
<1>4. UNCHANGED connectVars
  BY DEF Provision
<1>5. CASE CanWrite(Dev, None)
  <2>1. /\ users' = [users EXCEPT ![Dev.sub] = Dev.email]
        /\ Goes(r, "setex") /\ UNCHANGED <<session, access, refused>>
    BY <1>5 DEF Provision
  <2>2. users' \in [Subs -> Emails \cup {None}]
    BY <1>1, <2>1 DEF Base, TypeOK, AuthTypeOK
  <2>3. \A s \in Subs : users[s] # None => users'[s] # None
    BY <1>1, <1>3, <2>1 DEF Base, TypeOK, AuthTypeOK
  <2>4. Grows
    BY <1>4, <2>3 DEF Grows, connectVars
  <2>5. KnownUsers'
    BY <1>1, <2>1 DEF KnownUsers, Base, TypeOK, AuthTypeOK
  <2>6. TokensOfUsers'
    BY <2>1, <2>3 DEF TokensOfUsers, Base, TypeOK, AuthTypeOK, SessionRow
  <2>7. /\ request' \in [Requests -> RequestState]
        /\ \A x \in Requests : Sound(request[x])'
    BY <1>1, <1>2, <2>1, <2>4, RequestGoes
  <2>8. AuthTypeOK'
    BY <2>1, <2>2, <2>7 DEF Base, TypeOK, AuthTypeOK
  <2> QED  BY <1>4, <2>5, <2>6, <2>7, <2>8, OnlyUsers
<1>6. CASE ~CanWrite(Dev, None)
  <2>1. Refused(Dev.sub) /\ Goes(r, "idle") /\ UNCHANGED <<users, session, access>>
    BY <1>6 DEF Provision
  <2>2. Grows
    BY <1>4, <2>1, UnchangedGrows DEF connectVars
  <2>3. /\ request' \in [Requests -> RequestState]
        /\ \A x \in Requests : Sound(request[x])'
    BY <2>1, <2>2, RequestGoes
  <2>4. AuthTypeOK'
    BY <1>1, <2>1, <2>3, RefusedTyped DEF Base, TypeOK, AuthTypeOK
  <2>5. KnownUsers' /\ TokensOfUsers'
    BY <2>1 DEF Base, KnownUsers, TokensOfUsers
  <2> QED  BY <1>4, <2>3, <2>4, <2>5, OnlyUsers
<1> QED  BY <1>5, <1>6

LEMMA SetsState ==
    ASSUME Base, NEW r \in Requests, NEW c \in Procs, NEW s \in States, SetState(r, c, s)
    PROVE  Base'
<1>1. PICK sub : sub = request[r].who.sub
  OBVIOUS
<1>2. sub \in Subs /\ sub # None
  BY <1>1, AuthAssumption DEF Base, Sound, SetState, At, User
<1>3. owner' = [owner EXCEPT ![s] = sub]
  BY <1>1 DEF SetState
<1>4. owner' \in [States -> Subs \cup {None}]
  BY <1>2, <1>3, ConnectTypes DEF ConnectTypeOK
<1>5. owner'[s] # None /\ \A x \in States : owner[x] # None => owner'[x] # None
  BY <1>2, <1>3, ConnectTypes DEF ConnectTypeOK
<1>6. UNCHANGED authVars /\ Grows
  BY <1>5 DEF SetState, authVars, Grows
<1>7. /\ request' \in [Requests -> RequestState]
      /\ \A x \in Requests : Sound(request[x])'
  BY <1>6, RequestGoes DEF SetState
<1>8. \/ age' = [age EXCEPT ![s] = 0]
      \/ age' = age
  BY DEF SetState, KeepInMemory
<1>9. /\ 0 \in 0 .. Ttl /\ Ttl \in 0 .. Ttl
  BY ConnectAssumption
<1>10. age' \in [States -> 0 .. Ttl \cup {None}]
  BY <1>8, <1>9, ConnectTypes DEF ConnectTypeOK
<1>11. redis' \in [States -> 0 .. Ttl]
  BY <1>9, ConnectTypes DEF SetState, ConnectTypeOK
<1>12. memory' = memory \/ memory' = [memory EXCEPT ![c] = [memory[c] EXCEPT ![s] = Ttl]]
  BY DEF SetState, KeepInMemory
<1>13. memory' \in [Procs -> [States -> 0 .. Ttl]]
  BY <1>9, <1>12, ConnectTypes DEF ConnectTypeOK
<1>14. up' \in BOOLEAN /\ faults' \in 0 .. MaxFaults
  BY OutageTyped, ConnectTypes DEF SetState, ConnectTypeOK, Outage
<1>15. ConnectTypeOK'
  BY <1>4, <1>10, <1>11, <1>13, <1>14, ConnectTypes DEF ConnectTypeOK, SetState
<1>16. Owned'
  BY <1>5, <1>8, ConnectTypes DEF Owned, Base, SetState, ConnectTypeOK
<1> QED  BY <1>6, <1>7, <1>15, <1>16, OnlyFlow

LEMMA CallbackBegins ==
    ASSUME Base, NEW r \in Requests, NEW s \in States, NEW c \in Procs, CallbackBegin(r, s, c)
    PROVE  Base'
<1>1. UNCHANGED <<authVars, connectVars>> /\ Grows
  BY UnchangedGrows DEF CallbackBegin, authVars, connectVars
<1>2. PICK late \in {"no", "spent", "expired"} :
        late = CASE s \in spent -> "spent"
                 [] s \notin spent /\ age[s] = Ttl -> "expired"
                 [] OTHER -> "no"
  OBVIOUS
<1>3. PICK q : q = [Idle EXCEPT !.pc = "get", !.state = s, !.proc = c, !.late = late]
  OBVIOUS
<1>4. q \in RequestState /\ q.pc = "get" /\ q.state = s /\ q.proc = c
  BY <1>3, IdleTyped DEF RequestState, Idle
<1>5. owner[s] # None
  BY DEF CallbackBegin, Base, Owned
<1>6. owner'[s] # None
  BY <1>1, <1>5 DEF connectVars
<1>7. Sound(q)'
  BY <1>4, <1>6 DEF Sound, Callback
<1>8. request' = [request EXCEPT ![r] = q]
  BY <1>2, <1>3 DEF CallbackBegin
<1> QED  BY <1>1, <1>4, <1>7, <1>8, OneRequest, OnlyRequests

\* What a callback knows.
LEMMA InCallback ==
    ASSUME Base, NEW r \in Requests, request[r].pc \in Callback
    PROVE  request[r].state \in States /\ request[r].proc \in Procs
BY DEF Base, Sound

LEMMA CallbackGoes ==
    ASSUME Base, UNCHANGED <<users, owner>>, NEW r \in Requests, request[r].pc \in Callback,
           NEW pc \in Callback \cup {"idle"}, Goes(r, pc)
    PROVE  /\ request' \in [Requests -> RequestState]
           /\ \A x \in Requests : Sound(request[x])'
BY UnchangedGrows, RequestGoes

\* Taking a payload from a store or finding none, in either order of events.
LEMMA CallbackTyped ==
    ASSUME Base, NEW r \in Requests, request[r].pc \in Callback, UNCHANGED <<users, owner>>,
           \/ Take(r) /\ UNCHANGED memory
           \/ Pop(r)
    PROVE  /\ request' \in [Requests -> RequestState]
           /\ \A x \in Requests : Sound(request[x])'
           /\ spent' \subseteq States
           /\ \A s \in spent' : s \in spent \/ s = request[r].state
           /\ memory' \in [Procs -> [States -> 0 .. Ttl]]
<1>1. PICK s, c : s = request[r].state /\ c = request[r].proc
  OBVIOUS
<1>2. s \in States /\ c \in Procs
  BY <1>1, InCallback
<1>3. /\ \/ Goes(r, "exchange") /\ spent' = spent \cup {s}
         \/ Goes(r, "idle") /\ spent' = spent
      /\ memory' = memory \/ memory' = [memory EXCEPT ![c] = [memory[c] EXCEPT ![s] = 0]]
  BY <1>1 DEF Take, Pop
<1>4. /\ request' \in [Requests -> RequestState]
      /\ \A x \in Requests : Sound(request[x])'
  BY <1>3, CallbackGoes DEF Callback
<1>5. spent' \subseteq States /\ \A x \in spent' : x \in spent \/ x = s
  BY <1>2, <1>3, ConnectTypes DEF ConnectTypeOK
<1>6. memory' \in [Procs -> [States -> 0 .. Ttl]]
  <2>1. 0 \in 0 .. Ttl /\ memory \in [Procs -> [States -> 0 .. Ttl]]
    BY ConnectAssumption, ConnectTypes DEF ConnectTypeOK
  <2>2. [memory[c] EXCEPT ![s] = 0] \in [States -> 0 .. Ttl]
    BY <1>2, <2>1
  <2> QED  BY <1>2, <1>3, <2>1, <2>2
<1> QED  BY <1>1, <1>4, <1>5, <1>6

LEMMA Gets ==
    ASSUME Base, NEW r \in Requests, Get(r)
    PROVE  Base'
<1>1. request[r].pc \in Callback /\ request[r].state \in States
  BY InCallback DEF Get, At, Callback
<1>2. UNCHANGED <<authVars, production, redis, owner, age, account>> /\ UNCHANGED users
  BY DEF Get, authVars
<1>3. CASE /\ up
           /\ Goes(r, IF redis[request[r].state] > 0 THEN "delete" ELSE "idle")
           /\ UNCHANGED <<up, memory, spent, faults>>
  <2>1. /\ request' \in [Requests -> RequestState]
        /\ \A x \in Requests : Sound(request[x])'
    BY <1>1, <1>2, <1>3, CallbackGoes DEF Callback
  <2>2. ConnectTypeOK' /\ Owned'
    BY <1>2, <1>3, ConnectTypes DEF ConnectTypeOK, Base, Owned
  <2> QED  BY <1>2, <2>1, <2>2, OnlyFlow
<1>4. CASE Raises(r)
  <2>1. /\ request' \in [Requests -> RequestState]
        /\ \A x \in Requests : Sound(request[x])'
        /\ spent' \subseteq States
        /\ \A s \in spent' : s \in spent \/ s = request[r].state
        /\ memory' \in [Procs -> [States -> 0 .. Ttl]]
    BY <1>1, <1>2, <1>4, CallbackTyped DEF Raises
  <2>2. up' \in BOOLEAN /\ faults' \in 0 .. MaxFaults
    BY <1>4, OutageTyped, ConnectTypes DEF Raises, ConnectTypeOK, Outage
  <2>3. ConnectTypeOK'
    BY <1>2, <2>1, <2>2, ConnectTypes DEF ConnectTypeOK
  <2>4. Owned'
    BY <1>1, <1>2, <2>1 DEF Base, Owned, Sound
  <2> QED  BY <1>2, <2>1, <2>3, <2>4, OnlyFlow
<1> QED  BY <1>3, <1>4 DEF Get

LEMMA Deletes ==
    ASSUME Base, NEW r \in Requests, Delete(r)
    PROVE  Base'
<1>1. request[r].pc \in Callback /\ request[r].state \in States
  BY InCallback DEF Delete, At, Callback
<1>2. UNCHANGED <<authVars, production, owner, age, account>> /\ UNCHANGED users
  BY DEF Delete, authVars
<1>3. redis' \in [States -> 0 .. Ttl]
  <2>1. 0 \in 0 .. Ttl
    BY ConnectAssumption
  <2> QED  BY <2>1, ConnectTypes DEF Delete, Deleted, ConnectTypeOK
<1>4. /\ \/ Take(r) /\ UNCHANGED memory
         \/ Pop(r)
      /\ (UNCHANGED <<up, faults>>) \/ Outage
  BY DEF Delete, Raises
<1>5. /\ request' \in [Requests -> RequestState]
      /\ \A x \in Requests : Sound(request[x])'
      /\ spent' \subseteq States
      /\ \A s \in spent' : s \in spent \/ s = request[r].state
      /\ memory' \in [Procs -> [States -> 0 .. Ttl]]
  BY <1>1, <1>2, <1>4, CallbackTyped
<1>6. up' \in BOOLEAN /\ faults' \in 0 .. MaxFaults
  BY <1>4, OutageTyped, ConnectTypes DEF ConnectTypeOK, Outage
<1>7. ConnectTypeOK'
  BY <1>2, <1>3, <1>5, <1>6, ConnectTypes DEF ConnectTypeOK
<1>8. Owned'
  BY <1>1, <1>2, <1>5 DEF Base, Owned, Sound
<1> QED  BY <1>2, <1>5, <1>7, <1>8, OnlyFlow

LEMMA Exchanges ==
    ASSUME Base, NEW r \in Requests, Exchange(r)
    PROVE  Base'
<1>1. request[r].pc \in Callback /\ request[r] \in RequestState /\ Sound(request[r])
  BY DEF Exchange, At, Callback, Base, TypeOK, AuthTypeOK
<1>2. UNCHANGED <<authVars, connectVars>> /\ Grows /\ UNCHANGED <<users, owner>>
  BY UnchangedGrows DEF Exchange, authVars, connectVars
<1>3. CASE Goes(r, "idle")
  BY <1>1, <1>2, <1>3, CallbackGoes, OnlyRequests
<1>4. ASSUME NEW row \in {"found", "none"},
             request' = [request EXCEPT ![r] = [request[r] EXCEPT !.pc = "store", !.row = row]]
      PROVE  Base'
  <2>1. PICK q : q = [request[r] EXCEPT !.pc = "store", !.row = row]
    OBVIOUS
  <2>2. q \in RequestState
    BY <1>1, <2>1 DEF RequestState
  <2>3. q.pc = "store" /\ q.state = request[r].state /\ q.proc = request[r].proc
    BY <1>1, <2>1 DEF RequestState
  <2>4. q.state \in States /\ q.proc \in Procs /\ owner'[q.state] # None
    BY <1>1, <1>2, <2>3 DEF Sound
  <2>5. Sound(q)'
    BY <2>3, <2>4 DEF Sound, Callback
  <2> QED  BY <1>2, <1>4, <2>1, <2>2, <2>5, OneRequest, OnlyRequests
<1>5. \/ Goes(r, "idle")
      \/ \E row \in {"found", "none"} :
           request' = [request EXCEPT ![r] = [request[r] EXCEPT !.pc = "store", !.row = row]]
  <2>1. PICK row \in {"found", "none"} :
          row = IF owner[request[r].state] \in account THEN "found" ELSE "none"
    OBVIOUS
  <2> QED  BY <2>1 DEF Exchange
<1> QED  BY <1>3, <1>4, <1>5

LEMMA Stores ==
    ASSUME Base, NEW r \in Requests, Store(r)
    PROVE  Base'
<1>1. request[r].pc \in Callback /\ request[r].state \in States /\ owner[request[r].state] # None
  BY DEF Store, At, Callback, Base, Sound
<1>2. UNCHANGED <<authVars, users, production, up, stores, owner, age, spent, faults>>
  BY DEF Store, authVars
<1>3. /\ request' \in [Requests -> RequestState]
      /\ \A x \in Requests : Sound(request[x])'
  BY <1>1, <1>2, CallbackGoes DEF Store
<1>4. account' \subseteq Subs
  BY <1>1, ConnectTypes DEF Store, ConnectTypeOK
<1>5. ConnectTypeOK' /\ Owned'
  BY <1>2, <1>4, ConnectTypes DEF ConnectTypeOK, Owned, Base, stores
<1> QED  BY <1>2, <1>3, <1>5, OnlyFlow

\* A step that leaves each request where it is, or ends it, or takes the
\* account row from it.
LEMMA EachRequest ==
    ASSUME Base, UNCHANGED <<users, owner>>, NEW R, R \subseteq {"none", "found", "gone"},
           request' \in [Requests -> {Idle} \cup RequestState],
           \A x \in Requests : \/ request'[x] \in {request[x], Idle}
                               \/ \E row \in R : request'[x] = [request[x] EXCEPT !.row = row]
    PROVE  /\ request' \in [Requests -> RequestState]
           /\ \A x \in Requests : Sound(request[x])'
<1>1. request' \in [Requests -> RequestState]
  BY IdleTyped
<1>2. ASSUME NEW x \in Requests PROVE Sound(request[x])'
  <2>1. PICK p : p = request[x]
    OBVIOUS
  <2>2. p \in RequestState /\ Sound(p)
    BY <2>1 DEF Base, TypeOK, AuthTypeOK
  <2>3. CASE request'[x] = Idle
    BY <2>3 DEF Sound, Idle, Callback
  <2>4. CASE request'[x] # Idle
    <3>1. PICK q : q = request'[x]
      OBVIOUS
    <3>2. /\ q.pc = p.pc /\ q.who = p.who /\ q.state = p.state /\ q.proc = p.proc
          /\ q.seen = p.seen /\ q.session = p.session
      BY <2>1, <2>2, <2>4, <3>1 DEF RequestState
    <3>3. Sound(p)'
      BY <2>2, SoundStays, UnchangedGrows
    <3>4. Sound(q)'
      BY <3>2, <3>3 DEF Sound
    <3> QED  BY <3>1, <3>4 DEF Sound
  <2> QED  BY <2>3, <2>4
<1> QED  BY <1>1, <1>2

LEMMA Disconnects ==
    ASSUME Base, NEW sub \in Subs, Disconnect(sub)
    PROVE  Base'
<1>1. UNCHANGED <<authVars, users, production, up, redis, memory, owner, age, spent, faults>>
  BY DEF Disconnect, authVars, stores
<1>2. \A x \in Requests : \/ request'[x] \in {request[x], Idle}
                          \/ \E row \in {"gone"} : request'[x] = [request[x] EXCEPT !.row = row]
  BY DEF Disconnect
<1>3. request' \in [Requests -> {Idle} \cup RequestState]
  <2>1. \A x \in Requests : request[x] \in RequestState
    BY DEF Base, TypeOK, AuthTypeOK
  <2>2. \A x \in Requests : [request[x] EXCEPT !.row = "gone"] \in RequestState
    BY <2>1 DEF RequestState
  <2> QED  BY <2>1, <2>2 DEF Disconnect
<1>4. /\ request' \in [Requests -> RequestState]
      /\ \A x \in Requests : Sound(request[x])'
  BY <1>1, <1>2, <1>3, EachRequest
<1>5. ConnectTypeOK' /\ Owned'
  BY <1>1, ConnectTypes DEF Disconnect, ConnectTypeOK, Owned, Base
<1> QED  BY <1>1, <1>4, <1>5, OnlyFlow

LEMMA Ticks ==
    ASSUME Base, Tick
    PROVE  Base'
<1>1. UNCHANGED <<authVars, users, request, production, up, owner, spent, account, faults>>
  BY DEF Tick, authVars
<1>2. /\ request' \in [Requests -> RequestState]
      /\ \A x \in Requests : Sound(request[x])'
  BY <1>1, UnchangedGrows, SameRequests
<1>3. /\ \A n \in 0 .. Ttl : Left(n) \in 0 .. Ttl /\ Older(n) \in 0 .. Ttl
      /\ None \notin 0 .. Ttl
  BY ConnectAssumption DEF Left, Older
<1>4. /\ redis' \in [States -> 0 .. Ttl]
      /\ memory' \in [Procs -> [States -> 0 .. Ttl]]
  BY <1>3, ConnectTypes DEF Tick, ConnectTypeOK
<1>5. /\ age' \in [States -> 0 .. Ttl \cup {None}]
      /\ \A s \in States : age'[s] # None => age[s] # None
  BY <1>3, ConnectTypes DEF Tick, ConnectTypeOK
<1>6. ConnectTypeOK'
  BY <1>1, <1>4, <1>5, ConnectTypes DEF ConnectTypeOK
<1>7. Owned'
  BY <1>1, <1>5 DEF Owned, Base
<1> QED  BY <1>1, <1>2, <1>6, <1>7, OnlyFlow

LEMMA RedisFails ==
    ASSUME Base, LoseRedis
    PROVE  Base'
<1>1. UNCHANGED <<authVars, users, request, production, redis, memory, owner, age, spent, account>>
  BY DEF LoseRedis, authVars, stores
<1>2. /\ request' \in [Requests -> RequestState]
      /\ \A x \in Requests : Sound(request[x])'
  BY <1>1, UnchangedGrows, SameRequests
<1>3. up' \in BOOLEAN /\ faults' \in 0 .. MaxFaults
  BY OutageTyped, ConnectTypes DEF LoseRedis, Outage
<1>4. ConnectTypeOK' /\ Owned'
  BY <1>1, <1>3, ConnectTypes DEF ConnectTypeOK, Owned, Base
<1> QED  BY <1>1, <1>2, <1>4, OnlyFlow

LEMMA RedisIsBack ==
    ASSUME Base, RedisReturns
    PROVE  Base'
<1>1. /\ UNCHANGED <<authVars, users, request, production, redis, memory, owner, age, spent,
                     account, faults>>
      /\ up' = TRUE
  BY DEF RedisReturns, authVars, stores
<1>2. /\ request' \in [Requests -> RequestState]
      /\ \A x \in Requests : Sound(request[x])'
  BY <1>1, UnchangedGrows, SameRequests
<1>3. ConnectTypeOK' /\ Owned'
  BY <1>1, ConnectTypes DEF ConnectTypeOK, Owned, Base
<1> QED  BY <1>1, <1>2, <1>3, OnlyFlow

LEMMA ProcessDies ==
    ASSUME Base, NEW c \in Procs, ProcDies(c)
    PROVE  Base'
<1>1. UNCHANGED <<authVars, users, production, up, redis, owner, age, spent, account>>
  BY DEF ProcDies, authVars
<1>2. /\ request' \in [Requests -> {Idle} \cup RequestState]
      /\ \A x \in Requests : request'[x] \in {request[x], Idle}
  BY DEF ProcDies, Base, TypeOK, AuthTypeOK
<1>3. /\ request' \in [Requests -> RequestState]
      /\ \A x \in Requests : Sound(request[x])'
  BY <1>1, <1>2, EachRequest
<1>4. memory' \in [Procs -> [States -> 0 .. Ttl]]
  <2>1. 0 \in 0 .. Ttl
    BY ConnectAssumption
  <2> QED  BY <2>1, ConnectTypes DEF ProcDies, ConnectTypeOK
<1>5. faults' \in 0 .. MaxFaults
  BY OutageTyped, ConnectTypes DEF ProcDies
<1>6. ConnectTypeOK' /\ Owned'
  BY <1>1, <1>4, <1>5, ConnectTypes DEF ConnectTypeOK, Owned, Base
<1> QED  BY <1>1, <1>3, <1>6, OnlyFlow

LEMMA BaseInit == Init => Base
<1> SUFFICES ASSUME Init PROVE Base
  OBVIOUS
<1>1. Cardinality(Requests) \in Nat
  BY AuthAssumption, FS_CardinalityType
<1>2. NoSession \in SessionRow /\ NoSession.state # "live"
  BY DEF NoSession, SessionRow
<1>3. AuthTypeOK
  BY <1>1, <1>2, IdleTyped DEF Init, AuthInit, AuthTypeOK
<1>4. ConnectTypeOK
  BY ConnectAssumption DEF Init, ConnectTypeOK
<1>5. \A r \in Requests : Sound(request[r])
  BY DEF Init, AuthInit, Sound, Idle, Callback
<1>6. KnownUsers /\ TokensOfUsers /\ Owned
  BY <1>2 DEF Init, AuthInit, KnownUsers, TokensOfUsers, Owned
<1> QED  BY <1>3, <1>4, <1>5, <1>6, TypeInTwo DEF Base

LEMMA BaseKept == Base /\ [Next]_vars => Base'
<1> SUFFICES ASSUME Base, [Next]_vars PROVE Base'
  OBVIOUS
<1>1. ASSUME NEW r \in Requests, NEW login \in Logins, LoginBegin(r, login),
             UNCHANGED connectVars
      PROVE  Base'
  BY <1>1, LoginBegins
<1>2. ASSUME NEW r \in Requests, LoginWrite(r), UNCHANGED connectVars
      PROVE  Base'
  BY <1>2, LoginWrites
<1>3. ASSUME NEW r \in Requests, NEW k \in Sessions, RefreshBegin(r, k), UNCHANGED connectVars
      PROVE  Base'
  BY <1>3, RefreshBegins
<1>4. ASSUME NEW r \in Requests, RefreshIssue(r), UNCHANGED connectVars
      PROVE  Base'
  BY <1>4, RefreshIssues
<1>5. ASSUME NEW k \in Sessions, Logout(k) \/ SessionExpires(k) \/ AccessExpires(k),
             UNCHANGED connectVars
      PROVE  Base'
  BY <1>5, LogsOut, SessionsExpire, AccessTokensExpire
<1>6. ASSUME NEW r \in Requests, (\E k \in Sessions : ConnectBegin(r, k)) \/ ConnectAnonymous(r)
      PROVE  Base'
  BY <1>6, ConnectBegins, ConnectsAnonymously
<1>7. ASSUME NEW r \in Requests, Provision(r)
      PROVE  Base'
  BY <1>7, Provisions
<1>8. ASSUME NEW r \in Requests, NEW c \in Procs, NEW s \in States,
             SetState(r, c, s) \/ CallbackBegin(r, s, c)
      PROVE  Base'
  BY <1>8, SetsState, CallbackBegins
<1>9. ASSUME NEW r \in Requests, Get(r) \/ Delete(r)
      PROVE  Base'
  BY <1>9, Gets, Deletes
<1>10. ASSUME NEW r \in Requests, Exchange(r) \/ Store(r)
       PROVE  Base'
  BY <1>10, Exchanges, Stores
<1>11. ASSUME NEW sub \in Subs, Disconnect(sub)
       PROVE  Base'
  BY <1>11, Disconnects
<1>12. CASE Tick \/ LoseRedis \/ RedisReturns
  BY <1>12, Ticks, RedisFails, RedisIsBack
<1>13. ASSUME NEW c \in Procs, ProcDies(c)
       PROVE  Base'
  BY <1>13, ProcessDies
<1>14. CASE UNCHANGED vars
  <2>1. UNCHANGED <<authVars, connectVars, users, owner, request>>
    BY <1>14 DEF vars, authVars, connectVars
  <2> QED  BY <2>1, UnchangedGrows, SameRequests, OnlyRequests
<1> QED
  BY <1>1, <1>2, <1>3, <1>4, <1>5, <1>6, <1>7, <1>8, <1>9, <1>10, <1>11, <1>12, <1>13, <1>14
  DEF Next, AuthNext, ConnectNext

LEMMA BaseAlways == Spec => []Base
BY BaseInit, BaseKept, PTL DEF Spec

\* Every row, token, request and PKCE state keeps its type, whoever logs in,
\* refreshes, connects or calls back at the same time.
THEOREM TypeCorrect == Spec => []TypeOK
<1>1. Base => TypeOK
  BY DEF Base
<1> QED  BY <1>1, BaseAlways, PTL

-----------------------------------------------------------------------------
(* A state that is spent or too old                                        *)

Kept == Lifetimes /\ LateExpired /\ SpentGone

\* A request stays, or starts afresh, or goes on; from its first command only
\* with a payload in its hands.
Onward(x) ==
    \/ request'[x] = request[x]
    \/ request'[x].late = "no"
    \/ /\ request'[x].late = request[x].late
       /\ request[x].pc = "get" => \/ redis[request[x].state] > 0
                                   \/ memory[request[x].proc][request[x].state] > 0

LEMMA FreshOnward ==
    ASSUME Base, NEW r \in Requests, NEW q, q.late = "no", request' = [request EXCEPT ![r] = q]
    PROVE  \A x \in Requests : Onward(x)
BY DEF Base, TypeOK, AuthTypeOK, Onward

LEMMA GoesOnward ==
    ASSUME Base, NEW r \in Requests, NEW pc, Goes(r, pc),
           \/ request[r].pc # "get"
           \/ pc = "idle"
           \/ redis[request[r].state] > 0
           \/ memory[request[r].proc][request[r].state] > 0
    PROVE  \A x \in Requests : Onward(x)
<1>1. \A x \in Requests \ {r} : request'[x] = request[x]
  BY DEF Goes, Base, TypeOK, AuthTypeOK
<1>2. CASE pc = "idle"
  <2>1. request'[r] = Idle
    BY <1>2 DEF Goes, Base, TypeOK, AuthTypeOK
  <2>2. request'[r].late = "no"
    BY <2>1 DEF Idle
  <2> QED  BY <1>1, <2>2 DEF Onward
<1>3. CASE pc # "idle"
  <2>1. request'[r] = [request[r] EXCEPT !.pc = pc] /\ request[r] \in RequestState
    BY <1>3 DEF Goes, Base, TypeOK, AuthTypeOK
  <2>2. request'[r].late = request[r].late
    BY <2>1 DEF RequestState
  <2> QED  BY <1>1, <1>3, <2>2 DEF Onward
<1> QED  BY <1>2, <1>3

\* While every request goes onward, what is known of the late ones stays true.
LEMMA LateStays ==
    ASSUME Base, Kept, \A x \in Requests : Onward(x),
           \A s \in States : age[s] = Ttl => age'[s] = Ttl,
           spent \subseteq spent'
    PROVE  /\ LateExpired'
           /\ production \/ faults = 0 =>
                \A x \in Requests :
                  request'[x].late = "spent" =>
                    request'[x].pc = "get" /\ request'[x].state \in spent'
<1>1. \A n \in 0 .. Ttl : n > 0 => ~(n + Ttl <= Ttl)
  BY ConnectAssumption
<1>2. ASSUME NEW x \in Requests, request[x].pc = "get",
             \/ redis[request[x].state] > 0
             \/ memory[request[x].proc][request[x].state] > 0
      PROVE  age[request[x].state] # Ttl
  <2>1. PICK s, c : s = request[x].state /\ c = request[x].proc
    OBVIOUS
  <2>2. s \in States /\ c \in Procs
    BY <1>2, <2>1, InCallback DEF Callback
  <2>3. redis[s] \in 0 .. Ttl /\ memory[c][s] \in 0 .. Ttl /\ Ttl # None
    BY <2>2, ConnectTypes, ConnectAssumption DEF ConnectTypeOK
  <2>4. SUFFICES ASSUME age[s] = Ttl PROVE FALSE
    BY <2>1
  <2>5. redis[s] + Ttl <= Ttl /\ memory[c][s] + Ttl <= Ttl
    BY <2>2, <2>3, <2>4 DEF Kept, Lifetimes
  <2> QED  BY <1>1, <1>2, <2>1, <2>3, <2>5
<1>3. ASSUME NEW x \in Requests, request'[x].late = "expired"
      PROVE  request'[x].pc = "get" /\ age'[request'[x].state] = Ttl
  <2>1. request[x].late = "expired"
    BY <1>3 DEF Onward
  <2>2. request[x].pc = "get" /\ age[request[x].state] = Ttl
    BY <2>1 DEF Kept, LateExpired
  <2>3. request'[x] = request[x]
    BY <1>2, <1>3, <2>2 DEF Onward
  <2>4. request[x].state \in States
    BY <2>2, InCallback DEF Callback
  <2> QED  BY <2>2, <2>3, <2>4
<1>4. ASSUME production \/ faults = 0, NEW x \in Requests, request'[x].late = "spent"
      PROVE  request'[x].pc = "get" /\ request'[x].state \in spent'
  <2>1. request[x].late = "spent"
    BY <1>4 DEF Onward
  <2>2. request[x].pc = "get" /\ request[x].state \in spent
    BY <1>4, <2>1 DEF Kept, SpentGone
  <2>3. request[x].state \in States /\ request[x].proc \in Procs
    BY <2>2, InCallback DEF Callback
  <2>4. redis[request[x].state] = 0 /\ memory[request[x].proc][request[x].state] = 0
    BY <1>4, <2>2, <2>3 DEF Kept, SpentGone
  <2>5. request'[x] = request[x]
    BY <1>4, <2>2, <2>4 DEF Onward
  <2> QED  BY <2>2, <2>5
<1> QED  BY <1>3, <1>4 DEF LateExpired

\* Steps that leave the stores alone.
LEMMA KeptByRequests ==
    ASSUME Base, Kept, UNCHANGED <<production, up, redis, memory, age, spent, faults>>,
           \A x \in Requests : Onward(x)
    PROVE  Kept'
<1>1. /\ LateExpired'
      /\ production \/ faults = 0 =>
           \A x \in Requests :
             request'[x].late = "spent" => request'[x].pc = "get" /\ request'[x].state \in spent'
  BY LateStays
<1>2. Lifetimes'
  BY DEF Kept, Lifetimes
<1>3. SpentGone'
  BY <1>1 DEF Kept, SpentGone
<1> QED  BY <1>1, <1>2, <1>3 DEF Kept

LEMMA KeptByConnecting ==
    ASSUME Base, Kept, NEW r \in Requests, NEW c \in Procs, NEW s \in States, SetState(r, c, s)
    PROVE  Kept'
<1>1. owner[s] = None /\ age[s] = None /\ s \notin spent
  BY DEF SetState, Base, Owned
<1>2. \A x \in Requests : Onward(x)
  BY GoesOnward DEF SetState, At
<1>3. /\ \A x \in States \ {s} : age'[x] = age[x] /\ redis'[x] = redis[x]
      /\ age'[s] = None \/ age'[s] = 0
      /\ redis'[s] \in 0 .. Ttl
      /\ \A x \in States \ {s}, d \in Procs : memory'[d][x] = memory[d][x]
      /\ \A d \in Procs : memory'[d][s] \in 0 .. Ttl
  <2>1. age' = age \/ age' = [age EXCEPT ![s] = 0]
    BY DEF SetState, KeepInMemory
  <2>2. age'[s] = None \/ age'[s] = 0
    BY <1>1, <2>1, ConnectTypes DEF ConnectTypeOK
  <2>3. \A x \in States \ {s} : age'[x] = age[x]
    BY <2>1, ConnectTypes DEF ConnectTypeOK
  <2>4. Ttl \in 0 .. Ttl
    BY ConnectAssumption
  <2>5. redis'[s] \in 0 .. Ttl /\ \A x \in States \ {s} : redis'[x] = redis[x]
    BY <2>4, ConnectTypes DEF SetState, ConnectTypeOK
  <2>6. memory' = memory \/ memory' = [memory EXCEPT ![c] = [memory[c] EXCEPT ![s] = Ttl]]
    BY DEF SetState, KeepInMemory
  <2>7. /\ \A x \in States \ {s}, d \in Procs : memory'[d][x] = memory[d][x]
        /\ \A d \in Procs : memory'[d][s] \in 0 .. Ttl
    BY <2>4, <2>6, ConnectTypes DEF ConnectTypeOK
  <2> QED  BY <2>2, <2>3, <2>5, <2>7
<1>4. Lifetimes'
  <2>1. \A n \in 0 .. Ttl : n + 0 <= Ttl
    BY ConnectAssumption
  <2>2. ASSUME NEW x \in States, age'[x] # None
        PROVE  /\ redis'[x] + age'[x] <= Ttl
               /\ \A d \in Procs : memory'[d][x] + age'[x] <= Ttl
    BY <1>3, <2>1, <2>2 DEF Kept, Lifetimes
  <2> QED  BY <2>2 DEF Lifetimes
<1>5. /\ LateExpired'
      /\ production \/ faults = 0 =>
           \A x \in Requests :
             request'[x].late = "spent" => request'[x].pc = "get" /\ request'[x].state \in spent'
  <2>1. \A x \in States : age[x] = Ttl => age'[x] = Ttl
    BY <1>1, <1>3, ConnectAssumption
  <2>2. spent' = spent
    BY DEF SetState
  <2> QED  BY <1>2, <2>1, <2>2, LateStays
<1>6. SpentGone'
  <2> SUFFICES ASSUME production' \/ faults' = 0 PROVE SpentGone'
    BY DEF SpentGone
  <2>1. production' = production /\ spent' = spent /\ faults \in Nat
    BY ConnectTypes, ConnectAssumption DEF SetState, ConnectTypeOK
  <2>2. production \/ (faults = 0 /\ UNCHANGED <<up, faults>>)
    BY <2>1 DEF SetState, Outage, Fault
  <2>3. production \/ faults = 0
    BY <2>2
  <2>4. faults = 0 => up
    BY <2>3 DEF Kept, SpentGone
  <2>5. memory' = memory
    <3>1. CASE production
      BY <3>1 DEF SetState, KeepInMemory
    <3>2. CASE up /\ UNCHANGED faults
      <4>1. ~Outage
        BY <2>1, <3>2 DEF Outage, Fault
      <4> QED  BY <3>2, <4>1 DEF SetState
    <3> QED  BY <2>2, <2>4, <3>1, <3>2
  <2>6. faults' = 0 => up'
    <3> SUFFICES ASSUME faults' = 0 PROVE up'
      OBVIOUS
    <3>1. UNCHANGED <<up, faults>>
      BY <2>1 DEF SetState, Outage, Fault
    <3> QED  BY <2>4, <3>1
  <2>7. \A x \in spent' : redis'[x] = 0
    BY <1>1, <1>3, <2>1, <2>3, ConnectTypes DEF Kept, SpentGone, ConnectTypeOK
  <2>8. \A d \in Procs, x \in States : memory'[d][x] = 0
    BY <2>3, <2>5 DEF Kept, SpentGone
  <2> QED  BY <1>5, <2>3, <2>6, <2>7, <2>8 DEF SpentGone
<1> QED  BY <1>4, <1>5, <1>6 DEF Kept

\* _pop_pkce_fallback empties what it takes, and takes nothing spent.
LEMMA KeptByPopping ==
    ASSUME Base, Kept, NEW r \in Requests, request[r].pc \in Callback, Pop(r),
           UNCHANGED <<production, age>>,
           redis' = redis \/ redis' = Deleted(request[r].state),
           \/ UNCHANGED <<up, faults>>
           \/ Outage
    PROVE  Kept'
<1>1. PICK s, c : s = request[r].state /\ c = request[r].proc
  OBVIOUS
<1>2. s \in States /\ c \in Procs
  BY <1>1, InCallback
<1>3. /\ \/ ~production /\ memory[c][s] > 0 /\ Goes(r, "exchange") /\ spent' = spent \cup {s}
         \/ Goes(r, "idle") /\ spent' = spent
      /\ memory' = memory \/ memory' = [memory EXCEPT ![c] = [memory[c] EXCEPT ![s] = 0]]
  BY <1>1 DEF Pop, Take
<1>4. \A x \in Requests : Onward(x)
  BY <1>1, <1>3, GoesOnward
<1>5. /\ LateExpired'
      /\ production \/ faults = 0 =>
           \A x \in Requests :
             request'[x].late = "spent" => request'[x].pc = "get" /\ request'[x].state \in spent'
  BY <1>3, <1>4, LateStays
<1>6. /\ \A x \in States : redis'[x] = redis[x] \/ redis'[x] = 0
      /\ \A d \in Procs, x \in States : memory'[d][x] = memory[d][x] \/ memory'[d][x] = 0
  BY <1>1, <1>2, <1>3, ConnectTypes DEF Deleted, ConnectTypeOK
<1>7. Lifetimes'
  <2>1. \A n \in 0 .. Ttl : 0 + n <= Ttl
    BY ConnectAssumption
  <2> QED  BY <1>6, <2>1, ConnectTypes DEF Kept, Lifetimes, ConnectTypeOK
<1>8. SpentGone'
  <2> SUFFICES ASSUME production' \/ faults' = 0 PROVE SpentGone'
    BY DEF SpentGone
  <2>1. faults \in Nat /\ production' = production
    BY ConnectTypes, ConnectAssumption DEF ConnectTypeOK
  <2>2. production \/ (faults = 0 /\ UNCHANGED <<up, faults>>)
    BY <2>1 DEF Outage, Fault
  <2>3. production \/ faults = 0
    BY <2>2
  <2>4. memory[c][s] = 0
    BY <1>2, <2>3 DEF Kept, SpentGone
  <2>5. spent' = spent
    BY <1>3, <2>4
  <2>6. faults' = 0 => up'
    <3> SUFFICES ASSUME faults' = 0 PROVE up'
      OBVIOUS
    <3>1. UNCHANGED <<up, faults>>
      BY <2>1 DEF Outage, Fault
    <3> QED  BY <2>3, <3>1 DEF Kept, SpentGone
  <2>7. \A x \in spent' : redis'[x] = 0
    BY <1>6, <2>3, <2>5, ConnectTypes DEF Kept, SpentGone, ConnectTypeOK
  <2>8. \A d \in Procs, x \in States : memory'[d][x] = 0
    BY <1>6, <2>3 DEF Kept, SpentGone
  <2> QED  BY <1>5, <2>3, <2>6, <2>7, <2>8 DEF SpentGone
<1> QED  BY <1>5, <1>7, <1>8 DEF Kept

LEMMA KeptByGetting ==
    ASSUME Base, Kept, NEW r \in Requests, Get(r)
    PROVE  Kept'
<1>1. request[r].pc \in Callback /\ UNCHANGED <<production, redis, age>>
  BY DEF Get, At, Callback
<1>2. CASE /\ up
           /\ Goes(r, IF redis[request[r].state] > 0 THEN "delete" ELSE "idle")
           /\ UNCHANGED <<up, memory, spent, faults>>
  BY <1>1, <1>2, GoesOnward, KeptByRequests
<1>3. CASE Raises(r)
  BY <1>1, <1>3, KeptByPopping DEF Raises
<1> QED  BY <1>2, <1>3 DEF Get

LEMMA KeptByDeleting ==
    ASSUME Base, Kept, NEW r \in Requests, Delete(r)
    PROVE  Kept'
<1>1. request[r].pc \in Callback /\ request[r].pc # "get" /\ UNCHANGED <<production, age>>
  BY DEF Delete, At, Callback
<1>2. redis' = redis \/ redis' = Deleted(request[r].state)
  BY DEF Delete
<1>3. CASE up /\ Take(r) /\ UNCHANGED <<up, memory, faults>>
  <2>1. PICK s : s = request[r].state
    OBVIOUS
  <2>2. s \in States
    BY <1>1, <2>1, InCallback
  <2>3. redis' = [redis EXCEPT ![s] = 0] /\ spent' = spent \cup {s}
    BY <1>3, <2>1 DEF Delete, Deleted, Take
  <2>4. redis'[s] = 0 /\ \A x \in States : redis'[x] = redis[x] \/ redis'[x] = 0
    BY <2>2, <2>3, ConnectTypes DEF ConnectTypeOK
  <2>5. \A x \in Requests : Onward(x)
    BY <1>1, <1>3, GoesOnward DEF Take
  <2>6. /\ LateExpired'
        /\ production \/ faults = 0 =>
             \A x \in Requests :
               request'[x].late = "spent" => request'[x].pc = "get" /\ request'[x].state \in spent'
    BY <1>1, <2>3, <2>5, LateStays
  <2>7. Lifetimes'
    <3>1. \A n \in 0 .. Ttl : 0 + n <= Ttl
      BY ConnectAssumption
    <3> QED  BY <1>1, <1>3, <2>4, <3>1, ConnectTypes DEF Kept, Lifetimes, ConnectTypeOK
  <2>8. \A x \in spent' : x \in States /\ (x \in spent \/ x = s)
    BY <2>2, <2>3, ConnectTypes DEF ConnectTypeOK
  <2>9. SpentGone'
    BY <1>1, <1>3, <2>4, <2>6, <2>8 DEF Kept, SpentGone
  <2> QED  BY <2>6, <2>7, <2>9 DEF Kept
<1>4. CASE Raises(r)
  BY <1>1, <1>2, <1>4, KeptByPopping DEF Raises
<1> QED  BY <1>3, <1>4 DEF Delete

LEMMA KeptByTicking ==
    ASSUME Base, Kept, Tick
    PROVE  Kept'
<1>1. UNCHANGED <<production, up, spent, faults, request>>
  BY DEF Tick
<1>2. /\ \A s \in States : redis'[s] = Left(redis[s])
      /\ \A s \in States : age'[s] = IF age[s] = None THEN None ELSE Older(age[s])
      /\ \A c \in Procs, s \in States : memory'[c][s] = Left(memory[c][s])
  BY DEF Tick
<1>3. /\ None \notin 0 .. Ttl /\ Ttl \in 0 .. Ttl
      /\ \A m, n \in 0 .. Ttl : m + n <= Ttl => Left(m) + Older(n) <= Ttl
      /\ \A n \in 0 .. Ttl : Older(n) \in 0 .. Ttl
      /\ Left(0) = 0 /\ Older(Ttl) = Ttl
  BY ConnectAssumption DEF Left, Older
<1>4. Lifetimes'
  BY <1>2, <1>3, ConnectTypes DEF Kept, Lifetimes, ConnectTypeOK
<1>5. \A x \in Requests : Onward(x)
  BY <1>1 DEF Onward
<1>6. /\ LateExpired'
      /\ production \/ faults = 0 =>
           \A x \in Requests :
             request'[x].late = "spent" => request'[x].pc = "get" /\ request'[x].state \in spent'
  BY <1>1, <1>2, <1>3, <1>5, LateStays
<1>7. SpentGone'
  BY <1>1, <1>2, <1>3, <1>6, ConnectTypes DEF Kept, SpentGone, ConnectTypeOK
<1> QED  BY <1>4, <1>6, <1>7 DEF Kept

LEMMA KeptByDying ==
    ASSUME Base, Kept, NEW c \in Procs, ProcDies(c)
    PROVE  Kept'
<1>1. UNCHANGED <<production, up, redis, age, spent>> /\ faults' # 0
  BY OutageTyped, ConnectTypes DEF ProcDies
<1>2. \A d \in Procs, s \in States : memory'[d][s] = memory[d][s] \/ memory'[d][s] = 0
  BY ConnectTypes DEF ProcDies, ConnectTypeOK
<1>3. \A x \in Requests : Onward(x)
  BY DEF ProcDies, Idle, Onward
<1>4. /\ LateExpired'
      /\ production \/ faults = 0 =>
           \A x \in Requests :
             request'[x].late = "spent" => request'[x].pc = "get" /\ request'[x].state \in spent'
  BY <1>1, <1>3, LateStays
<1>5. Lifetimes'
  <2>1. \A n \in 0 .. Ttl : 0 + n <= Ttl
    BY ConnectAssumption
  <2> QED  BY <1>1, <1>2, <2>1, ConnectTypes DEF Kept, Lifetimes, ConnectTypeOK
<1>6. SpentGone'
  BY <1>1, <1>2, <1>4 DEF Kept, SpentGone
<1> QED  BY <1>4, <1>5, <1>6 DEF Kept

LEMMA KeptByCalling ==
    ASSUME Base, Kept, NEW r \in Requests, NEW s \in States, NEW c \in Procs,
           CallbackBegin(r, s, c)
    PROVE  Kept'
<1>1. UNCHANGED <<production, up, redis, memory, age, spent, faults>>
  BY DEF CallbackBegin, connectVars, stores
<1>2. PICK late \in {"no", "spent", "expired"} :
        late = CASE s \in spent -> "spent"
                 [] s \notin spent /\ age[s] = Ttl -> "expired"
                 [] OTHER -> "no"
  OBVIOUS
<1>3. PICK q : q = [Idle EXCEPT !.pc = "get", !.state = s, !.proc = c, !.late = late]
  OBVIOUS
<1>4. q.pc = "get" /\ q.state = s /\ q.late = late
  BY <1>3 DEF Idle
<1>5. request' = [request EXCEPT ![r] = q]
  BY <1>2, <1>3 DEF CallbackBegin
<1>6. request'[r] = q /\ \A x \in Requests \ {r} : request'[x] = request[x]
  BY <1>5 DEF Base, TypeOK, AuthTypeOK
<1>7. (late = "spent" => s \in spent) /\ (late = "expired" => age[s] = Ttl)
  BY <1>2
<1>8. LateExpired'
  BY <1>1, <1>4, <1>6, <1>7 DEF Kept, LateExpired
<1>9. Lifetimes'
  BY <1>1 DEF Kept, Lifetimes
<1>10. SpentGone'
  BY <1>1, <1>4, <1>6, <1>7 DEF Kept, SpentGone
<1> QED  BY <1>8, <1>9, <1>10 DEF Kept

LEMMA KeptInit == Init => Kept
BY ConnectAssumption DEF Init, AuthInit, Idle, Kept, Lifetimes, LateExpired, SpentGone

LEMMA KeptKept == Base /\ Kept /\ [Next]_vars => Kept'
<1> SUFFICES ASSUME Base, Kept, [Next]_vars PROVE Kept'
  OBVIOUS
<1>1. ASSUME UNCHANGED connectVars, \A x \in Requests : Onward(x)
      PROVE  Kept'
  BY <1>1, KeptByRequests DEF connectVars, stores
<1>2. ASSUME NEW r \in Requests, NEW login \in Logins, LoginBegin(r, login),
             UNCHANGED connectVars
      PROVE  Kept'
  <2>1. PICK q : q = [Idle EXCEPT !.pc = "login", !.who = login, !.seen = Found(login.sub)]
    OBVIOUS
  <2>2. q.late = "no" /\ request' = [request EXCEPT ![r] = q]
    BY <1>2, <2>1 DEF LoginBegin, Idle
  <2> QED  BY <1>1, <1>2, <2>2, FreshOnward
<1>3. ASSUME NEW r \in Requests, LoginWrite(r) \/ RefreshIssue(r), UNCHANGED connectVars
      PROVE  Kept'
  BY <1>1, <1>3, GoesOnward DEF LoginWrite, RefreshIssue
<1>4. ASSUME NEW r \in Requests, NEW k \in Sessions, RefreshBegin(r, k), UNCHANGED connectVars
      PROVE  Kept'
  <2>1. PICK q : q = [Idle EXCEPT !.pc = "issue", !.session = k,
                                  !.who = UserOf(session[k].sub)]
    OBVIOUS
  <2>2. q.late = "no" /\ request' = [request EXCEPT ![r] = q]
    BY <1>4, <2>1 DEF RefreshBegin, Idle
  <2> QED  BY <1>1, <1>4, <2>2, FreshOnward
<1>5. ASSUME UNCHANGED request, UNCHANGED connectVars
      PROVE  Kept'
  BY <1>1, <1>5 DEF Onward
<1>6. ASSUME NEW k \in Sessions, Logout(k) \/ SessionExpires(k) \/ AccessExpires(k),
             UNCHANGED connectVars
      PROVE  Kept'
  BY <1>5, <1>6 DEF Logout, SessionExpires, AccessExpires
<1>7. ASSUME NEW r \in Requests, NEW who, NEW pc,
             request' = [request EXCEPT ![r] = Connecting(who, pc)], UNCHANGED connectVars
      PROVE  Kept'
  <2>1. PICK q : q = Connecting(who, pc)
    OBVIOUS
  <2>2. q.late = "no" /\ request' = [request EXCEPT ![r] = q]
    BY <1>7, <2>1 DEF Connecting, Idle
  <2> QED  BY <1>1, <1>7, <2>2, FreshOnward
<1>8. ASSUME NEW r \in Requests, (\E k \in Sessions : ConnectBegin(r, k)) \/ ConnectAnonymous(r)
      PROVE  Kept'
  BY <1>7, <1>8 DEF ConnectBegin, ConnectAnonymous
<1>9. ASSUME NEW r \in Requests, Provision(r)
      PROVE  Kept'
  <2>1. request[r].pc # "get" /\ UNCHANGED connectVars
    BY <1>9 DEF Provision, At
  <2>2. Goes(r, "setex") \/ Goes(r, "idle")
    BY <1>9 DEF Provision
  <2> QED  BY <1>1, <2>1, <2>2, GoesOnward
<1>10. ASSUME NEW r \in Requests, NEW c \in Procs, NEW s \in States,
              SetState(r, c, s) \/ CallbackBegin(r, s, c)
       PROVE  Kept'
  BY <1>10, KeptByConnecting, KeptByCalling
<1>11. ASSUME NEW r \in Requests, Get(r) \/ Delete(r)
       PROVE  Kept'
  BY <1>11, KeptByGetting, KeptByDeleting
<1>12. ASSUME NEW r \in Requests, Exchange(r)
       PROVE  Kept'
  <2>1. request[r].pc # "get" /\ UNCHANGED connectVars
    BY <1>12 DEF Exchange, At
  <2>2. CASE Goes(r, "idle")
    BY <1>1, <2>1, <2>2, GoesOnward
  <2>3. ASSUME NEW row,
               request' = [request EXCEPT ![r] = [request[r] EXCEPT !.pc = "store", !.row = row]]
        PROVE  Kept'
    <3>1. request[r] \in RequestState
      BY DEF Base, TypeOK, AuthTypeOK
    <3>2. request'[r] = [request[r] EXCEPT !.pc = "store", !.row = row]
      BY <2>3 DEF Base, TypeOK, AuthTypeOK
    <3>3. request'[r].late = request[r].late
      BY <3>1, <3>2 DEF RequestState
    <3>4. \A x \in Requests \ {r} : request'[x] = request[x]
      BY <2>3 DEF Base, TypeOK, AuthTypeOK
    <3> QED  BY <1>1, <2>1, <3>3, <3>4 DEF Onward
  <2> QED  BY <1>12, <2>2, <2>3 DEF Exchange
<1>13. ASSUME NEW r \in Requests, Store(r)
       PROVE  Kept'
  <2>1. /\ UNCHANGED <<production, up, redis, memory, age, spent, faults>>
        /\ Goes(r, "idle")
    BY <1>13 DEF Store, stores
  <2> QED  BY <2>1, GoesOnward, KeptByRequests
<1>14. ASSUME NEW sub \in Subs, Disconnect(sub)
       PROVE  Kept'
  <2>1. UNCHANGED <<production, up, redis, memory, age, spent, faults>>
    BY <1>14 DEF Disconnect, stores
  <2>2. ASSUME NEW x \in Requests PROVE Onward(x)
    <3>1. request[x] \in RequestState
      BY DEF Base, TypeOK, AuthTypeOK
    <3>2. \/ request'[x] = request[x]
          \/ request[x].pc = "store" /\ request'[x] = [request[x] EXCEPT !.row = "gone"]
      BY <1>14 DEF Disconnect, At
    <3> QED  BY <3>1, <3>2 DEF RequestState, Onward
  <2> QED  BY <2>1, <2>2, KeptByRequests
<1>15. CASE Tick
  BY <1>15, KeptByTicking
<1>16. CASE LoseRedis
  <2>1. UNCHANGED <<request, production, redis, memory, age, spent>>
    BY <1>16 DEF LoseRedis, stores
  <2>2. faults' # 0
    BY <1>16, OutageTyped, ConnectTypes DEF LoseRedis, Outage
  <2> QED  BY <2>1, <2>2 DEF Kept, Lifetimes, LateExpired, SpentGone
<1>17. CASE RedisReturns
  <2>1. UNCHANGED <<request, production, redis, memory, age, spent, faults>> /\ up'
    BY <1>17 DEF RedisReturns, stores
  <2> QED  BY <2>1 DEF Kept, Lifetimes, LateExpired, SpentGone
<1>18. ASSUME NEW c \in Procs, ProcDies(c)
       PROVE  Kept'
  BY <1>18, KeptByDying
<1>19. CASE UNCHANGED vars
  BY <1>5, <1>19 DEF vars
<1> QED
  BY <1>2, <1>3, <1>4, <1>6, <1>8, <1>9, <1>10, <1>11, <1>12, <1>13, <1>14, <1>15, <1>16,
     <1>17, <1>18, <1>19
  DEF Next, AuthNext, ConnectNext

LEMMA KeptAlways == Spec => [](Base /\ Kept)
BY BaseInit, BaseKept, KeptInit, KeptKept, PTL DEF Spec

\* A callback that starts after the payload of its state was taken gets no
\* further than its first commands; unless, in development, Redis has failed.
THEOREM SpentStateUselessAlways == Spec => []SpentStateUseless
<1>1. Base /\ Kept => SpentStateUseless
  BY ConnectTypes, ConnectAssumption
  DEF Kept, SpentGone, SpentStateUseless, Past, ConnectTypeOK
<1> QED  BY <1>1, KeptAlways, PTL

\* A callback that starts when the time of its state is over gets no further
\* than its first commands, whatever has failed and whoever kept the payload.
THEOREM ExpiredStateUselessAlways == Spec => []ExpiredStateUseless
<1>1. Base /\ Kept => ExpiredStateUseless
  BY DEF Kept, LateExpired, ExpiredStateUseless, Past
<1> QED  BY <1>1, KeptAlways, PTL

-----------------------------------------------------------------------------
(* How often a user can be refused                                         *)

Insertion == {"login", "provision"}

LEMMA FewerRequests ==
    ASSUME NEW S, NEW T, S \subseteq T, T \subseteq Requests
    PROVE  /\ Cardinality(S) \in Nat /\ Cardinality(T) \in Nat
           /\ Cardinality(S) <= Cardinality(T)
<1>1. IsFiniteSet(T)
  BY AuthAssumption, FS_Subset
<1>2. IsFiniteSet(S) /\ Cardinality(S) <= Cardinality(T)
  BY <1>1, FS_Subset
<1> QED  BY <1>1, <1>2, FS_CardinalityType

LEMMA RefusalStays ==
    ASSUME NEW s \in Subs, Base, Refusal(s), users'[s] = users[s], refused'[s] = refused[s],
           users[s] # None => Inserting(s)' \subseteq Inserting(s)
    PROVE  Refusal(s)'
<1>1. CASE users[s] = None
  BY <1>1 DEF Refusal
<1>2. CASE users[s] # None
  <2>1. PICK S, T : S = Inserting(s)' /\ T = Inserting(s)
    OBVIOUS
  <2>2. S \subseteq T /\ T \subseteq Requests
    BY <1>2, <2>1 DEF Inserting
  <2>3. /\ Cardinality(S) \in Nat /\ Cardinality(T) \in Nat
        /\ Cardinality(S) <= Cardinality(T)
    BY <2>2, FewerRequests
  <2>4. refused[s] \in Nat /\ Cardinality(Requests) \in Nat
    BY AuthAssumption, FS_CardinalityType DEF Base, TypeOK, AuthTypeOK
  <2> QED  BY <1>2, <2>1, <2>3, <2>4 DEF Refusal
<1> QED  BY <1>1, <1>2

\* Steps after which nobody is inserting who was not before.
LEMMA NobodyInserts ==
    ASSUME Base, Refusals, UNCHANGED <<users, refused>>,
           \A x \in Requests : request'[x].pc \in Insertion => request'[x] = request[x]
    PROVE  Refusals'
<1> SUFFICES ASSUME NEW s \in Subs PROVE Refusal(s)'
  BY DEF Refusals
<1>1. Inserting(s)' \subseteq Inserting(s)
  BY DEF Inserting, At, Insertion
<1> QED  BY <1>1, RefusalStays DEF Refusals

LEMMA GoesAway ==
    ASSUME Base, NEW r \in Requests, NEW pc, Goes(r, pc), pc \notin Insertion
    PROVE  /\ request'[r].pc = pc
           /\ \A x \in Requests \ {r} : request'[x] = request[x]
           /\ \A x \in Requests : request'[x].pc \in Insertion => request'[x] = request[x]
<1>1. \A x \in Requests \ {r} : request'[x] = request[x]
  BY DEF Goes, Base, TypeOK, AuthTypeOK
<1>2. /\ request'[r] = IF pc = "idle" THEN Idle ELSE [request[r] EXCEPT !.pc = pc]
      /\ request[r] \in RequestState
  BY DEF Goes, Base, TypeOK, AuthTypeOK
<1>3. request'[r].pc = pc
  BY <1>2 DEF Idle, RequestState
<1> QED  BY <1>1, <1>3

LEMMA AwayFrom ==
    ASSUME Base, NEW r \in Requests, NEW q, q.pc \notin Insertion,
           request' = [request EXCEPT ![r] = q]
    PROVE  \A x \in Requests : request'[x].pc \in Insertion => request'[x] = request[x]
BY DEF Base, TypeOK, AuthTypeOK

\* One more is inserting, of a user without a row.
LEMMA OneInserts ==
    ASSUME Base, Refusals, UNCHANGED <<users, refused>>, NEW r \in Requests, NEW q,
           request' = [request EXCEPT ![r] = q],
           (q.pc = "login" /\ q.seen = None) => users[q.who.sub] = None,
           q.pc = "provision" => users[Dev.sub] = None
    PROVE  Refusals'
<1> SUFFICES ASSUME NEW s \in Subs PROVE Refusal(s)'
  BY DEF Refusals
<1>1. request'[r] = q /\ \A x \in Requests \ {r} : request'[x] = request[x]
  BY DEF Base, TypeOK, AuthTypeOK
<1>2. ASSUME users[s] # None, NEW x \in Inserting(s)' PROVE x \in Inserting(s)
  <2>1. x \in Requests /\ \/ /\ request'[x].pc = "login" /\ request'[x].who.sub = s
                             /\ request'[x].seen = None
                          \/ request'[x].pc = "provision" /\ Dev.sub = s
    BY <1>2 DEF Inserting, At
  <2>2. x # r
    BY <1>1, <1>2, <2>1
  <2> QED  BY <1>1, <2>1, <2>2 DEF Inserting, At
<1> QED  BY <1>2, RefusalStays DEF Refusals

\* The email of a private user is free for it.
LEMMA PrivateFree ==
    ASSUME Base, NEW who \in Identities, Private(who.sub)
    PROVE  EmailFree(who)
<1> SUFFICES ASSUME NEW s \in Subs \ {who.sub}, users[s] = who.email PROVE FALSE
  BY DEF EmailFree
<1>1. who \in User /\ who.email # None
  BY Identified, AuthAssumption DEF User
<1>2. PICK j : j = [sub |-> s, email |-> users[s]]
  OBVIOUS
<1>3. j \in Identities /\ j.sub = s /\ j.email = who.email
  BY <1>1, <1>2 DEF Base, KnownUsers
<1> QED  BY <1>3 DEF Private

\* The write of a request that has seen no row, or one that is there.
LEMMA RefusalsByWriting ==
    ASSUME Base, Refusals, NEW r \in Requests, NEW who \in Identities, NEW seen,
           NEW pc, Goes(r, pc), pc \notin Insertion,
           seen = None => r \in Inserting(who.sub),
           seen # None => users[who.sub] # None,
           IF CanWrite(who, seen)
           THEN /\ refused' = refused
                /\ users' = users \/ users' = [users EXCEPT ![who.sub] = who.email]
                /\ users'[who.sub] # None
           ELSE Refused(who.sub) /\ UNCHANGED users
    PROVE  Refusals'
<1> SUFFICES ASSUME NEW s \in Subs PROVE Refusal(s)'
  BY DEF Refusals
<1>1. who.sub \in Subs
  BY Identified DEF User
<1>2. Inserting(s)' \subseteq Inserting(s) \ {r}
  BY GoesAway DEF Inserting, At, Insertion
<1>3. CASE s # who.sub
  <2>1. users'[s] = users[s] /\ refused'[s] = refused[s]
    BY <1>1, <1>3 DEF Refused, Base, TypeOK, AuthTypeOK
  <2> QED  BY <1>2, <2>1, RefusalStays DEF Refusals
<1>4. CASE s = who.sub /\ CanWrite(who, seen) /\ users[s] # None
  <2>1. PICK S, T : S = Inserting(s)' /\ T = Inserting(s)
    OBVIOUS
  <2>2. /\ Cardinality(S) \in Nat /\ Cardinality(T) \in Nat
        /\ Cardinality(S) <= Cardinality(T)
    BY <1>2, <2>1, FewerRequests DEF Inserting
  <2>3. refused[s] \in Nat /\ Cardinality(Requests) \in Nat /\ refused'[s] = refused[s]
    BY <1>4, AuthAssumption, FS_CardinalityType DEF Base, TypeOK, AuthTypeOK
  <2>4. users'[s] # None
    BY <1>4
  <2>5. Private(s) => refused[s] + Cardinality(T) < Cardinality(Requests)
    BY <1>4, <2>1 DEF Refusals, Refusal
  <2>6. Private(s) => refused'[s] + Cardinality(S) < Cardinality(Requests)
    BY <2>2, <2>3, <2>5
  <2> QED  BY <2>1, <2>4, <2>6 DEF Refusal, Private
<1>5. CASE s = who.sub /\ CanWrite(who, seen) /\ users[s] = None
  <2>1. PICK S : S = Inserting(s)'
    OBVIOUS
  <2>2. S \subseteq Requests \ {r}
    BY <1>2, <2>1 DEF Inserting
  <2>3. /\ IsFiniteSet(Requests \ {r})
        /\ Cardinality(Requests \ {r}) = Cardinality(Requests) - 1
        /\ Cardinality(Requests) \in Nat
    BY AuthAssumption, FS_RemoveElement, FS_CardinalityType
  <2>4. Cardinality(S) \in Nat /\ Cardinality(S) <= Cardinality(Requests \ {r})
    BY <2>2, FewerRequests
  <2>5. Private(s) => refused'[s] = 0
    BY <1>5 DEF Refusals, Refusal
  <2>6. Private(s) => refused'[s] + Cardinality(S) < Cardinality(Requests)
    BY <2>3, <2>4, <2>5
  <2>7. users'[s] # None
    BY <1>5
  <2> QED  BY <2>1, <2>6, <2>7 DEF Refusal, Private
<1>6. CASE s = who.sub /\ ~CanWrite(who, seen) /\ Private(s)
  <2>1. EmailFree(who)
    BY <1>6, PrivateFree
  <2>2. seen = None /\ users[s] # None
    BY <1>6, <2>1 DEF CanWrite
  <2>3. r \in Inserting(s)
    BY <1>6, <2>2
  <2>4. PICK S, T : S = Inserting(s)' /\ T = Inserting(s)
    OBVIOUS
  <2>5. T \subseteq Requests /\ IsFiniteSet(T) /\ Cardinality(T) \in Nat
    BY <2>4, AuthAssumption, FS_Subset, FS_CardinalityType DEF Inserting
  <2>6. IsFiniteSet(T \ {r}) /\ Cardinality(T \ {r}) = Cardinality(T) - 1
    BY <2>3, <2>4, <2>5, FS_RemoveElement
  <2>7. Cardinality(S) \in Nat /\ Cardinality(S) <= Cardinality(T \ {r})
    BY <1>2, <2>4, <2>5, FewerRequests
  <2>8. refused[s] \in Nat /\ Cardinality(Requests) \in Nat
    BY AuthAssumption, FS_CardinalityType DEF Base, TypeOK, AuthTypeOK
  <2>9. refused[s] + Cardinality(T) < Cardinality(Requests)
    BY <1>6, <2>2, <2>4 DEF Refusals, Refusal
  <2>10. refused'[s] = refused[s] + 1
    <3>1. Cardinality(T) >= 0 /\ refused[s] # Cardinality(Requests)
      BY <2>5, <2>8, <2>9
    <3> QED  BY <1>6, <3>1 DEF Refused, Base, TypeOK, AuthTypeOK
  <2>11. refused'[s] + Cardinality(S) < Cardinality(Requests)
    BY <2>5, <2>6, <2>7, <2>8, <2>9, <2>10
  <2>12. users'[s] # None
    BY <1>6, <2>2
  <2> QED  BY <2>4, <2>11, <2>12 DEF Refusal
<1>7. CASE ~Private(s)
  BY <1>7 DEF Refusal, Private
<1> QED  BY <1>3, <1>4, <1>5, <1>6, <1>7

LEMMA RefusalsInit == Init => Refusals
BY DEF Init, AuthInit, Refusals, Refusal

LEMMA RefusalsKept == Base /\ Refusals /\ [Next]_vars => Refusals'
<1> SUFFICES ASSUME Base, Refusals, [Next]_vars PROVE Refusals'
  OBVIOUS
<1>1. ASSUME NEW r \in Requests, NEW login \in Logins, LoginBegin(r, login)
      PROVE  Refusals'
  <2>1. PICK q : q = [Idle EXCEPT !.pc = "login", !.who = login, !.seen = Found(login.sub)]
    OBVIOUS
  <2>2. q.pc = "login" /\ (q.seen = None => users[q.who.sub] = None)
    BY <2>1 DEF Idle, Found
  <2>3. UNCHANGED <<users, refused>> /\ request' = [request EXCEPT ![r] = q]
    BY <1>1, <2>1 DEF LoginBegin, authVars
  <2> QED  BY <2>2, <2>3, OneInserts
<1>2. ASSUME NEW r \in Requests, LoginWrite(r)
      PROVE  Refusals'
  <2>1. PICK who, seen : who = request[r].who /\ seen = request[r].seen
    OBVIOUS
  <2>2. /\ who \in Logins /\ (seen # None => users[who.sub] # None)
        /\ seen = None => r \in Inserting(who.sub)
    BY <1>2, <2>1 DEF LoginWrite, At, Base, Sound, Inserting
  <2>3. /\ who \in Identities /\ who.sub \in Subs /\ who.email # None
        /\ users \in [Subs -> Emails \cup {None}]
    BY <2>2, Identified, AuthAssumption DEF User, Identities, Base, TypeOK, AuthTypeOK
  <2>4. CASE CanWrite(who, seen)
    <3>1. /\ refused' = refused
          /\ users' = IF seen = who.email THEN users ELSE [users EXCEPT ![who.sub] = who.email]
      BY <1>2, <2>1, <2>4 DEF LoginWrite
    <3>2. users'[who.sub] # None
      BY <2>2, <2>3, <3>1
    <3> QED  BY <1>2, <2>2, <2>3, <2>4, <3>1, <3>2, RefusalsByWriting DEF LoginWrite, Insertion
  <2>5. CASE ~CanWrite(who, seen)
    <3>1. Refused(who.sub) /\ UNCHANGED users
      BY <1>2, <2>1, <2>5 DEF LoginWrite
    <3> QED  BY <1>2, <2>2, <2>3, <2>5, <3>1, RefusalsByWriting DEF LoginWrite, Insertion
  <2> QED  BY <2>4, <2>5
<1>3. ASSUME NEW r \in Requests, NEW k \in Sessions, RefreshBegin(r, k)
      PROVE  Refusals'
  <2>1. PICK q : q = [Idle EXCEPT !.pc = "issue", !.session = k,
                                  !.who = UserOf(session[k].sub)]
    OBVIOUS
  <2>2. q.pc = "issue"
    BY <2>1 DEF Idle
  <2>3. UNCHANGED <<users, refused>> /\ request' = [request EXCEPT ![r] = q]
    BY <1>3, <2>1 DEF RefreshBegin, authVars
  <2> QED  BY <2>2, <2>3, OneInserts
<1>4. ASSUME NEW r \in Requests, NEW pc \in {"idle", "delete", "exchange", "setex"}, Goes(r, pc),
             UNCHANGED <<users, refused>>
      PROVE  Refusals'
  <2>1. pc \notin Insertion
    BY DEF Insertion
  <2> QED  BY <1>4, <2>1, GoesAway, NobodyInserts
<1>5. ASSUME UNCHANGED <<users, refused, request>>
      PROVE  Refusals'
  BY <1>5, NobodyInserts
<1>6. ASSUME NEW k \in Sessions, Logout(k) \/ SessionExpires(k) \/ AccessExpires(k)
      PROVE  Refusals'
  BY <1>5, <1>6 DEF Logout, SessionExpires, AccessExpires
<1>7. ASSUME NEW r \in Requests, NEW k \in Sessions, ConnectBegin(r, k)
      PROVE  Refusals'
  <2>1. PICK q : q = Connecting(UserOf(access[k]), "setex")
    OBVIOUS
  <2>2. q.pc = "setex"
    BY <2>1 DEF Connecting, Idle
  <2>3. UNCHANGED <<users, refused>> /\ request' = [request EXCEPT ![r] = q]
    BY <1>7, <2>1 DEF ConnectBegin, authVars
  <2> QED  BY <2>2, <2>3, OneInserts
<1>8. ASSUME NEW r \in Requests, ConnectAnonymous(r)
      PROVE  Refusals'
  <2>1. PICK pc : pc = IF Found(Dev.sub) = None THEN "provision" ELSE "setex"
    OBVIOUS
  <2>2. PICK q : q = Connecting(Dev, pc)
    OBVIOUS
  <2>3. q.pc = pc /\ pc # "login" /\ (pc = "provision" => users[Dev.sub] = None)
    BY <2>1, <2>2 DEF Connecting, Idle, Found
  <2>4. UNCHANGED <<users, refused>> /\ request' = [request EXCEPT ![r] = q]
    BY <1>8, <2>1, <2>2 DEF ConnectAnonymous, authVars
  <2> QED  BY <2>3, <2>4, OneInserts
<1>9. ASSUME NEW r \in Requests, Provision(r)
      PROVE  Refusals'
  <2>1. Dev \in Identities /\ r \in Inserting(Dev.sub)
    BY <1>9 DEF Provision, Inserting, Identities
  <2>2. CASE CanWrite(Dev, None)
    <3>1. /\ refused' = refused /\ users' = [users EXCEPT ![Dev.sub] = Dev.email]
          /\ Goes(r, "setex")
      BY <1>9, <2>2 DEF Provision
    <3>2. users'[Dev.sub] # None
      BY <3>1, Identified, AuthAssumption DEF User, Base, TypeOK, AuthTypeOK
    <3> QED  BY <2>1, <2>2, <3>1, <3>2, RefusalsByWriting DEF Insertion
  <2>3. CASE ~CanWrite(Dev, None)
    <3>1. Refused(Dev.sub) /\ UNCHANGED users /\ Goes(r, "idle")
      BY <1>9, <2>3 DEF Provision
    <3> QED  BY <2>1, <2>3, <3>1, RefusalsByWriting DEF Insertion
  <2> QED  BY <2>2, <2>3
<1>10. ASSUME NEW r \in Requests, NEW c \in Procs, NEW s \in States, SetState(r, c, s)
       PROVE  Refusals'
  <2>1. UNCHANGED <<users, refused>> /\ Goes(r, "idle")
    BY <1>10 DEF SetState, authVars
  <2> QED  BY <1>4, <2>1
<1>11. ASSUME NEW r \in Requests, NEW c \in Procs, NEW s \in States, CallbackBegin(r, s, c)
       PROVE  Refusals'
  <2>1. PICK late : late = CASE s \in spent -> "spent"
                             [] s \notin spent /\ age[s] = Ttl -> "expired"
                             [] OTHER -> "no"
    OBVIOUS
  <2>2. PICK q : q = [Idle EXCEPT !.pc = "get", !.state = s, !.proc = c, !.late = late]
    OBVIOUS
  <2>3. q.pc = "get"
    BY <2>2 DEF Idle
  <2>4. UNCHANGED <<users, refused>> /\ request' = [request EXCEPT ![r] = q]
    BY <1>11, <2>1, <2>2 DEF CallbackBegin, authVars
  <2> QED  BY <2>3, <2>4, OneInserts
<1>12. ASSUME NEW r \in Requests, Get(r) \/ Delete(r) \/ Store(r) \/ RefreshIssue(r)
       PROVE  Refusals'
  <2>1. UNCHANGED <<users, refused>>
    BY <1>12 DEF Get, Delete, Store, RefreshIssue, authVars
  <2>2. \E pc \in {"idle", "delete", "exchange", "setex"} : Goes(r, pc)
    BY <1>12 DEF Get, Delete, Store, RefreshIssue, Raises, Pop, Take
  <2> QED  BY <1>4, <2>1, <2>2
<1>13. ASSUME NEW r \in Requests, Exchange(r)
       PROVE  Refusals'
  <2>1. UNCHANGED <<users, refused>>
    BY <1>13 DEF Exchange, authVars
  <2>2. CASE Goes(r, "idle")
    BY <1>4, <2>1, <2>2
  <2>3. ASSUME NEW row,
               request' = [request EXCEPT ![r] = [request[r] EXCEPT !.pc = "store", !.row = row]]
        PROVE  Refusals'
    <3>1. PICK q : q = [request[r] EXCEPT !.pc = "store", !.row = row]
      OBVIOUS
    <3>2. q.pc = "store"
      BY <3>1 DEF Base, TypeOK, AuthTypeOK, RequestState
    <3> QED  BY <2>1, <2>3, <3>1, <3>2, OneInserts
  <2> QED  BY <1>13, <2>2, <2>3 DEF Exchange
<1>14. ASSUME NEW sub \in Subs, Disconnect(sub)
       PROVE  Refusals'
  <2>1. UNCHANGED <<users, refused>>
    BY <1>14 DEF Disconnect, authVars
  <2>2. ASSUME NEW x \in Requests, request'[x].pc \in Insertion PROVE request'[x] = request[x]
    <3>1. request[x] \in RequestState
      BY DEF Base, TypeOK, AuthTypeOK
    <3>2. \/ request'[x] = request[x]
          \/ request[x].pc = "store" /\ request'[x] = [request[x] EXCEPT !.row = "gone"]
      BY <1>14 DEF Disconnect, At
    <3> QED  BY <2>2, <3>1, <3>2 DEF RequestState, Insertion
  <2> QED  BY <2>1, <2>2, NobodyInserts
<1>15. CASE Tick \/ LoseRedis \/ RedisReturns \/ UNCHANGED vars
  BY <1>5, <1>15 DEF Tick, LoseRedis, RedisReturns, vars, authVars
<1>16. ASSUME NEW c \in Procs, ProcDies(c)
       PROVE  Refusals'
  <2>1. UNCHANGED <<users, refused>>
    BY <1>16 DEF ProcDies, authVars
  <2>2. \A x \in Requests : request'[x].pc \in Insertion => request'[x] = request[x]
    BY <1>16 DEF ProcDies, Idle, Insertion
  <2> QED  BY <2>1, <2>2, NobodyInserts
<1> QED
  BY <1>1, <1>2, <1>3, <1>6, <1>7, <1>8, <1>9, <1>10, <1>11, <1>12, <1>13, <1>14, <1>15, <1>16
  DEF Next, AuthNext, ConnectNext

LEMMA RefusalsAlways == Spec => [](Base /\ Refusals)
BY BaseInit, BaseKept, RefusalsInit, RefusalsKept, PTL DEF Spec

\* A user whose email nobody else has is refused by the unique keys less often
\* than there are requests at a time: only in the race for its first row.
THEOREM RefusalsBoundedAlways == Spec => []RefusalsBounded
<1>1. ASSUME Base, Refusals, NEW s \in Subs, Private(s)
      PROVE  refused[s] < Cardinality(Requests)
  <2>1. Cardinality(Requests) \in Nat /\ Cardinality(Requests) # 0
    BY AuthAssumption, FS_CardinalityType, FS_EmptySet
  <2>2. refused[s] \in Nat
    BY <1>1, <2>1 DEF Base, TypeOK, AuthTypeOK
  <2>3. Cardinality(Inserting(s)) \in Nat
    BY FewerRequests DEF Inserting
  <2> QED  BY <1>1, <2>1, <2>2, <2>3 DEF Refusals, Refusal
<1>2. Base /\ Refusals => RefusalsBounded
  BY <1>1 DEF RefusalsBounded
<1> QED  BY <1>2, RefusalsAlways, PTL

=============================================================================
