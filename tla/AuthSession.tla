---------------------------- MODULE AuthSession ----------------------------
(***************************************************************************)
(* Logging in, refreshing and logging out (routes/auth.py): the table of   *)
(* users, with its two unique columns, and the table of sessions.          *)
(*                                                                         *)
(* A handler reads in one step and writes in another; an INSERT or UPDATE  *)
(* that meets a unique key raises IntegrityError, which no handler         *)
(* catches: the request ends with 500 and its transaction is rolled back.  *)
(* Google and Firebase vouch for a subject of their own each, so one       *)
(* person may be two subjects with one email.  AccountsConnect adds the    *)
(* requests of routes/accounts.py, which share the users and the server.   *)
(***************************************************************************)
EXTENDS Naturals, FiniteSets

CONSTANTS
    Requests,   \* requests that may be handled at the same time
    Logins,     \* [sub, email] pairs the identity providers vouch for
    Dev,        \* the [sub, email] of the local development user
    Sessions,   \* bound: refresh tokens in use at the same time
    States,     \* bound: PKCE states ever generated (AccountsConnect)
    Procs,      \* API processes (AccountsConnect)
    None

Identities == Logins \cup {Dev}
Subs == {i.sub : i \in Identities}
Emails == {i.email : i \in Identities}

ASSUME AuthAssumption ==
    /\ None \notin Subs \cup Emails \cup Sessions \cup States \cup Procs
    /\ Identities \subseteq [sub : Subs, email : Emails]
    /\ Dev \notin Logins
    /\ IsFiniteSet(Requests) /\ Requests # {}

VARIABLES
    users,     \* users[s]: the email in the row with google_sub s, or None
    session,   \* session[k]: the user_sessions row for refresh token k
    access,    \* access[k]: user of an unexpired access token got with k
    request,   \* request[r]: where a request is
    refused    \* refused[s]: requests for s that ended in IntegrityError

authVars == <<users, session, access, refused>>

User == [sub : Subs, email : Emails]
UserOf(sub) == [sub |-> sub, email |-> users[sub]]

SessionRow == [state : {"none", "live", "expired"}, sub : Subs \cup {None}]
NoSession == [state |-> "none", sub |-> None]

\* seen is the email or the account row the handler has read, late how the
\* PKCE state of a callback stood when the request came in.
RequestState ==
    [pc : {"idle", "login", "issue", "provision", "setex", "get", "delete", "exchange", "store"},
     who : User \cup {None}, seen : Emails \cup {None},
     session : Sessions \cup {None}, state : States \cup {None},
     proc : Procs \cup {None}, row : {"none", "found", "gone"},
     late : {"no", "spent", "expired"}]

Idle == [pc |-> "idle", who |-> None, seen |-> None, session |-> None, state |-> None,
         proc |-> None, row |-> "none", late |-> "no"]

AuthTypeOK ==
    /\ users \in [Subs -> Emails \cup {None}]
    /\ session \in [Sessions -> SessionRow]
    /\ access \in [Sessions -> Subs \cup {None}]
    /\ request \in [Requests -> RequestState]
    /\ refused \in [Subs -> 0 .. Cardinality(Requests)]

AuthInit ==
    /\ users = [s \in Subs |-> None]
    /\ session = [k \in Sessions |-> NoSession]
    /\ access = [k \in Sessions |-> None]
    /\ request = [r \in Requests |-> Idle]
    /\ refused = [s \in Subs |-> 0]

At(r, pc) == request[r].pc = pc
Goes(r, pc) == request' = [request EXCEPT ![r] = IF pc = "idle" THEN Idle ELSE [@ EXCEPT !.pc = pc]]

\* The columns google_sub and email are unique.
EmailFree(who) == \A s \in Subs \ {who.sub} : users[s] # who.email

\* IntegrityError; the count stops where no condition tells it apart.
Refused(sub) ==
    refused' = [refused EXCEPT ![sub] = IF @ = Cardinality(Requests) THEN @ ELSE @ + 1]

-----------------------------------------------------------------------------
(* Logging in                                                              *)

\* Tokens are random: a new one is none that any request or browser may use.
Fresh == {k \in Sessions : /\ session[k].state = "none" /\ access[k] = None
                           /\ \A r \in Requests : request[r].session # k}

\* Mutant: the user is inserted without a look for the row.
NothingFound(sub) == None

Found(sub) == users[sub]

\* The provider has vouched for the login and _upsert_user has read the row.
LoginBegin(r, login) ==
    /\ At(r, "idle")
    /\ Fresh # {}
    /\ request' = [request EXCEPT ![r] =
                     [Idle EXCEPT !.pc = "login", !.who = login, !.seen = Found(login.sub)]]
    /\ UNCHANGED authVars

\* The flush: an INSERT, or an UPDATE of an email that differs from the one read.
CanWrite(who, seen) ==
    \/ seen = None /\ users[who.sub] = None /\ EmailFree(who)
    \/ seen # None /\ (seen = who.email \/ EmailFree(who))

LoginWrite(r) ==
    LET who == request[r].who
        seen == request[r].seen
    IN
    /\ At(r, "login")
    /\ Goes(r, "idle")
    /\ IF CanWrite(who, seen)
       THEN /\ users' = IF seen = who.email THEN users ELSE [users EXCEPT ![who.sub] = who.email]
            /\ \E k \in Fresh :
                 /\ session' = [session EXCEPT ![k] = [state |-> "live", sub |-> who.sub]]
                 /\ access' = [access EXCEPT ![k] = who.sub]
            /\ UNCHANGED refused
       ELSE Refused(who.sub) /\ UNCHANGED <<users, session, access>>

-----------------------------------------------------------------------------
(* Sessions                                                                *)

\* POST /auth/refresh has found the session and is to issue an access token.
RefreshBegin(r, k) ==
    /\ At(r, "idle")
    /\ session[k].state = "live"
    /\ request' = [request EXCEPT ![r] =
         [Idle EXCEPT !.pc = "issue", !.session = k, !.who = UserOf(session[k].sub)]]
    /\ UNCHANGED authVars

RefreshIssue(r) ==
    /\ At(r, "issue")
    /\ access' = [access EXCEPT ![request[r].session] = request[r].who.sub]
    /\ Goes(r, "idle")
    /\ UNCHANGED <<users, session, refused>>

\* POST /auth/logout deletes the row, an expired one too; access tokens that
\* are out stay good until they expire.
Logout(k) ==
    /\ session[k].state \in {"live", "expired"}
    /\ session' = [session EXCEPT ![k] = NoSession]
    /\ UNCHANGED <<users, access, request, refused>>

\* jwt_refresh_expire_days have passed: the row stays and is not found any more.
SessionExpires(k) ==
    /\ session[k].state = "live"
    /\ session' = [session EXCEPT ![k].state = "expired"]
    /\ UNCHANGED <<users, access, request, refused>>

\* jwt_access_expire_minutes have passed.
AccessExpires(k) ==
    /\ access[k] # None
    /\ access' = [access EXCEPT ![k] = None]
    /\ UNCHANGED <<users, session, request, refused>>

AuthNext ==
    \/ \E r \in Requests :
         \/ \E login \in Logins : LoginBegin(r, login)
         \/ LoginWrite(r)
         \/ \E k \in Sessions : RefreshBegin(r, k)
         \/ RefreshIssue(r)
    \/ \E k \in Sessions : Logout(k) \/ SessionExpires(k) \/ AccessExpires(k)

-----------------------------------------------------------------------------

\* No identity with another subject is ever vouched for with an email of s.
Private(s) ==
    \A i, j \in Identities : i.sub = s /\ j.sub # s => i.email # j.email

\* Of the requests that race to insert one user, dev users included, all but
\* one fail, and that is all: once it has a row, a user whose email nobody
\* else has is never refused again.
RefusalsBounded ==
    \A s \in Subs : Private(s) => refused[s] < Cardinality(Requests)

=============================================================================
