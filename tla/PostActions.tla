---------------------------- MODULE PostActions ----------------------------
(***************************************************************************)
(* One post, one connected account, and the calls that use both: DELETE,   *)
(* repost and quote requests (routes/posts.py) and publish_single_post     *)
(* (jobs/publisher.py).                                                    *)
(*                                                                         *)
(* Every call is a session: it loads the rows, refreshes the account's     *)
(* tokens when they are about to expire, calls X, and commits.  X rotates  *)
(* refresh tokens: a refresh makes the token it used worthless.  The new   *)
(* one is flushed but not committed before the call of X, so it is lost    *)
(* with the session.  The handlers roll back when X refuses the call;      *)
(* publish_single_post commits in that case too.                           *)
(*                                                                         *)
(* PublishPipeline has a call of X as one step; this module has its parts, *)
(* and of the queue only how many calls of publish_single_post it owes:    *)
(* one for the claimed post, one more after a failure, and another for     *)
(* whatever makes the queue deliver the post again.  The call itself looks *)
(* neither at the status of the post, nor whether it is deleted, nor       *)
(* whether another one runs.                                               *)
(***************************************************************************)
EXTENDS Naturals, FiniteSets

CONSTANTS
    Agents,      \* sessions that may run at the same time
    None,
    MaxTokens,   \* bound: refresh tokens X ever hands out
    MaxQuotes,   \* bound: quote requests that reach X
    MaxFaults    \* bound: troubles of the environment

Ops == {"delete", "repost", "quote", "publish"}

ASSUME PostActionsAssumption ==
    /\ None \notin Agents \cup Ops
    /\ MaxTokens \in Nat \ {0} /\ MaxQuotes \in Nat /\ MaxFaults \in Nat

VARIABLES
    row,      \* the row of the post
    account,  \* the row of the account: refresh token, and whether it is due
    token,    \* the refresh token X would accept: the latest it handed out
    tasks,    \* calls of publish_single_post that are owed and have not begun
    tweets,   \* the tweets of the post on X that have not been deleted
    made,     \* how many X has created for it
    onX,      \* the tweets of the post that the account has reposted on X
    quotes,   \* [x: quote tweets created, rows: rows inserted for them]
    agent,    \* agent[a]: the session a runs
    blind,    \* the post was marked deleted by a request that found no
              \* published tweet in the row it had loaded
    faults    \* troubles so far, by kind

vars == <<row, account, token, tasks, tweets, made, onX, quotes, agent, blind, faults>>

-----------------------------------------------------------------------------

\* reposted stands for reposted_at, pid for platform_post_id (0 is NULL).
PostRow == [status : {"publishing", "published", "failed"}, pid : Nat,
            deleted : BOOLEAN, reposted : BOOLEAN]

\* due: token_expires_at is within the refresh buffer.
AccountRow == [refresh : Nat, due : BOOLEAN]

\* seen and acct are the rows as loaded, fresh the token a refresh returned,
\* tweet what the call of X created, ok how it ended, alone whether no other
\* repost request overlapped with this one.
Session == [op : Ops \cup {None}, pc : {"idle", "token", "call", "commit"},
            seen : PostRow, acct : AccountRow, fresh : Nat, tweet : Nat,
            ok : BOOLEAN, alone : BOOLEAN]

NewPost == [status |-> "publishing", pid |-> 0, deleted |-> FALSE, reposted |-> FALSE]

Idle == [op |-> None, pc |-> "idle", seen |-> NewPost,
         acct |-> [refresh |-> 0, due |-> FALSE], fresh |-> 0, tweet |-> 0,
         ok |-> FALSE, alone |-> FALSE]

\* A request that crashes, loses its answer or is refused; a publication that
\* is repeated, or that nobody learns the end of.
Faults == [crash : Nat, lost : Nat, refused : Nat, repeated : Nat]

TypeOK ==
    /\ row \in PostRow
    /\ account \in AccountRow
    /\ token \in 1 .. MaxTokens
    /\ tasks \in Nat
    /\ tweets \subseteq 1 .. made
    /\ made \in Nat
    /\ onX \subseteq Nat
    /\ quotes \in [x : Nat, rows : Nat]
    /\ agent \in [Agents -> Session]
    /\ blind \in BOOLEAN
    /\ faults \in Faults

\* A claimed post of an account that has just been connected.
Init ==
    /\ row = NewPost
    /\ account = [refresh |-> 1, due |-> FALSE]
    /\ token = 1
    /\ tasks = 1
    /\ tweets = {} /\ made = 0
    /\ onX = {}
    /\ quotes = [x |-> 0, rows |-> 0]
    /\ agent = [a \in Agents |-> Idle]
    /\ blind = FALSE
    /\ faults = [crash |-> 0, lost |-> 0, refused |-> 0, repeated |-> 0]

Troubles == faults.crash + faults.lost + faults.refused + faults.repeated

Trouble(kind) == Troubles < MaxFaults /\ faults' = [faults EXCEPT ![kind] = @ + 1]

\* The access token is about to expire; MaxTokens is a bound.
TokenDue ==
    /\ ~account.due
    /\ token < MaxTokens
    /\ account' = [account EXCEPT !.due = TRUE]
    /\ UNCHANGED <<row, token, tasks, tweets, made, onX, quotes, agent, blind, faults>>

\* The OAuth callback stores the tokens of a new grant.  Its UPDATE waits for
\* sessions that have flushed a refresh.
Reconnect ==
    /\ token < MaxTokens
    /\ account.due /\ account.refresh # token
    /\ \A a \in Agents : agent[a].fresh = 0
    /\ token' = token + 1
    /\ account' = [refresh |-> token + 1, due |-> FALSE]
    /\ UNCHANGED <<row, tasks, tweets, made, onX, quotes, agent, blind, faults>>

\* The queue delivers the post once more: an overlapping pass, a recovery or a
\* late mark (the faults of PublishPipeline) has led to another task.
Repeat ==
    /\ Trouble("repeated")
    /\ tasks' = tasks + 1
    /\ UNCHANGED <<row, account, token, tweets, made, onX, quotes, agent, blind>>

-----------------------------------------------------------------------------
(* Loading                                                                 *)

\* Mutant: posts are only ever deleted locally.
NeverOnX(r) == FALSE

\* The row shows a tweet.
Shown(r) == r.status = "published" /\ r.pid # 0

\* A published tweet that DELETE must remove on X before it marks the row.
ShouldDeleteOnX(r) == Shown(r) /\ ~r.deleted

\* The early returns of the handlers.  publish_single_post has none: it runs
\* whenever it is called.
Accepts(op) ==
    CASE op = "delete"  -> TRUE
      [] op = "repost"  -> ~row.deleted /\ row.pid # 0
      [] op = "quote"   -> ~row.deleted /\ row.pid # 0 /\ quotes.x < MaxQuotes
      [] op = "publish" -> tasks > 0

\* The session loads both rows.  A delete without a tweet to remove commits.
Begin(a, op) ==
    /\ agent[a].pc = "idle"
    /\ Accepts(op)
    /\ LET overlaps == {b \in Agents : agent[b].op = "repost" /\ op = "repost"}
           next == CASE op = "delete" /\ ~ShouldDeleteOnX(row) -> "commit"
                     [] account.due -> "token"
                     [] OTHER -> "call"
       IN agent' = [b \in Agents |->
            IF b = a THEN [Idle EXCEPT !.op = op, !.pc = next, !.seen = row,
                                       !.acct = account, !.alone = overlaps = {},
                                       !.ok = TRUE]
            ELSE IF b \in overlaps THEN [agent[b] EXCEPT !.alone = FALSE]
            ELSE agent[b]]
    /\ tasks' = IF op = "publish" THEN tasks - 1 ELSE tasks
    /\ UNCHANGED <<row, account, token, tweets, made, onX, quotes, blind, faults>>

-----------------------------------------------------------------------------
(* Failing: the handlers roll back, the publisher goes on to commit        *)

\* Mutant: the exception of a failed publication leaves the session as well.
RollsBackAll(s) == Idle

Failed(s) == IF s.op = "publish" THEN [s EXCEPT !.pc = "commit", !.ok = FALSE] ELSE Idle

Fail(a) == agent' = [agent EXCEPT ![a] = Failed(agent[a])]

-----------------------------------------------------------------------------
(* _get_valid_access_token                                                 *)

\* X accepts the refresh token and replaces it.
Refresh(a) ==
    /\ agent[a].pc = "token"
    /\ agent[a].acct.refresh = token /\ token < MaxTokens
    /\ token' = token + 1
    /\ agent' = [agent EXCEPT ![a] = [@ EXCEPT !.pc = "call", !.fresh = token + 1]]
    /\ UNCHANGED <<row, account, tasks, tweets, made, onX, quotes, blind, faults>>

\* Another session was faster: X answers 400.
RefreshDenied(a) ==
    /\ agent[a].pc = "token"
    /\ agent[a].acct.refresh # token
    /\ Fail(a)
    /\ UNCHANGED <<row, account, token, tasks, tweets, made, onX, quotes, blind, faults>>

\* X has replaced the token, the client sees a timeout.
RefreshLost(a) ==
    /\ agent[a].pc = "token"
    /\ agent[a].acct.refresh = token /\ token < MaxTokens
    /\ Trouble("lost")
    /\ token' = token + 1
    /\ Fail(a)
    /\ UNCHANGED <<row, account, tasks, tweets, made, onX, quotes, blind>>

-----------------------------------------------------------------------------
(* The call of X                                                           *)

\* What X does for each operation.
Effect(op, seen) ==
    /\ made' = IF op = "publish" THEN made + 1 ELSE made
    /\ tweets' = CASE op = "publish" -> tweets \cup {made + 1}
                   [] op = "delete" -> tweets \ {seen.pid}
                   [] OTHER -> tweets
    /\ onX' = IF op # "repost" THEN onX
              ELSE IF seen.reposted THEN onX \ {seen.pid} ELSE onX \cup {seen.pid}
    /\ quotes' = IF op = "quote" THEN [quotes EXCEPT !.x = @ + 1] ELSE quotes

CallSucceeds(a) ==
    /\ agent[a].pc = "call"
    /\ Effect(agent[a].op, agent[a].seen)
    /\ agent' = [agent EXCEPT ![a] =
                   [@ EXCEPT !.pc = "commit",
                             !.tweet = IF agent[a].op = "publish" THEN made + 1 ELSE 0]]
    /\ UNCHANGED <<row, account, token, tasks, blind, faults>>

\* Mutant: an answer other than 2xx is not turned into an exception.
RefusalUnnoticed(a) ==
    /\ agent[a].pc = "call"
    /\ Trouble("refused")
    /\ agent' = [agent EXCEPT ![a].pc = "commit"]
    /\ UNCHANGED <<row, account, token, tasks, tweets, made, onX, quotes, blind>>

\* HTTPStatusError: a refusal costs a handler its session, the publisher nothing.
CallRefused(a) ==
    /\ agent[a].pc = "call"
    /\ IF agent[a].op = "publish" THEN UNCHANGED faults ELSE Trouble("refused")
    /\ Fail(a)
    /\ UNCHANGED <<row, account, token, tasks, tweets, made, onX, quotes, blind>>

\* A trouble that may make the queue publish the post twice.
Kind(a, kind) == IF agent[a].op = "publish" THEN "repeated" ELSE kind

\* X has done it, the client sees a timeout: no handler catches that, and the
\* publisher takes it for a failure.
CallLost(a) ==
    /\ agent[a].pc = "call"
    /\ Trouble(Kind(a, "lost"))
    /\ Effect(agent[a].op, agent[a].seen)
    /\ Fail(a)
    /\ UNCHANGED <<row, account, token, tasks, blind>>

-----------------------------------------------------------------------------
(* Committing                                                              *)

\* Mutant: the column is never cleared.
AlwaysSet(s) == [row EXCEPT !.reposted = TRUE]

\* reposted_at follows the row that was loaded, as the call of X did.
Toggled(s) == [row EXCEPT !.reposted = ~s.seen.reposted]

\* Mutant: a failed publication hands the post back to the scheduler.
WrittenBack(s, status) == IF status = "failed" THEN "scheduled" ELSE status

\* The ORM writes a status that differs from the one loaded.
Written(s, status) == IF s.seen.status = status THEN row.status ELSE status

Stored(s) ==
    CASE s.op = "delete"  -> [row EXCEPT !.deleted = TRUE]
      [] s.op = "repost"  -> Toggled(s)
      [] s.op = "quote"   -> row
      [] s.op = "publish" -> IF s.ok
                             THEN [row EXCEPT !.status = Written(s, "published"), !.pid = s.tweet]
                             ELSE [row EXCEPT !.status = Written(s, "failed")]

\* A failed publication may have another attempt: it is owed at once.
Owed(s) == IF s.op = "publish" /\ ~s.ok THEN {tasks, tasks + 1} ELSE {tasks}

\* The refreshed tokens are committed together with the rest.
Commit(a) ==
    LET s == agent[a] IN
    /\ s.pc = "commit"
    /\ row' = Stored(s)
    /\ account' = IF s.fresh = 0 THEN account ELSE [refresh |-> s.fresh, due |-> FALSE]
    /\ quotes' = IF s.op = "quote" THEN [quotes EXCEPT !.rows = @ + 1] ELSE quotes
    /\ blind' = (blind \/ (s.op = "delete" /\ ~s.seen.deleted /\ ~Shown(s.seen)))
    /\ tasks' \in Owed(s)
    /\ agent' = [agent EXCEPT ![a] = Idle]
    /\ UNCHANGED <<token, tweets, made, onX, faults>>

\* The process dies, the task is cancelled, or the commit fails.  ARQ delivers
\* the task of a worker that died again.
Crash(a) ==
    /\ agent[a].pc # "idle"
    /\ Trouble(Kind(a, "crash"))
    /\ tasks' \in IF agent[a].op = "publish" THEN {tasks, tasks + 1} ELSE {tasks}
    /\ agent' = [agent EXCEPT ![a] = Idle]
    /\ UNCHANGED <<row, account, token, tweets, made, onX, quotes, blind>>

Next ==
    \/ TokenDue
    \/ Reconnect
    \/ Repeat
    \/ \E a \in Agents :
         \/ \E op \in Ops : Begin(a, op)
         \/ Refresh(a) \/ RefreshDenied(a) \/ RefreshLost(a)
         \/ CallSucceeds(a) \/ CallRefused(a) \/ CallLost(a)
         \/ Commit(a)
         \/ Crash(a)

Spec == Init /\ [][Next]_vars

-----------------------------------------------------------------------------
(* What the operations promise                                             *)

\* The stored refresh token is the one X accepts, or the session that has its
\* successor is about to commit it; only an unanswered or refused request, or
\* a crash, can cost the user the connection.  Refused publications never do.
AccountKept ==
    \/ account.refresh = token
    \/ \E a \in Agents : agent[a].fresh = token
    \/ Troubles > 0

\* A post that a user deleted is gone from X: no tweet of it is left there but
\* one for every publication that was repeated or broke off without an answer,
\* whatever was attempted, retried and deleted at the same time.  Requests that
\* found no published tweet in the row delete none: they may have come before
\* the publication they raced with was committed, or after a failed repetition.
DeletedIsGone == row.deleted => blind \/ Cardinality(tweets) <= faults.repeated

\* The quote tweets on X have their rows: each row has its tweet, and a tweet
\* without a row is one a session is about to insert or a trouble has orphaned.
QuotesHaveRows ==
    LET pending == Cardinality({a \in Agents : agent[a].op = "quote" /\ agent[a].pc = "commit"})
    IN /\ quotes.rows + pending <= quotes.x
       /\ quotes.x <= quotes.rows + pending + Troubles

\* A repost request that no other one overlaps leaves row and X in agreement
\* on its tweet, also after troubles or overlapping requests have set them apart.
ToggleAligns ==
    [][\A a \in Agents :
         LET s == agent[a] IN
         s.op = "repost" /\ s.alone /\ s.pc = "commit" /\ agent'[a] = Idle /\ faults' = faults
           => row'.reposted = (s.seen.pid \in onX')]_vars

=============================================================================
