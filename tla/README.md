# A verification project for the Post Scheduler backend

The backend schedules posts for X: users write posts through a FastAPI
application, background jobs publish them when they are due, and other jobs
collect their metrics.  This directory holds TLA+ specifications of the program,
TLC configurations that check them on small instances, and proofs checked by
TLAPS.  Paths are relative to the root of the repository, where `src/app/...` is
written `app/...`.

## 1. Inventory

### Components

| component | state it keeps | operations | correct when |
|---|---|---|---|
| Job queue (`core/job_queue.py`, `models/job_queue.py`) | rows of `job_queue`: status, `attempt_count`, `next_retry_at` | create if missing, mark running / enqueued / completed / failed, select retryable | one open job per post, attempts bounded, finished jobs stay finished |
| Publish reconciler (`core/reconciler.py:24-97`) | claimed posts, `queue_items` of the pass | lock, claim + create jobs + collect retries in one transaction, enqueue each, mark it, release | due posts get a task, no task twice, a failing item harms no other |
| Redis lock (`core/redis.py`) | one key, token, TTL | SET NX EX, compare-and-delete | exclusive, never stolen, always returns |
| Publisher (`jobs/publisher.py`) | post rows; a session open across the call of X | claim (legacy), publish one post, classify errors, refresh token, upload media | a post is tweeted once, in thread order, its row says so |
| Stale recovery (`jobs/publisher.py:227-245`) | - | `publishing` older than ten minutes becomes `scheduled` | nothing is stuck, nothing is published twice |
| ARQ task (`jobs/publisher_task.py`, `core/arq_worker.py`, `core/job_types.py`) | tasks in Redis, running tasks | run one attempt, report it in the job row | the report matches the attempt |
| Posts API (`routes/posts.py`) | post rows | create, patch, delete (remote first), repost, quote | an edit never corrupts what the pipeline does |
| Accounts API (`routes/accounts.py`) | connected accounts, PKCE states in Redis or memory | connect, callback, disconnect | a state is used once; tokens are not lost |
| Analytics jobs (`jobs/analytics.py`, `analytics_task.py`, `core/reconciler.py:100-170`) | snapshots, analytics jobs | same queue discipline as publishing | jobs do not pile up, snapshots are complete |
| Analytics API (`routes/analytics.py`) | cooldown and budget counters in Redis, fallback in memory | manual refresh | limits hold and expire |
| Authentication (`routes/auth.py`, `dependencies/auth.py`) | users, sessions (hash of the refresh token) | login, refresh (the same refresh token goes on being used), logout, CSRF check | a session ends by logout or expiry; a user whose email nobody shares can log in |
| X API client (`services/x_api.py`) | - | post, reply, quote, delete, media upload with polling | errors are classified correctly |
| Storage, security helpers, health, jobs API, scripts, migrations | none of interest | - | - |

### How they interact

Every API process runs an APScheduler (`app/main.py:27-51`): depending on flags it
runs the legacy publisher (claims and publishes in the process) and the
reconciler (claims and queues), and always the stale recovery.  The ARQ worker is
a process of its own with several tasks at a time.  They share two tables, `posts` and
`job_queue`, and one Redis.  Nothing links a `posts` row and its `job_queue`
row but the order in which separate transactions write them.

### What is hard

* *Interleaving*: several API processes, worker slots and users write the same
  rows in separate transactions; the task may run before the row says it is queued.
* *Crashes*: between the call of X and the commit; with the lock held; with a list
  of claimed posts in memory.
* *Ambiguous outcomes*: X has the tweet, the client has a timeout.
* *Timeouts*: the lock's TTL, the recovery's threshold, ARQ's job timeout - each
  fires without knowing whether the other side is dead or slow.
* *Liveness*: a failed enqueue, a dead task or an aborted pass must not strand a post.

`PROJECT.json` lists each hazard at its line, with the properties about it.

## 2. Modules

| module | what it models |
|---|---|
| `PostLifecycle` | the abstract specification: the status of a post and the tweets X has, without jobs, tasks, locks or processes |
| `JobQueue` | the transitions of one `job_queue` row, as pure operators |
| `PublishPipeline` | the path of a post to X: reconciler, lock, ARQ, worker, legacy publisher, recovery, users, faults. Uses `JobQueue` for every job row and implements `PostLifecycle` |
| `AnalyticsPipeline` | the analytics reconciler, its jobs and tasks, the legacy sweep; on `JobQueue` too |
| `PostActions` | one post and its account: delete, repost, quote, publish, with the token refresh, the call of X and the commit apart |
| `MediaUpload` | the media of a tweet: download, upload, the polling loop, retries and the job timeout |
| `RefreshLimiter` | cooldown and budget of the manual refresh: Redis commands one by one, the fallback in memory |
| `AuthSession` | users and sessions: login, refresh, logout |
| `AccountsConnect` | extends `AuthSession` with the PKCE flow: `x_connect`, `x_callback`, disconnection, Redis and the in-memory store |
| `MCPublish`, `MCAnalytics`, `MCPostActions`, `MCLimiter`, `MCConnect` | the instances TLC checks (`MediaUpload` needs none) |
| `PublishPipelineProofs` | theorems: types, and what holds of `PublishPipeline` whatever goes wrong |
| `PublishPipelineTokenProofs` | extends it: why tweets and attempts do not multiply |
| `PublishPipelineCalmProofs` | extends that: one tweet, one flight and the refinement while nothing worse than a refused task happens |
| `AnalyticsPipelineProofs`, `PostActionsProofs`, `MediaUploadProofs`, `AccountsConnectProofs`, `RefreshLimiterProofs` | the theorems about each of these modules |

The modules meet where the code does: `JobQueue` is shared by the two pipelines as
`core/job_queue.py` is; `AccountsConnect` runs on the requests and users of
`AuthSession`; `PostActions` and `MediaUpload` open up what is one step, the call of
X, in `PublishPipeline`.

### State of `PublishPipeline`

| variable | in the program |
|---|---|
| `post[p]` | the row in `posts`: `status`; `due` (`scheduled_for` against now); `stale` (`updated_at` older than the threshold); `deleted`; `linked` (`connected_account_id` is set); `pid` (`platform_post_id`, as the number of the tweet) |
| `job[j]` | the row in `job_queue`; the id `<<p, n>>` is the n-th publish job of `p` |
| `arq[j]` | how many tasks for `j` wait in Redis (every enqueue has a task id of its own) |
| `lock` | the process whose token `reconciler:publish:lock` holds |
| `rec[i]` | the `reconcile_publish_jobs` run of process `i`: where it is and what is left of `queue_items` |
| `todo[i]` | the posts `publish_due_posts` of `i` has claimed and not yet published |
| `exec[e]` | the `publish_single_post` call of a worker slot or of a process: the status its session loaded, what X answered |
| `made`, `gone` | tweets X has created for a post, tweets deleted again |
| `faults` | how many faults have happened |

### Actions of `PublishPipeline`

One action is one database transaction, one Redis command or one call of X.

* **Reconciler** `ReconcileAcquire` (31-40), `ReconcileClaim` (the whole transaction
  43-77), `ReconcileAbort` (`scalar_one_or_none` raises: rolled back, lock
  released), `ReconcileEnqueue` and `ReconcileMark` (85 and 86-90, with anything between
  them), `ReconcileEnqueueFails`, `ReconcileMarkFails` (92-93), `ReconcileRelease` (96-97).
* **Worker** `WorkerStart` (ARQ hands out the task, `mark_job_running` commits), `Load`
  (the session reads the post: its later writes are relative to this),
  `CallPublishes`, `CallBlocked`, `CallFails`, `CallAnswerLost` (the call of X, one
  step, every outcome), `Save` (the commit), `Report` (the wrapper's last transaction).
  `Load` ... `Save` also run in the legacy publisher, without `Report`.
* **Legacy publisher** `LegacyClaim`, `LegacyNext`; **recovery** `RecoverStale`.
* **Users** `CreatePost`, `PatchPost`, `DeletePost`, `DisconnectAccount`.
* **Time** `PostDue`, `RetryDue`, `GoStale`, `LockExpires`.
* **Trouble** `InstanceCrash`, `WorkerCrash`, `TaskDies`, `SlowPublish`, `LockOvertaken`,
  `CallAnswerLost`, and the two failures in the reconciler's loop.

The ORM writes only the columns whose value differs from the one its session
loaded.  `OrmWrite` models that: a call that loaded `published` and publishes again does
not write the status, and so may leave a status another transaction wrote meanwhile.

### Abstractions of `PublishPipeline`

* Clocks are the comparisons the code makes: a timestamp is NULL, in the future or
  not.  `GoStale` is the recovery threshold passing for a post nobody is going to publish; the same for
  a post somebody still is going to publish is the fault `SlowPublish`, because a task is cancelled after
  two minutes and the threshold is ten: it takes a backlog or a long legacy pass.
* A database transaction takes effect at its commit.  The increment of
  `attempt_count` and the user handlers are therefore atomic, the latter with the deletion on X in it.
* ARQ is modelled as the code uses it: a bag of tasks, each handed out to some slot; a task whose worker dies
  is queued again; a task that ends with an exception is over.  ARQ's own limit on redeliveries is not modelled:
  faults are bounded instead.
* All posts are for X and share one connected account.  `error_message`, timestamps nobody
  compares and the order of `queue_items` are left out.
* A failing claim transaction (other than `ReconcileAbort`) and a failing release are not
  separate actions: the first leaves the state as it was, the second is a run that dies with its
  lock (`InstanceCrash`).

### `PostLifecycle` and the mapping

`PublishPipeline` contains `Lifecycle`, an instance of `PostLifecycle` in which `shown[p]`
is the status of the row and `tweets[p]` the number of tweets X has created.
`ImplementsLifecycle` is its specification as a property: a claim and a recovery move sets of
posts, a call that publishes is `Tweet`, the commit is `Settle`, and all else
(jobs, tasks, locks, marks) stutters.  It holds without user edits and without the
faults that cost a duplicate; those break the promise in the code as well (section 4).

### `AnalyticsPipeline`

| variable | in the program |
|---|---|
| `post[p]` | what the queries look at: not published, published within the week, older, deleted |
| `job`, `arq`, `lock` | as in `PublishPipeline`, for `job_type` analytics and `reconciler:analytics:lock` |
| `rec[i]` | the pass of a process: what its queries returned (`new`), what is left of `queue_items` |
| `task[s]` | `fetch_analytics_job` in a slot, with the row its first session has loaded (`seen`) |
| `rows` | who has saved rows of `post_analytics` |
| `spent[j]`, `passes` | executions of a job, passes started: history and bound |

`reconcile_analytics_jobs` claims nothing, so the transaction has two steps, `Select`
and `Commit`, and an open job is queued again by every pass that selects its post.  The query has a LIMIT and no
ORDER BY: `Batches` are the sets of posts it may return, `BatchSize` its limit (100).  `Others` are posts that
only compete for places in a batch.  The legacy sweep has a limit too (50); `SweepSaves` may come for any post or never.  `mark_job_running` has two
steps as well, `TaskLoads` and `TaskStarts`: `attempt_count` is what was loaded, plus one.
`FetchSaves` and `FetchFails` are `fetch_analytics_for_post`, `Report` the last
session, `SweepSaves` the legacy `fetch_published_analytics`.

### `PostActions`

`Begin` loads the rows and makes the early returns of a handler; `publish_single_post` has none (`publisher.py:68-84` looks
neither at the status nor at `is_deleted`) and runs whenever a call of it is owed.  `tasks` counts those
calls: one for the claimed post, perhaps one more after every failure, and `Repeat` for what makes the queue
deliver a post again (the faults of `PublishPipeline`), be it published or deleted meanwhile.
`Refresh`, `RefreshDenied`, `RefreshLost` are the three ends of
`_get_valid_access_token`; `CallSucceeds`, `CallRefused`, `CallLost` those of the
call of X; `Commit` writes the row and the new tokens together.  X is `token` (the
refresh token it accepts), `tweets`, `onX` (the tweets reposted) and `quotes.x`.  A refused call
rolls a handler back, new token included; the publisher catches it, and commits.  `faults` counts the troubles by kind:
a publication that is repeated, crashes or loses its answer is `repeated`, and pays for one tweet.

### `MediaUpload`

One attempt after the other, each with its list of media ids (`ids`).  `Poll` is one turn of
the loop of `_wait_for_media_processing`, `Process` is X finishing a medium meanwhile,
`Cancel` is ARQ's job timeout.  The initial states have every caller, with and without the
scope, and every kind of file.

### `RefreshLimiter`

One action per Redis command: `SetLock`, `Incr`, `Expire`, `AskTtl`.  Each may be executed and
its reply lost (`Replies`); the exception leads to the fallback, which needs no
`await` and is one action, `FallbackRefuses` or `FallbackCounts`.  `spent`, `local` and `passed` are history:
`f[n]` counts what was allowed in the last `n` ticks and the present one, which is what a limit on a stretch
of time is about.  The dictionary of hits is kept as such counts too.

### `AuthSession` and `AccountsConnect`

A handler reads in one action and writes in another: `LoginBegin`/`LoginWrite`,
`RefreshBegin`/`RefreshIssue`, `ConnectAnonymous`/`Provision` (the development user), `Get`,
`Delete`, `Exchange`, `Store` for the callback.  Google and Firebase vouch for subjects of
their own, so one person may be two subjects with one email, which is a unique column.
A payload is `redis[s]` or `memory[c][s]`, as the time it has left.  `late` remembers how
the state of a callback stood when its request came in.

### Abstractions of these modules

* Counters stop at the value beyond which no condition tells them apart (`Capped`, `refused`, `budget.hits`).
* Time is ticks where lengths are compared (limiter, PKCE), a comparison elsewhere.
* `PostActions` has one post, and neither PATCH nor the claim: a failed publication owes its retry at once, and which job
  or lock let a task be repeated is `PublishPipeline`'s business.
* Tokens, states and sessions are identities: unguessable means fresh.
* X is what the code assumes of it: refresh tokens rotate, a call may be done and its answer lost.

## 3. Runs

`p2` replies to `p1` where a thread is used.

| run | instance | faults | states | checks |
|---|---|---|---|---|
| `calm` | 2 posts (thread), 2 processes, 2 slots, both publishers | 1 failed enqueue | 27 k | the refinement of `PostLifecycle`, and the seven properties that hold when the bookkeeping is intact |
| `faults` | 1 post, 2 processes, 2 slots, reconciler | 3 of any kind but edits | 271 k | duplicates and attempts are paid for by faults, one job per post, the lock is not stolen |
| `users` | 1 post, both publishers, 1 process, 1 slot, 3 jobs | 2 faults or edits | 591 k | duplicates under edits; deleted posts stay out |
| `live` | 1 post, both publishers, 2 processes, 2 slots | 1 of any kind but edits | 38 k | due posts settle, the lock returns |
| `analytics` | 1 post with up to 3 jobs, 2 processes, 2 slots, 3 passes | 1 lock that expires | 3.8 M | snapshots, no piling up of jobs, attempts under lost increments |
| `analytics_live` | 1 post with up to 2 jobs, 1 other post, a batch of 1, 1 process, 1 slot, sweep | 1 of any kind | 519 k | open jobs end |
| `actions` | 2 sessions, 3 tokens, 1 quote | 2 of: a crash, a lost or refused call, a repeated publication | 5.5 M | tokens, deletion, quotes, reposts |
| `media` | 2 media, 3 polls, 2 attempts | every answer of X | 62 k | tweets are complete, attempts end |
| `limiter` | 2 posts, 2 processes, 2 requests, budget 2, window 2 ticks | 1 outage or restart | 1.3 M | budgets, cooldown, orphaned keys |
| `connect` | 2 requests, 2 users and the development user with an email each, one of them changes it, 1 state, 2 processes, both environments | 1 outage or restart | 1.6 M | PKCE states, refusals of logins |

`calm` allows a failed enqueue because the pipeline handles that one itself; it is also the
way into the recovery without any duplicate.  The other faults cost a duplicate each, which
is why `AtMostOneTweet` is replaced by `DuplicatesPaidFor` (at most one tweet more per
fault) where they are allowed.  An edit pays for one tweet only while one process reconciles, as in `users`:
with two, a pass that is overtaken repeats the second job of the edit as well.

Two properties state what a comment or the documentation says of the program and are
refuted by what the code does:

| run | property | what happens |
|---|---|---|
| `stale_recovery` | `AtMostOneTweet` | a task waits ten minutes, the recovery resets its post, a second task is queued, both publish (`publisher.py:231`: "safe to retry") |
| `lost_retry` | `FailedJobRetried` | `mark_job_enqueued` commits after the task has failed and clears `next_retry_at`: the job is never retried (plan, line 57: "failed -> queued (retry)"). No fault is needed |

### Bounds

`MaxFaults` bounds the faults and edits, `MaxJobs` the jobs of a post, `MaxAttempts` is
`arq_max_tries`.  Two processes are enough to contend for a lock or a claim, two slots to run two tasks
of a post at a time, two posts for a thread; symmetry is
used in safety runs only.  `MaxJobs` is 2 except where two edits could ask for a third job (3);
`OneJobPerPost` shows that one is enough when no user edits.

`AnalyticsPipeline`: three passes are the least in which a job fails, a second is opened beside it and both
are queued.  `FreshJobsPaidFor` allows two fresh jobs after the lost lock, so `analytics` has room for a third.
`MaxQueued` is 1: a second waiting task of a job is the same as a first one queued later.  The
liveness run bounds the jobs instead of the passes, which go on for ever.  With a batch of one and two posts a pass may
miss the followed post, and with two jobs of it passes may abort: without either exception
`OpenJobEnds` is refuted in this run.  `MaxAttempts` is 1 there; two open jobs come about through a task that starts late, too.

`PostActions`: two sessions suffice for every race of its properties, which relate two sessions each; with two troubles a post can be
published again after its deletion and once more, or deleted between a tweet and its repetition.  The theorems
have any number.  `RefreshLimiter`: a tick is 300 seconds, so the cooldown is one and the window two; the code has
twelve refreshes in 600 seconds and a cooldown of 300, and no condition depends on
the numbers being larger.  `MediaUpload`: three polls stand for thirty; `JobTimeout` lies between the shortest
and the longest wait they may add up to, so that both ends of an attempt happen.
`AccountsConnect`: with one state, every race about it is there; a second would only be another's.  Nobody shares an email in
`connect`, so `RefusalsBounded`, which promises nothing to people who do, is about every login; the theorem has any identities.

There is always another pass, request or tick, and in
`MediaUpload` an attempt that is over stutters.  Only `analytics` switches the deadlock check off, because it ends when its three passes
are used up; `analytics_live` has the same system without that end.

### Fairness

* `PublishPipeline` and `AnalyticsPipeline`: clocks advance, APScheduler keeps running its jobs
  (`main.py:32-50`, interval jobs), ARQ hands out what is queued, and a call that
  has started goes on (`arq_job_timeout_seconds` ends it otherwise).  Weak fairness
  throughout.  Acquiring a lock is fair for the processes together, not for each; the
  task of a job is fair over the slots together.  Users, faults and success on X
  are owed nothing: X may refuse every call, and a post then settles as `failed`.
* `MediaUpload`: the caller goes on (`Step`).  X owes neither progress (`Process`) nor a refusal
  (`Refused`): that the attempt ends follows from the count of polls and the timeout.

The other modules claim no liveness.

## 4. Behaviours worth knowing

Met while modelling, and not runs of their own.  Those a property has to allow for are marked with it.

* A pass that outlives its lock's TTL overlaps with the next and queues the same retry again; a late mark
  puts a job that is over back to `queued` (`CompletedMeansPublished` is about the post for that reason).
* A failed post rescheduled while its retry is pending gets a second job; once late marks have left both open,
  `scalar_one_or_none` makes every later pass abort, for every user's posts.  In the analytics pipeline no edit
  is needed: after a failed job a pass opens a second one and queues the first again
  (`OpenJobEnds` excepts `Blocked`).
* With more than a hundred posts published within the week, the analytics passes select a hundred of them in no
  order: nothing makes them come to the job of a given post (`OpenJobEnds` excepts it).
* A failed job of a post its user has deleted is still retried, and the post published
  (`DeletedStaysOut` is about posts without a job).
* A post deleted while it is being published keeps its tweet, and no later DELETE removes it, because the row
  is marked deleted already (`DeletedIsGone`, `blind`).  A repeated publication that fails leaves a published post
  `failed` with the id of its tweet: DELETE (`posts.py:329-335`) then marks the row and leaves the tweet (`blind` again).
* A task that is delivered again publishes a published or deleted post once more and overwrites its id
  (`DeletedIsGone` allows one tweet per repetition).
* Reposts that overlap may leave the row and X apart; the next request alone puts that right
  (`ToggleAligns`).
* A refused or unanswered call after a token refresh rolls the new token back, while X has given up the old
  one: the user has to connect again (`AccountKept`).
* A failure between INCR and EXPIRE leaves the budget key without a TTL; once it is over the limit the user is
  refused until someone deletes it (`OrphanNeedsFault`).  A lost answer to the TTL command turns a refusal into a grant by the fallback.
* What the last poll of a medium tells is not looked at, success included.  A task cancelled by ARQ reports nothing.
* Google and Firebase subjects with one email, or two Firebase users without any (the empty string), cannot both
  log in: the second meets the unique column and gets a 500 (`RefusalsBounded` is about private emails).
* Concurrent first callbacks of a user end in an IntegrityError and a 500, although the docstring
  (`accounts.py:146-147`) promises a redirect on any failure.
* A PKCE payload kept in the memory of a process is found neither by another process nor after Redis is
  back; an outage during `x_connect` leaves two copies (`SpentStateUseless`, outside production only).
* Sessions that have expired are never deleted.

## 5. Proofs

The theorems hold for every value of the constants: any number of posts, processes, slots,
sessions, requests, media, every thread shape, length and bound.  Constants are restricted by the ASSUMEs of
the modules and by the assumption a theorem states.  The ASSUMEs ask that `None` is no member of the sets it
stands beside, that processes and slots are different things, that bounds and lengths are numbers (positive
where the code's settings are), that processes of the limiter and requests of `AuthSession` are finitely many, and
that an identity is a pair of subject and email.

| module | theorem | property | assumes |
|---|---|---|---|
| `PublishPipelineProofs` | `TypeCorrect` | `TypeOK` and `Assigned` | - |
| | `RowsExistAlways` | `RowsExist` | - |
| | `ThreadOrderAlways` | `ThreadOrder` | - (all faults, all edits, both publishers) |
| | `LockExclusionAlways` | `LockExclusion` | no run outlives the lock's TTL |
| | `LockNeverStolen` | `LockNotStolen` (an action property) | - |
| | `DeletedStaysOutAlways` | `DeletedStaysOut` (an action property) | - |
| | `OneJobPerPostAlways` | `OneJobPerPost` | no user edits |
| | `PublishingHasOpenJobAlways` | `PublishingHasOpenJob` | no user edits, no legacy publisher |
| `PublishPipelineTokenProofs` | `DuplicatesPaidForAlways` | `DuplicatesPaidFor` | no user edits |
| | `AttemptsBoundedAlways` | `AttemptsBounded` | no user edits |
| `PublishPipelineCalmProofs` | `AtMostOneTweetAlways` | `AtMostOneTweet` | `Calm` |
| | `SingleFlightAlways` | `SingleFlight` | `Calm` |
| | `LegacyExclusiveAlways` | `LegacyExclusive` | `Calm` |
| | `StatusTellsTweetAlways` | `StatusTellsTweet` | `Calm` |
| | `CompletedMeansPublishedAlways` | `CompletedMeansPublished` | `Calm` |
| | `LifecycleImplemented` | `ImplementsLifecycle` (a refinement) | `Calm` |
| `PostActionsProofs` | `TypesAlways` | `TypeOK` and `Operating` | - |
| | `AccountKeptAlways` | `AccountKept` | - |
| | `ToggleAlignsAlways` | `ToggleAligns` (an action property) | - |
| | `DeletedIsGoneAlways` | `DeletedIsGone` | - |
| | `QuotesHaveRowsAlways` | `QuotesHaveRows` | - |
| `AnalyticsPipelineProofs` | `TypeCorrect` | `TypeOK` | - |
| | `CompletedHasSnapshotAlways` | `CompletedHasSnapshot` | - |
| | `DeadLetterEarnedAlways` | `DeadLetterEarned` | - |
| | `FreshJobsPaidForAlways` | `FreshJobsPaidFor` | - |
| `MediaUploadProofs` | `TypeCorrect` | `TypeOK` | - |
| | `TweetCompleteAlways` | `TweetComplete` | - |
| `AccountsConnectProofs` | `TypeCorrect` | `TypeOK` | - |
| | `SpentStateUselessAlways` | `SpentStateUseless` | - |
| | `ExpiredStateUselessAlways` | `ExpiredStateUseless` | - |
| | `RefusalsBoundedAlways` | `RefusalsBounded` | - |
| `RefreshLimiterProofs` | `TypeCorrect` | `TypeOK` | - |
| | `RedisBudgetAlways` | `RedisBudget` | - |
| | `FallbackBudgetAlways` | `FallbackBudget` | - |
| | `CooldownHoldsAlways` | `CooldownHolds` | - |
| | `OrphanNeedsFaultAlways` | `OrphanNeedsFault` | - |

`Calm` is `Faults \subseteq {"enqueue_fails"}`: both publishers, any number of processes, slots and refused
tasks, but nothing worse.  It is as weak as it can be: with any one of the other kinds of fault TLC finds two tweets of one
post, on an instance with one post, two processes and two slots.  For those,
`DuplicatesPaidFor` is the theorem.

### `PublishPipeline`, whatever goes wrong

*Types* are inductive only with `Assigned`: a running call has a post, and a
job exactly when it runs in a worker.

*Thread order.*  A call publishes only when the predecessor's row has an id, so the invariant
needs that an id, once written, stays (`PidsStay`).  `Save` overwrites it only with the
number of a tweet, which is not zero (`TweetsNumbered`); `CreatePost` clears it, but for a row
that did not exist, and rows never go away (`RowsStay`, `RowsExist`).

*Lock.*  `RunsHoldLock`: a run between acquire and release is the one whose
token the key holds.  Two runs would both have to be.

*One job per post.*  A new row is inserted only for a scheduled post without an open job.
So all that is needed is that jobs are not over before their post is
(`JobsOpen`).  A job ends in `Report`, which follows `Save` (`CallsFollowPosts`), and a
finished post stays finished when users leave it alone (`FinishedStays`), even when a
second call saves a failure over a success.  The late mark does no harm here: it opens jobs.

*Publishing posts.*  Only a claim makes a post `publishing` (`PublishingSteps`), the
reconciler's claim leaves it with a job (`ClaimedHasJob`), and `JobsOpen` says that job is
open.

### `PublishPipeline`, counted in tokens

That a post has one tweet is not inductive, and no list of the places where a second could come from ends.
The proof counts instead.  A post holds a *token* for every tweet it has, every task that waits, every call that has
not published, every entry in the list of a legacy pass, every item of a run, every run that claims without the lock,
and one when a claim or a retry may take it up (`Tokens`).  A new post holds exactly one, its chance.
`TokenStep`: a step keeps or drops tokens (`Keep`), or trades one for one in one of the `Ways` - a chance for an item, an item for a
task, a task for a call, a call for a tweet or, when a retry is left, for a chance again - and only a fault mints one, one at a time.  So
a post has at most `1 + faults` tokens (`Counted`), and tweets are tokens.

The lemma rests on the invariants above (`Steady`): a claim takes the chance of a post and makes one job because
`OneJobPerPost` and `JobsOpen` leave it no other; a retry is an item of one run because the lock excludes others, and a run
that lost the lock is a token itself.

*Attempts.*  Only a task that starts adds an attempt, and that trades a task for a call.  `Allowed`: what a job has been attempted, plus the tokens an
attempt may still come from, is at most `MaxAttempts + faults`; a failed call earns a new chance only below `MaxAttempts`.

*Calm.*  A refused task trades an item for a chance, so in the calm system nothing mints: there is one token
(`OneToken`), and a post with a tweet has no task, call, list entry or chance.  `SingleFlight` follows as well.  `LegacyExclusive` needs more,
because a failed job whose retry is not yet due, or whose `next_retry_at` a late mark cleared, is no token: what a legacy pass has is the
post's one token, in nobody else's call (`LegacyTokens`, `ListedAlone`), and the post is not finished before the pass lets go of it
(`LegacyOpen`), so by `JobsOpen` none of its jobs has failed.
`Told` (ids and results refer to tweets X has created, to different ones; no call has seen its post published; a call
reports after its row shows it) gives `StatusTellsTweet` and `CompletedMeansPublished`.

*Refinement.*  `LifecycleImplemented` takes every action in turn: with the invariants it is a step of `PostLifecycle`
or changes neither status nor tweets.  The commit of a call is `Settle` because the row does not show yet what the call did, or
shows the same; a call publishes only when there is no tweet, which is `AtMostOneTweet`.

### `PostActions`

*Account.*  `AccountKept` is not inductive: a commit could overwrite the token X accepts with an older
one.  `TokensKnown` (nobody holds a later token than X has handed out) and `FreshIsOnly` (a session with a
fresh token is the only one, and no row or loaded row has that token yet) exclude it: X refuses a second
refresh with the same token, so two sessions never have one each.

*Reposts.*  `AloneIsAlone`: a repost request that nobody overlaps is the only one, and once its call is
done, X has the opposite of what it loaded.  Only reposts change `onX`, so the commit writes what X has.

*Publications.*  `PaidFor` counts: tweets created, calls owed and calls that may still tweet or fail are together at most one
more than the repetitions.  `PublicationSteps` says what a step may do to that sum.

*Deletion.*  Ids and loaded rows refer to tweets there have been (`IdsKnown`), and a deletion that saw a tweet has
removed it before it commits (`Deleters`).  So a deleted post has lost a tweet (`Removed`), unless a deletion was blind, and by
`PaidFor` the tweets left are at most the repetitions.

*Quotes.*  `QuotesKept` counts: the quotes on X are the rows, the sessions about to insert one, and at most one for every trouble
that came between.  `QuoteSteps` says what a step may do to that sum.

### `AnalyticsPipeline`

`OnlyRows`: what waits, runs or is worked through is a row.  `TaskSoFar`: a task that is to report success has
saved its rows, and one that reports a permanent failure has used its attempts; with it `CompletedHasSnapshot` and
`DeadLetterEarned` are inductive.  The latter needs that `attempt_count` never runs ahead of the executions, the loaded copy included
(`AttemptsSpent`): two tasks of a job may lose an increment, never gain one.

*Fresh jobs* are counted in tokens again: jobs nobody has executed, runs that are about to insert one, and the chance that a
pass may (`CountedTokens`).  A selection finds no fresh job because those are queued (`FreshQueued`); only a lock that ends
under a run lets a second run select beside it, and that is a fault.

### `MediaUpload`

`UploadInv`: the list is the uploads of the current attempt in the order of the media, each finished by X
(`IdsInOrder`); the step the attempt is at fits its length (`IdsSoFar`); what X told last of the current upload is still so
(`ToldIsSo`), which is what makes leaving the loop safe; nothing goes on once there is a tweet (`TweetEnds`).

### `AccountsConnect`

`Base` adds to the types what a request carries at each step (`Sound`), that rows are what a provider vouched for, and
that tokens and states have an owner with a row.  `Kept`: a payload lives no longer than its state (`Lifetimes`), a callback that came too
late is still at its first command (`LateExpired`), and while no process has had to keep a payload the ones taken are gone
from every store (`SpentGone`).  A late callback would have to find a payload for its second command: there is none.

`Refusals`: nobody is refused before a user has a row; then the requests refused and those still about to insert together are fewer than the
requests there are, because one of them has made the row.

### `RefreshLimiter`

*Redis.*  `TwoKeys`: the hits allowed in the last window are one budget from the key before and those under the
present key; since the tick of EXPIRE they are under the present key alone.  The key may be without a TTL for as long as it likes.

*Fallback.*  `Remembered`: for every stretch up to the window, a process remembers what it allowed, but for one budget
at every restart.

*Cooldown.*  `Passes`: for every stretch shorter than a cooldown, who passed is counted by the cooldown in Redis, the cooldowns
in the dictionaries, and the restarts that lost one.  `Undisturbed`: before the first outage the dictionaries are not in
use, so a restart costs nothing then.

*Orphans.*  `SetByFirst`: without a fault, a key without a TTL has a request at EXPIRE, the one whose INCR made it.

### Only model-checked

The liveness properties `DuePostSettles`, `LockReturns`, `OpenJobEnds` and `AttemptEnds`: the prover has
neither fairness nor ENABLED.  `DuplicatesPaidFor` under user edits, with one process (run `users`).

## 6. Not modelled

* *Jobs observability, analytics lists, account and post lists*: read-only queries.
* *Storage*: signs URLs and formats keys; the validation of media keys compares strings of one request.
* *Cryptography and OAuth clients* (`core/security.py`, `x_oauth`, Google, Firebase): their verdicts are inputs.
  The state cookie of the Google redirect and the double-submit CSRF check compare two values of one request.
* *HTTP rate limits*: decorators of a library.
* *Database set-up, health, schemas, migrations, scripts*: configuration, DDL, tools run by hand.
* *Legacy rows with media ids of X*: the branch passes them on unchanged.
* The columns nobody's condition reads: metrics, messages, names, URLs.

## 7. Plan

Every safety property of the runs is proved, under the hypotheses of section 5.  What may be added:

1. `DuplicatesPaidFor` with user edits and one reconciling process: an edit mints a token, but `OneJobPerPost` is
   gone, so `Steady` has to be weakened to the jobs a claim looks at.
2. The lists and uploads of the Posts API as far as they change state.
