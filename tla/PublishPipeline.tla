-------------------------- MODULE PublishPipeline --------------------------
(***************************************************************************)
(* How a scheduled post becomes a tweet.                                   *)
(*                                                                         *)
(* Four kinds of actor share the tables posts and job_queue:               *)
(*                                                                         *)
(*   - the API processes (Instances), each with its own APScheduler that   *)
(*     runs the reconciler (claim due posts, enqueue tasks), the legacy    *)
(*     publisher (claim due posts, publish them in the process) and the    *)
(*     stale-post recovery;                                                *)
(*   - the ARQ worker, Slots tasks at a time, running publish_post_job;    *)
(*   - Redis, holding the reconciler lock and the ARQ queue;               *)
(*   - the users, through the handlers of routes/posts.py and accounts.py. *)
(*                                                                         *)
(* One action is one database transaction, one Redis command or one call   *)
(* of the X API: everything may interleave between two of them.            *)
(*                                                                         *)
(* Clocks are abstracted to the comparisons the code makes: scheduled_for  *)
(* and next_retry_at against now() (the values of When), and updated_at    *)
(* against the stale threshold (the flag stale).                           *)
(***************************************************************************)
EXTENDS Naturals, JobQueue

CONSTANTS
    Posts,             \* the posts users may create
    Pred,              \* Pred[p]: the post before p in its thread, or None
    Instances,         \* API processes, each with an APScheduler
    Slots,             \* concurrent executions of the ARQ worker
    None,              \* stands for Python's None and for SQL's NULL
    EnableReconciler,  \* enable_reconciler and enable_arq_enqueue are set
    EnableLegacy,      \* enable_legacy_publisher is set
    MaxJobs,           \* bound: publish jobs a post may ever get
    Faults,            \* the kinds of trouble the environment may cause
    MaxFaults          \* bound: how often it causes any of them

FaultKinds ==
    { "instance_crash",   \* an API process dies and restarts
      "worker_crash",     \* a worker dies in a task, ARQ redelivers the task
      "task_dies",        \* a task ends with an exception, never redelivered
      "enqueue_fails",    \* enqueue_job raises before a task is queued
      "mark_fails",       \* a task is queued, mark_job_enqueued is not saved
      "lock_expires",     \* a pass outlives reconciler_lock_ttl_seconds
      "slow_publish",     \* a claimed post waits longer than the threshold
      "answer_lost",      \* X creates a tweet, the client sees an error
      "user_edit" }       \* PATCH or DELETE of a post, DELETE of an account

ASSUME ConstantsAssumption ==
    /\ None \notin Posts \cup Instances \cup Slots
    /\ None \notin Posts \X (1 .. MaxJobs)
    /\ Instances \cap Slots = {}
    /\ Pred \in [Posts -> Posts \cup {None}]
    /\ EnableReconciler \in BOOLEAN
    /\ EnableLegacy \in BOOLEAN
    /\ MaxJobs \in Nat
    /\ Faults \subseteq FaultKinds
    /\ MaxFaults \in Nat

VARIABLES
    post,    \* post[p]: the row of p in posts
    job,     \* job[j]: the row of j in job_queue
    arq,     \* arq[j]: how many ARQ tasks for j wait in Redis
    lock,    \* reconciler:publish:lock: the process whose token it holds
    rec,     \* rec[i]: the reconcile_publish_jobs run of process i
    todo,    \* todo[i]: posts publish_due_posts of i has yet to publish
    exec,    \* exec[e]: the publish_single_post call of executor e
    made,    \* made[p]: tweets X has created for p
    gone,    \* the tweets deleted on X again
    faults   \* how many faults have happened

vars == <<post, job, arq, lock, rec, todo, exec, made, gone, faults>>

-----------------------------------------------------------------------------
(* State                                                                   *)

PostStatus == {"draft", "scheduled", "publishing", "published", "failed"}

\* pid is platform_post_id: the number of a tweet of the post, 0 for NULL.
\* due compares scheduled_for with now(), linked is connected_account_id.
PostRow == [status : PostStatus \cup {"absent"}, due : When, stale : BOOLEAN,
            deleted : BOOLEAN, linked : BOOLEAN, pid : Nat]

NoPost == [status |-> "absent", due |-> "never", stale |-> FALSE,
           deleted |-> FALSE, linked |-> FALSE, pid |-> 0]

\* The n-th publish job of a post.
JobIds == Posts \X (1 .. MaxJobs)
PostOf(j) == j[1]

\* A run of the reconciler: items is the rest of queue_items, cur the job
\* whose task it has queued and not yet marked.
RecState == [pc : {"idle", "claim", "loop", "mark"},
             items : SUBSET JobIds, cur : JobIds \cup {None}]

NoRun == [pc |-> "idle", items |-> {}, cur |-> None]

\* A call of publish_single_post, with its wrapper publish_post_job when
\* job is not None: seen is the status the session loaded, result and tweet
\* are what the call of the X API returned.
Executors == Slots \cup Instances

ExecState == [pc : {"idle", "load", "call", "save", "report"},
              post : Posts \cup {None}, job : JobIds \cup {None},
              seen : PostStatus \cup {"absent"},
              result : {"none", "published", "transient", "permanent"},
              tweet : Nat]

NoExec == [pc |-> "idle", post |-> None, job |-> None, seen |-> "absent",
           result |-> "none", tweet |-> 0]

TypeOK ==
    /\ post \in [Posts -> PostRow]
    /\ job \in [JobIds -> JobRow]
    /\ arq \in [JobIds -> Nat]
    /\ lock \in Instances \cup {None}
    /\ rec \in [Instances -> RecState]
    /\ todo \in [Instances -> SUBSET Posts]
    /\ exec \in [Executors -> ExecState]
    /\ made \in [Posts -> Nat]
    /\ gone \subseteq Posts \X Nat
    /\ faults \in 0 .. MaxFaults

\* A call that runs has its post; in a worker it has its job, elsewhere none.
Assigned ==
    \A e \in Executors :
      /\ exec[e].pc # "idle" => exec[e].post \in Posts
      /\ exec[e].pc # "idle" /\ e \in Slots =>
           exec[e].job \in JobIds /\ exec[e].post = PostOf(exec[e].job)
      /\ exec[e].pc = "idle" => exec[e] = NoExec
      /\ e \in Instances => exec[e].job = None

Init ==
    /\ post = [p \in Posts |-> NoPost]
    /\ job = [j \in JobIds |-> NoJob]
    /\ arq = [j \in JobIds |-> 0]
    /\ lock = None
    /\ rec = [i \in Instances |-> NoRun]
    /\ todo = [i \in Instances |-> {}]
    /\ exec = [e \in Executors |-> NoExec]
    /\ made = [p \in Posts |-> 0]
    /\ gone = {}
    /\ faults = 0

\* The environment causes trouble of kind k, if it still may.
Spend(k) == k \in Faults /\ faults < MaxFaults /\ faults' = faults + 1

-----------------------------------------------------------------------------
(* Queries and row updates of the background jobs                          *)

\* Mutant: the claim does not look at the status.
DuePostsAnyStatus == {p \in Posts : ~post[p].deleted /\ post[p].due = "now"}

\* Mutant: the claim does not look at is_deleted.
DuePostsDeletedToo == {p \in Posts : post[p].status = "scheduled" /\ post[p].due = "now"}

\* The WHERE clause both claim statements share.
DuePosts == {p \in Posts : /\ post[p].status = "scheduled"
                           /\ ~post[p].deleted
                           /\ post[p].due = "now"}

\* Mutant: the claim selects the posts and leaves their rows alone.
ClaimedNothing(S) == [p \in Posts |-> post[p]]

\* The rows after UPDATE ... SET status = publishing; updated_at moves too.
Claimed(S) ==
    [p \in Posts |-> IF p \in S
                     THEN [post[p] EXCEPT !.status = "publishing", !.stale = FALSE]
                     ELSE post[p]]

\* Mutants: the recovery ignores updated_at, or looks for the wrong status.
PublishingPosts == {p \in Posts : post[p].status = "publishing"}
StaleScheduled == {p \in Posts : post[p].status = "scheduled" /\ post[p].stale}

StalePosts == {p \in Posts : post[p].status = "publishing" /\ post[p].stale}

OpenJobs(p) == {j \in JobIds : PostOf(j) = p /\ IsOpen(job[j])}

RetryableJobs == {j \in JobIds : IsRetryable(job[j])}

\* The row a new job of p would get: the first one not used yet.
FreshJobs(p) ==
    {j \in JobIds : /\ PostOf(j) = p
                    /\ job[j].status = "absent"
                    /\ \A k \in JobIds : PostOf(k) = p /\ k[2] < j[2]
                                           => job[k].status # "absent"}

\* create_queued_job_if_missing for every claimed post.
NewJobs == UNION {FreshJobs(p) : p \in {q \in DuePosts : OpenJobs(q) = {}}}

QueueItems ==
    NewJobs \cup (UNION {OpenJobs(p) : p \in DuePosts}) \cup RetryableJobs

\* scalar_one_or_none raises MultipleResultsFound otherwise.
OneOpenJob(p) == \A j, k \in OpenJobs(p) : j = k

\* The ORM writes a column only when the value differs from the one loaded.
OrmWrite(current, loaded, new) == IF new = loaded THEN current ELSE new

\* Mutant: the column gets the outcome of the call instead of a status.
SavedOutcome(row, x) == [row EXCEPT !.status = x.result, !.pid = x.tweet]

\* Mutant: the status of a failed call is not written.
SavedIfPublished(row, x) ==
    IF x.result = "published"
    THEN [row EXCEPT !.status = "published", !.pid = x.tweet, !.stale = FALSE]
    ELSE row

\* Mutant: platform_post_id is not written.
SavedWithoutId(row, x) ==
    IF x.result = "published"
    THEN [row EXCEPT !.status = OrmWrite(row.status, x.seen, "published"), !.stale = FALSE]
    ELSE [row EXCEPT !.status = OrmWrite(row.status, x.seen, "failed"), !.stale = FALSE]

\* The row a session commits after the call: error_message is left out.
SavedRow(row, x) ==
    IF x.result = "published"
    THEN [row EXCEPT !.status = OrmWrite(row.status, x.seen, "published"),
                     !.pid = x.tweet, !.stale = FALSE]
    ELSE [row EXCEPT !.status = OrmWrite(row.status, x.seen, "failed"),
                     !.stale = x.seen = "failed" /\ row.stale]

\* Mutant: a predecessor that is being published is good enough.
PredClaimed(p) ==
    Pred[p] # None => post[Pred[p]].status \in {"publishing", "published"}

\* The reply chain: nothing to wait for, or the predecessor has its tweet.
PredReady(p) == Pred[p] # None => post[Pred[p]].pid # 0

\* What can go wrong before X has created a tweet, as the classifier sees it.
Errors == {"HTTP_429_5XX", "HTTP_400_401_403_404", "HTTP_OTHER", "NETWORK_ERROR",
           "AUTH_OR_ACCOUNT_CONFIGURATION", "THREAD_PREDECESSOR_NOT_READY", "UNKNOWN"}

\* _classify_publish_error, as the result the caller gets.
Classify(error) ==
    IF error \in {"HTTP_400_401_403_404", "AUTH_OR_ACCOUNT_CONFIGURATION"}
    THEN "permanent"
    ELSE "transient"

\* Mutants: SET without NX, and DEL without comparing the token.
LockTaken == TRUE
HoldsAnyLock(i) == lock # None

LockIsFree == lock = None
HoldsLock(i) == lock = i

-----------------------------------------------------------------------------
(* Time                                                                    *)

\* scheduled_for passes.
PostDue(p) ==
    /\ post[p].due = "later"
    /\ post' = [post EXCEPT ![p].due = "now"]
    /\ UNCHANGED <<job, arq, lock, rec, todo, exec, made, gone, faults>>

\* next_retry_at passes.
RetryDue(j) ==
    /\ job[j].retry = "later"
    /\ job' = [job EXCEPT ![j].retry = "now"]
    /\ UNCHANGED <<post, arq, lock, rec, todo, exec, made, gone, faults>>

\* No process is going to publish p: not queued, not running, not pending.
Orphaned(p) ==
    /\ \A j \in JobIds : PostOf(j) = p => arq[j] = 0
    /\ \A e \in Executors : exec[e].post # p
    /\ \A i \in Instances : p \notin todo[i] /\ \A j \in rec[i].items : PostOf(j) # p

\* updated_at of a publishing post falls ten minutes behind.
GoStale(p) ==
    /\ post[p].status = "publishing" /\ ~post[p].stale
    /\ Orphaned(p)
    /\ post' = [post EXCEPT ![p].stale = TRUE]
    /\ UNCHANGED <<job, arq, lock, rec, todo, exec, made, gone, faults>>

\* The same while somebody is still going to publish it.  A task runs for two
\* minutes at most, so this takes a slow queue or a long legacy pass.
SlowPublish(p) ==
    /\ post[p].status = "publishing" /\ ~post[p].stale
    /\ ~Orphaned(p)
    /\ Spend("slow_publish")
    /\ post' = [post EXCEPT ![p].stale = TRUE]
    /\ UNCHANGED <<job, arq, lock, rec, todo, exec, made, gone>>

\* Mutant: SET without EX.
LockNeverExpires == FALSE /\ UNCHANGED vars

\* The key of a process that died in its run reaches its TTL.
LockExpires ==
    /\ lock # None
    /\ rec[lock].pc = "idle"
    /\ lock' = None
    /\ UNCHANGED <<post, job, arq, rec, todo, exec, made, gone, faults>>

\* A run takes longer than the TTL of its key.
LockOvertaken ==
    /\ lock # None
    /\ rec[lock].pc # "idle"
    /\ Spend("lock_expires")
    /\ lock' = None
    /\ UNCHANGED <<post, job, arq, rec, todo, exec, made, gone>>

-----------------------------------------------------------------------------
(* The reconciler                                                          *)

\* SET key token NX EX ttl.
ReconcileAcquire(i) ==
    /\ EnableReconciler
    /\ rec[i].pc = "idle"
    /\ LockIsFree
    /\ lock' = i
    /\ rec' = [rec EXCEPT ![i].pc = "claim"]
    /\ UNCHANGED <<post, job, arq, todo, exec, made, gone, faults>>

\* The one transaction that claims due posts, creates their jobs and collects
\* the jobs to retry.  The last conjunct is the bound MaxJobs.
ReconcileClaim(i) ==
    /\ rec[i].pc = "claim"
    /\ \A p \in DuePosts : OneOpenJob(p)
    /\ \A p \in DuePosts : OpenJobs(p) # {} \/ FreshJobs(p) # {}
    /\ post' = Claimed(DuePosts)
    /\ job' = [j \in JobIds |-> IF j \in NewJobs THEN CreateQueuedJob ELSE job[j]]
    /\ rec' = [rec EXCEPT ![i] = [pc |-> "loop", items |-> QueueItems, cur |-> None]]
    /\ UNCHANGED <<arq, lock, todo, exec, made, gone, faults>>

\* The transaction is rolled back, the exception ends the run.
ReconcileAbort(i) ==
    /\ rec[i].pc = "claim"
    /\ \E p \in DuePosts : ~OneOpenJob(p)
    /\ rec' = [rec EXCEPT ![i] = NoRun]
    /\ lock' = IF HoldsLock(i) THEN None ELSE lock
    /\ UNCHANGED <<post, job, arq, todo, exec, made, gone, faults>>

\* enqueue_publish_job: a task with an id of its own, whatever is queued.
ReconcileEnqueue(i, j) ==
    /\ rec[i].pc = "loop"
    /\ j \in rec[i].items
    /\ arq' = [arq EXCEPT ![j] = arq[j] + 1]
    /\ rec' = [rec EXCEPT ![i] = [pc |-> "mark", items |-> rec[i].items \ {j}, cur |-> j]]
    /\ UNCHANGED <<post, job, lock, todo, exec, made, gone, faults>>

ReconcileEnqueueFails(i, j) ==
    /\ rec[i].pc = "loop"
    /\ j \in rec[i].items
    /\ Spend("enqueue_fails")
    /\ rec' = [rec EXCEPT ![i].items = rec[i].items \ {j}]
    /\ UNCHANGED <<post, job, arq, lock, todo, exec, made, gone>>

\* The second session of the loop body.
ReconcileMark(i) ==
    /\ rec[i].pc = "mark"
    /\ job' = [job EXCEPT ![rec[i].cur] = MarkEnqueued(job[rec[i].cur])]
    /\ rec' = [rec EXCEPT ![i] = [@ EXCEPT !.pc = "loop", !.cur = None]]
    /\ UNCHANGED <<post, arq, lock, todo, exec, made, gone, faults>>

ReconcileMarkFails(i) ==
    /\ rec[i].pc = "mark"
    /\ Spend("mark_fails")
    /\ rec' = [rec EXCEPT ![i] = [@ EXCEPT !.pc = "loop", !.cur = None]]
    /\ UNCHANGED <<post, job, arq, lock, todo, exec, made, gone>>

\* The finally clause: the key goes only if it holds this run's token.
ReconcileRelease(i) ==
    /\ rec[i].pc = "loop"
    /\ rec[i].items = {}
    /\ rec' = [rec EXCEPT ![i] = NoRun]
    /\ lock' = IF HoldsLock(i) THEN None ELSE lock
    /\ UNCHANGED <<post, job, arq, todo, exec, made, gone, faults>>

-----------------------------------------------------------------------------
(* Publishing one post, by a worker or by the legacy publisher             *)

\* ARQ hands a task to a free slot; the wrapper's first transaction.
WorkerStart(s, j) ==
    /\ exec[s].pc = "idle"
    /\ arq[j] > 0
    /\ arq' = [arq EXCEPT ![j] = arq[j] - 1]
    /\ job' = [job EXCEPT ![j] = MarkRunning(job[j])]
    /\ exec' = [exec EXCEPT ![s] = [NoExec EXCEPT !.pc = "load", !.post = PostOf(j), !.job = j]]
    /\ UNCHANGED <<post, lock, rec, todo, made, gone, faults>>

\* The session loads the post and its account.  Without an account the call
\* is over; the status of the post is not looked at.
Load(e) ==
    /\ exec[e].pc = "load"
    /\ LET row == post[exec[e].post] IN
         exec' = [exec EXCEPT ![e] =
                    IF row.linked
                    THEN [@ EXCEPT !.seen = row.status, !.pc = "call"]
                    ELSE [@ EXCEPT !.seen = row.status, !.pc = "save",
                                   !.result = Classify("AUTH_OR_ACCOUNT_CONFIGURATION")]]
    /\ UNCHANGED <<post, job, arq, lock, rec, todo, made, gone, faults>>

\* X creates the tweet and the client gets its id.
CallPublishes(e) ==
    /\ exec[e].pc = "call"
    /\ LET p == exec[e].post IN
         /\ PredReady(p)
         /\ made' = [made EXCEPT ![p] = made[p] + 1]
         /\ exec' = [exec EXCEPT ![e] = [@ EXCEPT !.pc = "save", !.result = "published",
                                                  !.tweet = made[p] + 1]]
    /\ UNCHANGED <<post, job, arq, lock, rec, todo, gone, faults>>

\* The predecessor has no tweet to reply to yet.
CallBlocked(e) ==
    /\ exec[e].pc = "call"
    /\ ~PredReady(exec[e].post)
    /\ exec' = [exec EXCEPT ![e] = [@ EXCEPT !.pc = "save",
                                   !.result = Classify("THREAD_PREDECESSOR_NOT_READY")]]
    /\ UNCHANGED <<post, job, arq, lock, rec, todo, made, gone, faults>>

\* Token refresh, media upload or the call of X fails before there is a tweet.
CallFails(e) ==
    /\ exec[e].pc = "call"
    /\ \E error \in Errors \ {"THREAD_PREDECESSOR_NOT_READY"} :
         exec' = [exec EXCEPT ![e] = [@ EXCEPT !.pc = "save", !.result = Classify(error)]]
    /\ UNCHANGED <<post, job, arq, lock, rec, todo, made, gone, faults>>

\* X creates the tweet, the client sees a timeout or a 5xx.
CallAnswerLost(e) ==
    /\ exec[e].pc = "call"
    /\ LET p == exec[e].post IN
         /\ PredReady(p)
         /\ made' = [made EXCEPT ![p] = made[p] + 1]
    /\ Spend("answer_lost")
    /\ exec' = [exec EXCEPT ![e] = [@ EXCEPT !.pc = "save", !.result = Classify("NETWORK_ERROR")]]
    /\ UNCHANGED <<post, job, arq, lock, rec, todo, gone>>

\* The commit of publish_single_post.  The legacy publisher ignores what the
\* call returns; publish_post_job goes on to report it.
Save(e) ==
    /\ exec[e].pc = "save"
    /\ LET p == exec[e].post IN post' = [post EXCEPT ![p] = SavedRow(post[p], exec[e])]
    /\ exec' = [exec EXCEPT ![e] = IF exec[e].job = None THEN NoExec
                                   ELSE [exec[e] EXCEPT !.pc = "report"]]
    /\ UNCHANGED <<job, arq, lock, rec, todo, made, gone, faults>>

\* Mutant: the wrapper completes the job whenever it is not to be retried.
ReportNoRetry(s) ==
    /\ exec[s].pc = "report"
    /\ LET j == exec[s].job IN
         job' = [job EXCEPT ![j] =
                   IF exec[s].result # "transient" THEN MarkCompleted(job[j])
                   ELSE MarkFailed(job[j], TRUE)]
    /\ exec' = [exec EXCEPT ![s] = NoExec]
    /\ UNCHANGED <<post, arq, lock, rec, todo, made, gone, faults>>

\* The wrapper's last transaction.
Report(s) ==
    /\ exec[s].pc = "report"
    /\ LET j == exec[s].job IN
         job' = [job EXCEPT ![j] =
                   IF exec[s].result = "published" THEN MarkCompleted(job[j])
                   ELSE MarkFailed(job[j], exec[s].result = "transient")]
    /\ exec' = [exec EXCEPT ![s] = NoExec]
    /\ UNCHANGED <<post, arq, lock, rec, todo, made, gone, faults>>

\* The worker dies: ARQ runs the task again.
WorkerCrash(s) ==
    /\ exec[s].pc # "idle"
    /\ Spend("worker_crash")
    /\ arq' = [arq EXCEPT ![exec[s].job] = arq[exec[s].job] + 1]
    /\ exec' = [exec EXCEPT ![s] = NoExec]
    /\ UNCHANGED <<post, job, lock, rec, todo, made, gone>>

\* job_timeout cancels the task, or a transaction of it fails: nothing in it
\* catches that, and for ARQ the task is finished.
TaskDies(s) ==
    /\ exec[s].pc # "idle"
    /\ Spend("task_dies")
    /\ exec' = [exec EXCEPT ![s] = NoExec]
    /\ UNCHANGED <<post, job, arq, lock, rec, todo, made, gone>>

-----------------------------------------------------------------------------
(* The legacy publisher and the recovery job                               *)

LegacyClaim(i) ==
    /\ EnableLegacy
    /\ todo[i] = {} /\ exec[i].pc = "idle"
    /\ DuePosts # {}
    /\ post' = Claimed(DuePosts)
    /\ todo' = [todo EXCEPT ![i] = DuePosts]
    /\ UNCHANGED <<job, arq, lock, rec, exec, made, gone, faults>>

\* The posts of a thread are published in thread order.
LegacyNext(i, p) ==
    /\ exec[i].pc = "idle"
    /\ p \in todo[i]
    /\ Pred[p] \notin todo[i]
    /\ todo' = [todo EXCEPT ![i] = todo[i] \ {p}]
    /\ exec' = [exec EXCEPT ![i] = [NoExec EXCEPT !.pc = "load", !.post = p]]
    /\ UNCHANGED <<post, job, arq, lock, rec, made, gone, faults>>

RecoverStale ==
    /\ StalePosts # {}
    /\ post' = [p \in Posts |-> IF p \in StalePosts
                                THEN [post[p] EXCEPT !.status = "scheduled", !.stale = FALSE]
                                ELSE post[p]]
    /\ UNCHANGED <<job, arq, lock, rec, todo, exec, made, gone, faults>>

\* An API process dies and starts again; the key of its lock stays in Redis.
\* Nothing is lost when it was idle.
InstanceCrash(i) ==
    /\ rec[i] # NoRun \/ todo[i] # {} \/ exec[i] # NoExec
    /\ Spend("instance_crash")
    /\ rec' = [rec EXCEPT ![i] = NoRun]
    /\ todo' = [todo EXCEPT ![i] = {}]
    /\ exec' = [exec EXCEPT ![i] = NoExec]
    /\ UNCHANGED <<post, job, arq, lock, made, gone>>

-----------------------------------------------------------------------------
(* Users                                                                   *)

\* What _ensure_connected_account_for_x_publishable lets pass.
Publishable(status, linked) == status \in {"scheduled", "published"} => linked

\* POST /posts: scheduled exactly when the payload has a scheduled_for.
CreatePost(p, due, linked) ==
    LET status == IF due = "never" THEN "draft" ELSE "scheduled" IN
    /\ post[p].status = "absent"
    /\ Publishable(status, linked)
    /\ post' = [post EXCEPT ![p] = [NoPost EXCEPT !.status = status, !.due = due,
                                                  !.linked = linked]]
    /\ UNCHANGED <<job, arq, lock, rec, todo, exec, made, gone, faults>>

\* PATCH /posts/{id}: any status, whatever the pipeline is doing with the post.
PatchPost(p, status, due, linked) ==
    /\ post[p].status # "absent" /\ ~post[p].deleted
    /\ Publishable(status, linked)
    /\ Spend("user_edit")
    /\ post' = [post EXCEPT ![p] = [@ EXCEPT !.status = status, !.due = due,
                                            !.linked = linked, !.stale = FALSE]]
    /\ UNCHANGED <<job, arq, lock, rec, todo, exec, made, gone>>

\* The tweet DELETE /posts/{id} removes on X before it marks the row.
RemoteFirst(row) == row.status = "published" /\ row.pid # 0

DeletePost(p) ==
    /\ post[p].status # "absent" /\ ~post[p].deleted
    /\ RemoteFirst(post[p]) => post[p].linked
    /\ Spend("user_edit")
    /\ gone' = IF RemoteFirst(post[p]) THEN gone \cup {<<p, post[p].pid>>} ELSE gone
    /\ post' = [post EXCEPT ![p] = [@ EXCEPT !.deleted = TRUE, !.stale = FALSE]]
    /\ UNCHANGED <<job, arq, lock, rec, todo, exec, made>>

\* DELETE /accounts/{id}: the foreign key of every post of it becomes NULL.
DisconnectAccount ==
    /\ Spend("user_edit")
    /\ post' = [p \in Posts |-> [post[p] EXCEPT !.linked = FALSE]]
    /\ UNCHANGED <<job, arq, lock, rec, todo, exec, made, gone>>

-----------------------------------------------------------------------------

Time ==
    \/ \E p \in Posts : PostDue(p) \/ GoStale(p)
    \/ \E j \in JobIds : RetryDue(j)
    \/ LockExpires

ReconcilePass(i) ==
    \/ ReconcileClaim(i)
    \/ ReconcileAbort(i)
    \/ \E j \in JobIds : ReconcileEnqueue(i, j)
    \/ ReconcileMark(i)
    \/ ReconcileRelease(i)

Publishing(e) ==
    \/ Load(e)
    \/ CallPublishes(e)
    \/ CallBlocked(e)
    \/ CallFails(e)
    \/ Save(e)
    \/ Report(e)

Legacy(i) == LegacyClaim(i) \/ \E p \in Posts : LegacyNext(i, p)

Trouble ==
    \/ \E p \in Posts : SlowPublish(p)
    \/ LockOvertaken
    \/ \E i \in Instances :
         \/ InstanceCrash(i)
         \/ ReconcileMarkFails(i)
         \/ \E j \in JobIds : ReconcileEnqueueFails(i, j)
    \/ \E s \in Slots : WorkerCrash(s) \/ TaskDies(s)
    \/ \E e \in Executors : CallAnswerLost(e)

Users ==
    \/ \E p \in Posts :
         \/ \E due \in When, linked \in BOOLEAN : CreatePost(p, due, linked)
         \/ \E status \in PostStatus, due \in When, linked \in BOOLEAN :
              PatchPost(p, status, due, linked)
         \/ DeletePost(p)
    \/ DisconnectAccount

Next ==
    \/ Time
    \/ \E i \in Instances : ReconcileAcquire(i) \/ ReconcilePass(i) \/ Legacy(i)
    \/ \E s \in Slots, j \in JobIds : WorkerStart(s, j)
    \/ \E e \in Executors : Publishing(e)
    \/ RecoverStale
    \/ Trouble
    \/ Users

Spec == Init /\ [][Next]_vars

(***************************************************************************)
(* Fairness: clocks advance, APScheduler keeps firing its jobs, ARQ hands  *)
(* out what is queued and a call that started goes on.  Users and troubles *)
(* owe nothing, X may refuse every call.                                   *)
(***************************************************************************)
Fairness ==
    /\ \A p \in Posts : WF_vars(PostDue(p)) /\ WF_vars(GoStale(p))
    /\ \A j \in JobIds : WF_vars(RetryDue(j))
    /\ WF_vars(LockExpires)
    /\ WF_vars(RecoverStale)
    /\ WF_vars(\E i \in Instances : ReconcileAcquire(i))
    /\ \A i \in Instances : WF_vars(ReconcilePass(i)) /\ WF_vars(Legacy(i))
    /\ \A j \in JobIds : WF_vars(\E s \in Slots : WorkerStart(s, j))
    /\ \A e \in Executors : WF_vars(Publishing(e))

FairSpec == Spec /\ Fairness

-----------------------------------------------------------------------------
(* What the pipeline promises                                              *)

\* A post is tweeted once: claims, open jobs and the reconciler lock leave it
\* to one publish_single_post call that succeeds.
AtMostOneTweet == \A p \in Posts : made[p] <= 1

\* When things go wrong a post may be tweeted again, but every extra tweet
\* has a fault of its own behind it: recovery and retries never multiply it.
\* Edits count as faults while one process reconciles.  With two, a pass that
\* is overtaken repeats the second job an edit has asked for, too.
DuplicatesPaidFor == \A p \in Posts : made[p] <= 1 + faults

\* mark_job_failed stops the retries: no job is attempted more often than
\* max_attempts, but for the attempts a fault has repeated.
AttemptsBounded == \A j \in JobIds : job[j].attempts <= MaxAttempts + faults

\* At any time one task or one call at most is going to publish a post, among
\* the queued tasks, the running tasks and the legacy publisher.
SingleFlight ==
    \A p \in Posts :
      LET queued == {j \in JobIds : PostOf(j) = p /\ arq[j] > 0}
          calls  == {e \in Executors : exec[e].post = p}
          listed == {i \in Instances : p \in todo[i]}
      IN /\ \A j \in queued : arq[j] = 1
         /\ \A x, y \in queued \cup calls \cup listed : x = y

\* The reconciler finds the job it made for a post again after a recovery,
\* and makes no second one: get_open_job_for_post has one row to return.
OneJobPerPost ==
    \A j, k \in JobIds :
      PostOf(j) = PostOf(k) /\ job[j].status # "absent" /\ job[k].status # "absent"
        => j = k

\* A post that shows publishing has a job that is not over, so that the
\* recovery and the next pass lead to another attempt of that job.
PublishingHasOpenJob ==
    \A p \in Posts : post[p].status = "publishing" => OpenJobs(p) # {}

\* The row tells whether X has the tweet: published with its id, or neither.
StatusTellsTweet ==
    \A p \in Posts : /\ (post[p].status = "published") <=> (post[p].pid # 0)
                     /\ post[p].pid <= made[p]

\* A job is completed only for a post whose row is published.
CompletedMeansPublished ==
    \A j \in JobIds : job[j].status = "completed" => post[PostOf(j)].status = "published"

\* No post of a thread is tweeted before the row of its predecessor has the
\* id to reply to, however workers, passes and recoveries interleave.
ThreadOrder ==
    \A p \in Posts : made[p] > 0 /\ Pred[p] # None => post[Pred[p]].pid # 0

\* Two reconcile_publish_jobs runs are never between acquire and release.
LockExclusion ==
    \A i, k \in Instances : rec[i].pc # "idle" /\ rec[k].pc # "idle" => i = k

\* A process that got the lock keeps it until its own run ends or the TTL
\* ends it: release_lock of an overtaken run compares tokens.
LockNotStolen ==
    [][\A i \in Instances :
         lock = i /\ rec[i].pc # "idle" /\ lock' # i
           => rec'[i].pc = "idle" \/ (lock' = None /\ faults' > faults)]_vars

\* A post deleted before any job of it exists is left alone for good: no
\* claim, recovery or retry gets hold of a row that is marked deleted.
Untouched(p) ==
    /\ post[p].deleted
    /\ post[p].status # "publishing"
    /\ \A j \in JobIds : PostOf(j) = p => job[j].status = "absent"
    /\ Orphaned(p)

DeletedStaysOut == [][\A p \in Posts : Untouched(p) => Untouched(p)']_vars

\* A pass of the legacy publisher has p on its list or is publishing it.
LegacyHolds(p) == \E i \in Instances : p \in todo[i] \/ exec[i].post = p

\* A task for p waits or runs, a run of the reconciler is about to queue one,
\* or a failed job waits for the retry that will.
QueueHolds(p) ==
    \/ \E s \in Slots : exec[s].post = p
    \/ \E j \in JobIds :
         /\ PostOf(j) = p
         /\ \/ arq[j] > 0
            \/ job[j].status = "failed"
            \/ \E i \in Instances : j \in rec[i].items

\* During the cutover the legacy publishers and the queue share one table, and
\* never one post: what a legacy pass has claimed no run lists, no worker
\* attempts and no retry comes back to, also after a recovery has passed it
\* from one to the other.
LegacyExclusive == \A p \in Posts : ~(LegacyHolds(p) /\ QueueHolds(p))

\* The pipeline implements PostLifecycle: seen from outside, a post nobody
\* edits is created, claimed, tweeted once after its predecessor and settled;
\* it is taken back only while it has no tweet.
Lifecycle == INSTANCE PostLifecycle
                 WITH shown <- [p \in Posts |-> post[p].status], tweets <- made

ImplementsLifecycle == Lifecycle!Spec

\* Every due post is published or reported failed in the end.
DuePostSettles ==
    \A p \in Posts : p \in DuePosts ~> post[p].status \in {"published", "failed"}

\* The key of the reconciler's lock always becomes free again, whichever way
\* the run that took it ends.
LockReturns == lock # None ~> lock = None

\* A job that failed with attempts left is attempted again in the end.
FailedJobRetried ==
    \A j \in JobIds : \A n \in 1 .. MaxAttempts - 1 :
      job[j].status = "failed" /\ job[j].attempts = n ~> job[j].attempts > n

-----------------------------------------------------------------------------
(* What the promises rest on, stated so that every step preserves it       *)

\* Every id that is queued, listed or in use refers to a row that exists.
RowsExist ==
    /\ \A j \in JobIds :
         /\ job[j].status # "absent" => post[PostOf(j)].status # "absent"
         /\ arq[j] > 0 => job[j].status # "absent"
    /\ \A i \in Instances :
         /\ \A j \in rec[i].items : job[j].status # "absent"
         /\ rec[i].pc = "mark" => /\ rec[i].cur \in JobIds
                                 /\ job[rec[i].cur].status # "absent"
         /\ \A p \in todo[i] : post[p].status # "absent"
    /\ \A e \in Executors :
         /\ exec[e].pc # "idle" => post[exec[e].post].status # "absent"
         /\ exec[e].job # None => job[exec[e].job].status # "absent"

\* A tweet is reported with its number, and a row gets ids by Save alone.
TweetsNumbered ==
    /\ \A e \in Executors : exec[e].result = "published" => exec[e].tweet > 0
    /\ \A p \in Posts : post[p].status = "absent" => post[p].pid = 0

Finished == {"published", "failed"}

\* While no user edits posts, finished posts stay so and a call is reported
\* after its post is finished.
CallsFollowPosts ==
    \A e \in Executors :
      exec[e].pc = "report" \/ exec[e].seen \in Finished
        => post[exec[e].post].status \in Finished

\* Until its post is finished no job is over.
JobsOpen ==
    \A j \in JobIds :
      post[PostOf(j)].status \notin Finished
        => job[j].status \in {"absent", "queued", "running"}

\* The reconciler is the only one to claim posts when the legacy publisher is
\* off, and it claims none without a job.
PublishingHasJob ==
    \A p \in Posts : post[p].status = "publishing" =>
      \E j \in JobIds : PostOf(j) = p /\ job[j].status # "absent"

\* While no run outlives the TTL, a run that goes on holds the lock.
RunsHoldLock == \A i \in Instances : rec[i].pc # "idle" => lock = i

=============================================================================
