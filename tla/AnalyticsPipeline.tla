------------------------- MODULE AnalyticsPipeline -------------------------
(***************************************************************************)
(* How the metrics of a published post become rows of post_analytics.      *)
(*                                                                         *)
(* The analytics reconciler of every API process opens a job for each      *)
(* recent post and queues a task for it; the ARQ worker runs               *)
(* fetch_analytics_job; the legacy sweep of a process reads the same posts *)
(* without jobs.  Unlike the publish reconciler this one claims nothing: a *)
(* recent post is selected by every pass, its open job is queued again.    *)
(*                                                                         *)
(* Reads and writes of one transaction are separate steps here wherever no *)
(* row lock joins them.                                                    *)
(***************************************************************************)
EXTENDS Naturals, FiniteSets, JobQueue

CONSTANTS
    Posts, Instances, Slots, None,
    Others,         \* further posts: they take places in a batch, their own
                    \* jobs are not followed
    EnableArq,      \* enable_reconciler and enable_arq_enqueue are set
    EnableLegacy,   \* enable_legacy_analytics is set
    MaxJobs,        \* bound: analytics jobs a post may ever get
    BatchSize,      \* _ANALYTICS_BATCH_SIZE
    MaxPasses,      \* bound: passes ever started, None for no bound
    MaxQueued,      \* bound: tasks of a job that wait at the same time
    Faults,         \* the kinds of trouble the environment may cause
    MaxFaults       \* bound: how often it causes any of them

FaultKinds == {"instance_crash", "worker_crash", "task_dies", "enqueue_fails",
               "mark_fails", "lock_expires"}

ASSUME AnalyticsAssumption ==
    /\ None \notin Posts \cup Instances \cup Slots
    /\ None \notin Posts \X (1 .. MaxJobs)
    /\ EnableArq \in BOOLEAN /\ EnableLegacy \in BOOLEAN
    /\ MaxJobs \in Nat /\ MaxQueued \in Nat \ {0}
    /\ BatchSize \in Nat \ {0}
    /\ MaxPasses \in Nat \cup {None}
    /\ Faults \subseteq FaultKinds
    /\ MaxFaults \in Nat

AllPosts == Posts \cup Others

VARIABLES
    post,      \* post[p]: what the analytics queries see of the row of p
    job,       \* job[j]: the row of j in job_queue, job_type analytics
    arq,       \* arq[j]: tasks for j that wait in Redis
    lock,      \* reconciler:analytics:lock
    rec,       \* rec[i]: the reconcile_analytics_jobs run of process i
    task,      \* task[s]: the fetch_analytics_job call in slot s
    rows,      \* who saved rows of post_analytics: a job, or a post's sweep
    spent,     \* spent[j]: executions of j so far; a final refusal spends all
    passes,    \* how many passes have started
    faults

vars == <<post, job, arq, lock, rec, task, rows, spent, passes, faults>>

-----------------------------------------------------------------------------

\* recent: published, not deleted, published_at within the window of a week.
PostState == {"unpublished", "recent", "old", "deleted"}

JobIds == Posts \X (1 .. MaxJobs)
PostOf(j) == j[1]

\* new: the selected posts that had no open job; items: the rest of queue_items.
RecState == [pc : {"idle", "select", "commit", "loop", "mark"},
             new : SUBSET Posts, items : SUBSET JobIds, cur : JobIds \cup {None}]

NoRun == [pc |-> "idle", new |-> {}, items |-> {}, cur |-> None]

\* seen is the row the first session loaded, until that session has committed.
TaskState == [pc : {"idle", "start", "fetch", "report"},
              job : JobIds \cup {None}, seen : JobRow,
              result : {"none", "ok", "transient", "permanent"}]

NoTask == [pc |-> "idle", job |-> None, seen |-> NoJob, result |-> "none"]

TypeOK ==
    /\ post \in [AllPosts -> PostState]
    /\ job \in [JobIds -> JobRow]
    /\ arq \in [JobIds -> Nat]
    /\ lock \in Instances \cup {None}
    /\ rec \in [Instances -> RecState]
    /\ task \in [Slots -> TaskState]
    /\ rows \subseteq JobIds \cup Posts
    /\ spent \in [JobIds -> 0 .. MaxAttempts]
    /\ passes \in Nat
    /\ faults \in 0 .. MaxFaults

Init ==
    /\ post = [p \in AllPosts |-> "unpublished"]
    /\ job = [j \in JobIds |-> NoJob]
    /\ arq = [j \in JobIds |-> 0]
    /\ lock = None
    /\ rec = [i \in Instances |-> NoRun]
    /\ task = [s \in Slots |-> NoTask]
    /\ rows = {}
    /\ spent = [j \in JobIds |-> 0]
    /\ passes = 0
    /\ faults = 0

Spend(k) == k \in Faults /\ faults < MaxFaults /\ faults' = faults + 1

\* Counters stop at MaxAttempts: no condition tells larger values apart.
Capped(n) == IF n > MaxAttempts THEN MaxAttempts ELSE n

-----------------------------------------------------------------------------
(* The posts the queries select                                            *)

Publish(p) ==
    /\ post[p] = "unpublished"
    /\ post' = [post EXCEPT ![p] = "recent"]
    /\ UNCHANGED <<job, arq, lock, rec, task, rows, spent, passes, faults>>

\* published_at leaves the window, or the user deletes the post.
Retire(p, to) ==
    /\ post[p] = "recent" \/ (post[p] = "old" /\ to = "deleted")
    /\ to \in {"old", "deleted"}
    /\ post' = [post EXCEPT ![p] = to]
    /\ UNCHANGED <<job, arq, lock, rec, task, rows, spent, passes, faults>>

JobsOf(p) == {j \in JobIds : PostOf(j) = p /\ job[j].status # "absent"}

OpenJobs(p) == {j \in JobsOf(p) : IsOpen(job[j])}

UnusedIds(p) == {j \in JobIds : PostOf(j) = p /\ job[j].status = "absent"}

FirstUnused(p) == CHOOSE j \in UnusedIds(p) : \A k \in UnusedIds(p) : j[2] <= k[2]

Recent == {p \in AllPosts : post[p] = "recent"}

\* LIMIT without ORDER BY: of too many recent posts a pass sees any BatchSize.
Batches ==
    {batch \in SUBSET Recent :
       \/ batch = Recent /\ Cardinality(batch) <= BatchSize
       \/ Cardinality(batch) = BatchSize}

\* Without the others, and posts for which no job id is left: bound MaxJobs.
Selected(batch) == {p \in batch : OpenJobs(p) \cup UnusedIds(p) # {}}

\* scalar_one_or_none raises MultipleResultsFound.
Blocked(p) == Cardinality(OpenJobs(p)) > 1

RetryDue(j) ==
    /\ job[j].retry = "later"
    /\ job' = [job EXCEPT ![j].retry = "now"]
    /\ UNCHANGED <<post, arq, lock, rec, task, rows, spent, passes, faults>>

-----------------------------------------------------------------------------
(* reconcile_analytics_jobs                                                *)

\* Mutant: SET without NX.
LockTaken == TRUE

LockIsFree == lock = None

\* SET key token NX EX ttl.
Acquire(i) ==
    /\ EnableArq
    /\ rec[i].pc = "idle"
    /\ LockIsFree
    /\ lock' = i
    /\ IF MaxPasses = None THEN UNCHANGED passes
       ELSE passes < MaxPasses /\ passes' = passes + 1
    /\ rec' = [rec EXCEPT ![i].pc = "select"]
    /\ UNCHANGED <<post, job, arq, task, rows, spent, faults>>

\* create_queued_job_if_missing finds nothing open; failed jobs do not count.
MissingJob(batch) == {p \in Selected(batch) : OpenJobs(p) = {}}

RetryableJobs == {j \in JobIds : IsRetryable(job[j])}

\* Mutant: a job that is open already is left to the task it had.
QueueRetriesOnly(batch) == RetryableJobs

\* The jobs there are already: open ones are queued again in every pass.
QueueItems(batch) == (UNION {OpenJobs(p) : p \in batch}) \cup RetryableJobs

\* The queries of the transaction.  Nothing keeps their results true.
Select(i) ==
    /\ rec[i].pc = "select"
    /\ \E batch \in Batches :
         /\ \A p \in batch : ~Blocked(p)
         /\ rec' = [rec EXCEPT ![i] = [@ EXCEPT !.pc = "commit", !.new = MissingJob(batch),
                                               !.items = QueueItems(batch)]]
    /\ UNCHANGED <<post, job, arq, lock, task, rows, spent, passes, faults>>

\* The finally clause compares tokens.
Release(i) ==
    /\ rec' = [rec EXCEPT ![i] = NoRun]
    /\ lock' = IF lock = i THEN None ELSE lock
    /\ UNCHANGED <<post, job, arq, task, rows, spent, passes, faults>>

\* The exception rolls the transaction back and ends the run.
Abort(i) ==
    /\ rec[i].pc = "select"
    /\ \E batch \in Batches : \E p \in batch : Blocked(p)
    /\ Release(i)

\* The new rows become visible.
Commit(i) ==
    /\ rec[i].pc = "commit"
    /\ LET created == {FirstUnused(p) : p \in {q \in rec[i].new : UnusedIds(q) # {}}} IN
         /\ job' = [j \in JobIds |-> IF j \in created THEN CreateQueuedJob ELSE job[j]]
         /\ rec' = [rec EXCEPT ![i] = [pc |-> "loop", new |-> {}, cur |-> None,
                                       items |-> rec[i].items \cup created]]
    /\ UNCHANGED <<post, arq, lock, task, rows, spent, passes, faults>>

\* enqueue_analytics_job; MaxQueued is a bound.
Enqueue(i, j) ==
    /\ rec[i].pc = "loop" /\ j \in rec[i].items
    /\ arq[j] < MaxQueued
    /\ arq' = [arq EXCEPT ![j] = arq[j] + 1]
    /\ rec' = [rec EXCEPT ![i] =
                 [@ EXCEPT !.pc = "mark", !.items = rec[i].items \ {j}, !.cur = j]]
    /\ UNCHANGED <<post, job, lock, task, rows, spent, passes, faults>>

EnqueueFails(i, j) ==
    /\ rec[i].pc = "loop" /\ j \in rec[i].items
    /\ Spend("enqueue_fails")
    /\ rec' = [rec EXCEPT ![i].items = @ \ {j}]
    /\ UNCHANGED <<post, job, arq, lock, task, rows, spent, passes>>

\* The task may have run meanwhile: the row becomes queued all the same.
Mark(i) ==
    /\ rec[i].pc = "mark"
    /\ job' = [job EXCEPT ![rec[i].cur] = MarkEnqueued(job[rec[i].cur])]
    /\ rec' = [rec EXCEPT ![i] = [@ EXCEPT !.pc = "loop", !.cur = None]]
    /\ UNCHANGED <<post, arq, lock, task, rows, spent, passes, faults>>

MarkFails(i) ==
    /\ rec[i].pc = "mark"
    /\ Spend("mark_fails")
    /\ rec' = [rec EXCEPT ![i] = [@ EXCEPT !.pc = "loop", !.cur = None]]
    /\ UNCHANGED <<post, job, arq, lock, task, rows, spent, passes>>

Finish(i) ==
    /\ rec[i].pc = "loop" /\ rec[i].items = {}
    /\ Release(i)

\* The key reaches its TTL: its process is dead, or too slow (a fault).
LockExpires ==
    /\ lock # None
    /\ IF rec[lock].pc = "idle" THEN UNCHANGED faults ELSE Spend("lock_expires")
    /\ lock' = None
    /\ UNCHANGED <<post, job, arq, rec, task, rows, spent, passes>>

InstanceCrash(i) ==
    /\ rec[i] # NoRun
    /\ Spend("instance_crash")
    /\ rec' = [rec EXCEPT ![i] = NoRun]
    /\ UNCHANGED <<post, job, arq, lock, task, rows, spent, passes>>

-----------------------------------------------------------------------------
(* fetch_analytics_job                                                     *)

\* The first session loads the row.
TaskLoads(s, j) ==
    /\ task[s].pc = "idle"
    /\ arq[j] > 0
    /\ arq' = [arq EXCEPT ![j] = arq[j] - 1]
    /\ task' = [task EXCEPT ![s] = [NoTask EXCEPT !.pc = "start", !.job = j, !.seen = job[j]]]
    /\ UNCHANGED <<post, job, lock, rec, rows, spent, passes, faults>>

\* ... and writes what differs from what it loaded: attempt_count is the
\* loaded value plus one, the status is left alone if it was running already.
Started(row, seen) ==
    [row EXCEPT !.status = IF seen.status = "running" THEN row.status ELSE "running",
                !.attempts = Capped(MarkRunning(seen).attempts)]

TaskStarts(s) ==
    LET j == task[s].job IN
    /\ task[s].pc = "start"
    /\ job' = [job EXCEPT ![j] = Started(job[j], task[s].seen)]
    /\ spent' = [spent EXCEPT ![j] = Capped(spent[j] + 1)]
    /\ task' = [task EXCEPT ![s] = [@ EXCEPT !.pc = "fetch", !.seen = NoJob]]
    /\ UNCHANGED <<post, arq, lock, rec, rows, passes, faults>>

Errors == {"HTTP_429_5XX", "HTTP_400_401_403_404", "HTTP_OTHER", "NETWORK_ERROR", "UNKNOWN"}

\* Mutant: the caller is given the error type instead of its class.
ErrorAsClass(error) == error

\* _classify_analytics_error.
Classify(error) == IF error = "HTTP_400_401_403_404" THEN "permanent" ELSE "transient"

Eligible(p) == post[p] \in {"recent", "old"}

\* Mutant: the row is added to the session and never committed.
FetchUncommitted(s) ==
    /\ task[s].pc = "fetch"
    /\ Eligible(PostOf(task[s].job))
    /\ task' = [task EXCEPT ![s] = [@ EXCEPT !.pc = "report", !.result = "ok"]]
    /\ UNCHANGED <<post, job, arq, lock, rec, rows, spent, passes, faults>>

\* fetch_analytics_for_post: the query of the post and its account, without
\* the window, the call of X, which reads only, and the commit of the row.
FetchSaves(s) ==
    LET j == task[s].job IN
    /\ task[s].pc = "fetch"
    /\ Eligible(PostOf(j))
    /\ rows' = rows \cup {j}
    /\ task' = [task EXCEPT ![s] = [@ EXCEPT !.pc = "report", !.result = "ok"]]
    /\ UNCHANGED <<post, job, arq, lock, rec, spent, passes, faults>>

\* X refuses, or there is nothing to fetch: POST_NOT_ELIGIBLE.
FetchFails(s, error) ==
    LET j == task[s].job
        result == IF Eligible(PostOf(j)) THEN Classify(error) ELSE "permanent"
    IN
    /\ task[s].pc = "fetch"
    /\ task' = [task EXCEPT ![s] = [@ EXCEPT !.pc = "report", !.result = result]]
    /\ spent' = IF result = "permanent" THEN [spent EXCEPT ![j] = MaxAttempts] ELSE spent
    /\ UNCHANGED <<post, job, arq, lock, rec, rows, passes, faults>>

Report(s) ==
    LET j == task[s].job IN
    /\ task[s].pc = "report"
    /\ job' = [job EXCEPT ![j] = IF task[s].result = "ok" THEN MarkCompleted(job[j])
                                 ELSE MarkFailed(job[j], task[s].result = "transient")]
    /\ task' = [task EXCEPT ![s] = NoTask]
    /\ UNCHANGED <<post, arq, lock, rec, rows, spent, passes, faults>>

\* ARQ runs the task of a dead worker again, and forgets one that raised.
TaskEnds(s, kind) ==
    /\ task[s].pc # "idle"
    /\ kind \in {"worker_crash", "task_dies"}
    /\ Spend(kind)
    /\ arq' = IF kind = "task_dies" THEN arq ELSE [arq EXCEPT ![task[s].job] = @ + 1]
    /\ task' = [task EXCEPT ![s] = NoTask]
    /\ UNCHANGED <<post, job, lock, rec, rows, spent, passes>>

-----------------------------------------------------------------------------
(* fetch_published_analytics                                               *)

\* Every process may sweep, and holds the rows it selected while it works
\* through them: a post that was recent once may get a row at any later time.
SweepSaves(p) ==
    /\ EnableLegacy
    /\ post[p] # "unpublished"
    /\ rows' = rows \cup {p}
    /\ UNCHANGED <<post, job, arq, lock, rec, task, spent, passes, faults>>

-----------------------------------------------------------------------------

Pass(i) ==
    \/ Select(i)
    \/ Abort(i)
    \/ Commit(i)
    \/ \E j \in JobIds : Enqueue(i, j)
    \/ Mark(i)
    \/ Finish(i)

Fetching(s) ==
    \/ TaskStarts(s)
    \/ FetchSaves(s)
    \/ \E error \in Errors : FetchFails(s, error)
    \/ Report(s)

Next ==
    \/ \E p \in AllPosts : Publish(p) \/ Retire(p, "old") \/ Retire(p, "deleted")
    \/ \E p \in Posts : SweepSaves(p)
    \/ \E j \in JobIds : RetryDue(j)
    \/ LockExpires
    \/ \E i \in Instances :
         \/ Acquire(i)
         \/ Pass(i)
         \/ \E j \in JobIds : EnqueueFails(i, j)
         \/ MarkFails(i)
         \/ InstanceCrash(i)
    \/ \E s \in Slots :
         \/ \E j \in JobIds : TaskLoads(s, j)
         \/ Fetching(s)
         \/ \E kind \in Faults : TaskEnds(s, kind)

Spec == Init /\ [][Next]_vars

(***************************************************************************)
(* APScheduler keeps starting passes, a pass and a task go on, ARQ hands   *)
(* out what is queued, clocks advance.                                     *)
(***************************************************************************)
Fairness ==
    /\ WF_vars(LockExpires)
    /\ \A j \in JobIds : WF_vars(RetryDue(j)) /\ WF_vars(\E s \in Slots : TaskLoads(s, j))
    /\ WF_vars(\E i \in Instances : Acquire(i))
    /\ \A i \in Instances : WF_vars(Pass(i))
    /\ \A s \in Slots : WF_vars(Fetching(s))

FairSpec == Spec /\ Fairness

-----------------------------------------------------------------------------
(* What the pipeline promises                                              *)

\* A completed job has its snapshot in post_analytics, whatever other tasks of
\* the job, late marks and redeliveries did to its row.
CompletedHasSnapshot == \A j \in JobIds : job[j].status = "completed" => j \in rows

\* A pass opens no job beside one that was never attempted: two selections that
\* both miss it take a lost lock.  (A job waiting for its retry does not count.)
FreshJobsPaidFor ==
    \A p \in Posts :
      Cardinality({j \in JobsOf(p) : spent[j] = 0}) <= 1 + faults

\* A job nobody refused reaches dead_letter only after max_attempts executions:
\* increments that two tasks lose to each other never cost an attempt.
DeadLetterEarned ==
    \A j \in JobIds :
      job[j].status = "dead_letter" => spent[j] = MaxAttempts

\* The job of a recent post does not stay open for ever, whichever enqueue,
\* task or process was lost: the next pass queues it again.  It can only stay
\* so when a recent post has two open jobs, which makes the passes abort, or
\* when there are more recent posts than a pass selects: it may miss this one.
OpenJobEnds ==
    \A j \in JobIds :
      IsOpen(job[j]) ~> \/ ~IsOpen(job[j])
                        \/ PostOf(j) \notin Recent
                        \/ \E p \in Recent : Blocked(p)
                        \/ Cardinality(Recent) > BatchSize

=============================================================================
