---------------------- MODULE AnalyticsPipelineProofs ----------------------
(***************************************************************************)
(* Theorems about AnalyticsPipeline, for any number of posts, processes,   *)
(* workers, attempts and troubles: its types, that a completed job has its *)
(* snapshot, that dead_letter is earned by refusals, and that a pass opens *)
(* no job beside a fresh one unless a lost lock paid for it.               *)
(***************************************************************************)
EXTENDS AnalyticsPipeline, FiniteSetTheorems, WellFoundedInduction, TLAPS

-----------------------------------------------------------------------------
(* Type correctness                                                        *)

\* A run that is to mark has a job to mark, a task that is not idle has a job.
Assigned ==
    /\ \A i \in Instances : rec[i].pc = "mark" => rec[i].cur \in JobIds
    /\ \A s \in Slots : task[s].pc # "idle" => task[s].job \in JobIds

\* What waits, runs or is worked through is a row of job_queue.
Exists(j) == job[j].status # "absent"

OnlyRows ==
    /\ \A j \in JobIds : arq[j] > 0 => Exists(j)
    /\ \A s \in Slots : task[s].pc # "idle" => Exists(task[s].job)
    /\ \A i \in Instances : \A j \in rec[i].items : Exists(j)
    /\ \A i \in Instances : rec[i].pc = "mark" => Exists(rec[i].cur)

\* What the execution of a task has left behind when it is to report.
TaskSoFar ==
    \A s \in Slots :
      /\ task[s].pc \in {"fetch", "report"} => spent[task[s].job] > 0
      /\ task[s].pc = "report" => task[s].result # "none"
      /\ task[s].pc = "report" /\ task[s].result = "ok" => task[s].job \in rows
      /\ task[s].pc = "report" /\ task[s].result = "permanent" =>
           spent[task[s].job] = MaxAttempts

\* attempt_count never runs ahead of the executions, nor does a loaded value.
AttemptsSpent ==
    /\ \A j \in JobIds : job[j].attempts <= spent[j]
    /\ \A s \in Slots : task[s].pc = "start" => task[s].seen.attempts <= spent[task[s].job]

\* A row nobody has executed waits in the queue.
FreshQueued == \A j \in JobIds : Exists(j) /\ spent[j] = 0 => job[j].status = "queued"

\* Runs that may insert a job for p: the selection missed it, or the run was
\* overtaken and may select at any time.
Inserting(i, p) == rec[i].pc = "commit" /\ p \in rec[i].new
Overtaken(i) == rec[i].pc = "select" /\ lock # i

Fresh(p) == {j \in JobsOf(p) : spent[j] = 0}
Runs(p) == {i \in Instances : Inserting(i, p) \/ Overtaken(i)}

Chance(p) == Fresh(p) = {} /\ ~(lock \in Instances /\ Inserting(lock, p))

Tokens(p) ==
    ({"job"} \X Fresh(p)) \cup ({"run"} \X Runs(p))
      \cup {t \in {<<"chance", p>>} : Chance(p)}

CountedTokens ==
    \A p \in Posts : IsFiniteSet(Tokens(p)) /\ Cardinality(Tokens(p)) <= 1 + faults

LEMMA NothingTyped == NoJob \in JobRow /\ NoRun \in RecState /\ NoTask \in TaskState
BY DEF NoJob, JobRow, When, NoRun, RecState, NoTask, TaskState

\* The transitions of job_queue.py and the two of the task keep a row a row.
LEMMA TransitionsTyped ==
    ASSUME NEW row \in JobRow, NEW seen \in JobRow, NEW retryable \in BOOLEAN
    PROVE  /\ CreateQueuedJob \in JobRow
           /\ MarkEnqueued(row) \in JobRow
           /\ MarkCompleted(row) \in JobRow
           /\ MarkFailed(row, retryable) \in JobRow
           /\ Started(row, seen) \in JobRow
           /\ [row EXCEPT !.retry = "now"] \in JobRow
<1> USE DEF JobRow, JobStatus, When
<1>1. CreateQueuedJob \in JobRow
  BY DEF CreateQueuedJob, NoJob
<1>2. MarkEnqueued(row) \in JobRow /\ MarkCompleted(row) \in JobRow
  BY DEF MarkEnqueued, MarkCompleted
<1>3. MarkFailed(row, retryable) \in JobRow
  BY DEF MarkFailed
<1>4. Started(row, seen) \in JobRow
  <2>1. Capped(MarkRunning(seen).attempts) \in Nat
    BY MaxAttemptsAssumption DEF Capped, MarkRunning
  <2> QED  BY <2>1 DEF Started
<1> QED  BY <1>1, <1>2, <1>3, <1>4

LEMMA LeastOfNaturals ==
    ASSUME NEW T, T \subseteq Nat, T # {}
    PROVE  \E n \in T : \A m \in T : n <= m
<1> DEFINE R == {e \in Nat \X Nat : e[1] < e[2]}
<1>1. IsWellFoundedOn(R, Nat)
  <2>1. IsWellFoundedOn(OpToRel(<, Nat), Nat)
    BY NatLessThanWellFounded
  <2>2. OpToRel(<, Nat) = R
    BY DEF OpToRel
  <2> QED  BY <2>1, <2>2
<1>2. PICK n \in T : \A m \in T : ~(<<m, n>> \in R)
  <2> HIDE DEF R
  <2> QED  BY <1>1, WFMin
<1>3. ASSUME NEW m \in T PROVE n <= m
  <2>1. m \in Nat /\ n \in Nat
    OBVIOUS
  <2>2. m < n => <<m, n>> \in R
    BY <2>1
  <2> QED  BY <1>2, <2>1, <2>2
<1> QED  BY <1>3

\* The id a new job gets is one of the post that no row has.
LEMMA FirstUnusedIn ==
    ASSUME NEW p \in Posts, UnusedIds(p) # {}
    PROVE  FirstUnused(p) \in UnusedIds(p)
<1> DEFINE Numbers == {j[2] : j \in UnusedIds(p)}
<1>1. Numbers \subseteq Nat /\ Numbers # {}
  BY AnalyticsAssumption DEF UnusedIds, JobIds
<1>2. PICK n \in Numbers : \A m \in Numbers : n <= m
  <2> HIDE DEF Numbers
  <2> QED  BY <1>1, LeastOfNaturals
<1>3. \E j \in UnusedIds(p) : \A k \in UnusedIds(p) : j[2] <= k[2]
  BY <1>2
<1> QED  BY <1>3 DEF FirstUnused

-----------------------------------------------------------------------------
(* Which actions write what                                                *)

LEMMA OthersLeaveJob ==
    ASSUME [Next]_vars
    PROVE  \/ UNCHANGED job
           \/ \E j \in JobIds : RetryDue(j)
           \/ \E i \in Instances : Commit(i) \/ Mark(i)
           \/ \E s \in Slots : TaskStarts(s) \/ Report(s)
BY DEF Next, Publish, Retire, SweepSaves, LockExpires, Acquire, Pass, Select, Abort, Release,
   Enqueue, Finish, EnqueueFails, MarkFails, InstanceCrash, TaskLoads, Fetching, FetchSaves,
   FetchFails, TaskEnds, vars

LEMMA OthersLeaveRec ==
    ASSUME [Next]_vars
    PROVE  \/ UNCHANGED <<rec, lock>>
           \/ LockExpires
           \/ \E i \in Instances : \/ Acquire(i)
                                   \/ Pass(i)
                                   \/ \E j \in JobIds : EnqueueFails(i, j)
                                   \/ MarkFails(i)
                                   \/ InstanceCrash(i)
BY DEF Next, Publish, Retire, SweepSaves, RetryDue, TaskLoads, Fetching, TaskStarts,
   FetchSaves, FetchFails, Report, TaskEnds, vars

LEMMA OthersLeaveTask ==
    ASSUME [Next]_vars
    PROVE  \/ UNCHANGED <<task, spent>>
           \/ \E s \in Slots : \/ \E j \in JobIds : TaskLoads(s, j)
                               \/ Fetching(s)
                               \/ \E kind \in Faults : TaskEnds(s, kind)
BY DEF Next, Publish, Retire, SweepSaves, RetryDue, LockExpires, Acquire, Pass, Select, Abort,
   Release, Commit, Enqueue, Mark, Finish, EnqueueFails, MarkFails, InstanceCrash, vars

LEMMA OthersLeaveQueue ==
    ASSUME [Next]_vars
    PROVE  \/ UNCHANGED arq
           \/ \E i \in Instances, j \in JobIds : Enqueue(i, j)
           \/ \E s \in Slots : \/ \E j \in JobIds : TaskLoads(s, j)
                               \/ \E kind \in Faults : TaskEnds(s, kind)
BY DEF Next, Publish, Retire, SweepSaves, RetryDue, LockExpires, Acquire, Pass, Select, Abort,
   Release, Commit, Mark, Finish, EnqueueFails, MarkFails, InstanceCrash, Fetching,
   TaskStarts, FetchSaves, FetchFails, Report, vars

-----------------------------------------------------------------------------

TypedInv == TypeOK /\ Assigned

LEMMA SpendTyped ==
    ASSUME TypeOK, NEW k, Spend(k)
    PROVE  faults' \in 0 .. MaxFaults /\ faults' = faults + 1
BY AnalyticsAssumption DEF TypeOK, Spend

LEMMA RunTyped ==
    ASSUME TypedInv, NEW i \in Instances, NEW run \in RecState,
           run.pc = "mark" => run.cur \in JobIds,
           rec' = [rec EXCEPT ![i] = run], UNCHANGED task
    PROVE  rec' \in [Instances -> RecState] /\ Assigned'
BY DEF TypedInv, TypeOK, Assigned

LEMMA CallTyped ==
    ASSUME TypedInv, NEW s \in Slots, NEW call \in TaskState,
           call.pc # "idle" => call.job \in JobIds,
           task' = [task EXCEPT ![s] = call], UNCHANGED rec
    PROVE  task' \in [Slots -> TaskState] /\ Assigned'
BY DEF TypedInv, TypeOK, Assigned

\* Only posts whose jobs are followed are ever missing one.
LEMMA MissingPosts ==
    ASSUME NEW batch
    PROVE  MissingJob(batch) \subseteq Posts
BY DEF MissingJob, Selected, OpenJobs, JobsOf, UnusedIds, JobIds, PostOf

LEMMA PassTyped ==
    ASSUME TypedInv, NEW i \in Instances, Pass(i)
    PROVE  TypedInv'
<1> USE DEF TypedInv, TypeOK
<1>1. CASE Select(i)
  <2>0. PICK batch : rec' = [rec EXCEPT ![i] = [@ EXCEPT !.pc = "commit",
                                  !.new = MissingJob(batch), !.items = QueueItems(batch)]]
    BY <1>1 DEF Select
  <2> DEFINE run == [rec[i] EXCEPT !.pc = "commit", !.new = MissingJob(batch),
                                   !.items = QueueItems(batch)]
  <2>1. MissingJob(batch) \subseteq Posts /\ QueueItems(batch) \subseteq JobIds
    BY MissingPosts DEF QueueItems, RetryableJobs, OpenJobs, JobsOf
  <2>2. run \in RecState /\ run.pc = "commit"
    BY <2>1 DEF RecState
  <2>3. rec' = [rec EXCEPT ![i] = run]
    BY <2>0
  <2>4. rec' \in [Instances -> RecState] /\ Assigned'
    <3> HIDE DEF run
    <3> QED  BY <1>1, <2>2, <2>3, RunTyped DEF Select
  <2> QED  BY <1>1, <2>4 DEF Select
<1>2. CASE Abort(i) \/ Finish(i)
  <2>1. Release(i)
    BY <1>2 DEF Abort, Finish
  <2>2. rec' \in [Instances -> RecState] /\ Assigned'
    BY <2>1, RunTyped, NothingTyped DEF Release, NoRun
  <2> QED  BY <2>1, <2>2 DEF Release
<1>3. CASE Commit(i)
  <2> DEFINE created == {FirstUnused(p) : p \in {q \in rec[i].new : UnusedIds(q) # {}}}
             run == [pc |-> "loop", new |-> {}, cur |-> None, items |-> rec[i].items \cup created]
  <2>1. created \subseteq JobIds
    BY FirstUnusedIn DEF RecState, UnusedIds
  <2>2. run \in RecState /\ run.pc = "loop"
    BY <2>1 DEF RecState
  <2>3. /\ rec' = [rec EXCEPT ![i] = run]
        /\ job' = [j \in JobIds |-> IF j \in created THEN CreateQueuedJob ELSE job[j]]
    BY <1>3 DEF Commit
  <2>4. rec' \in [Instances -> RecState] /\ Assigned'
    <3> HIDE DEF run
    <3> QED  BY <1>3, <2>2, <2>3, RunTyped DEF Commit
  <2>5. job' \in [JobIds -> JobRow]
    <3> HIDE DEF created
    <3>1. CreateQueuedJob \in JobRow
      BY TransitionsTyped, NothingTyped
    <3> QED  BY <2>3, <3>1
  <2> QED  BY <1>3, <2>4, <2>5 DEF Commit
<1>4. ASSUME NEW j \in JobIds, Enqueue(i, j)
      PROVE  TypedInv'
  <2> DEFINE run == [rec[i] EXCEPT !.pc = "mark", !.items = rec[i].items \ {j}, !.cur = j]
  <2>1. run \in RecState /\ run.cur \in JobIds
    BY DEF RecState
  <2>2. rec' = [rec EXCEPT ![i] = run]
    BY <1>4 DEF Enqueue
  <2>3. rec' \in [Instances -> RecState] /\ Assigned'
    <3> HIDE DEF run
    <3> QED  BY <1>4, <2>1, <2>2, RunTyped DEF Enqueue
  <2> QED  BY <1>4, <2>3 DEF Enqueue
<1>5. CASE Mark(i)
  <2> DEFINE run == [rec[i] EXCEPT !.pc = "loop", !.cur = None]
  <2>1. run \in RecState /\ run.pc = "loop"
    BY DEF RecState
  <2>2. rec' = [rec EXCEPT ![i] = run]
    BY <1>5 DEF Mark
  <2>3. rec' \in [Instances -> RecState] /\ Assigned'
    <3> HIDE DEF run
    <3> QED  BY <1>5, <2>1, <2>2, RunTyped DEF Mark
  <2>4. rec[i].cur \in JobIds
    BY <1>5 DEF Mark, Assigned
  <2>5. MarkEnqueued(job[rec[i].cur]) \in JobRow
    BY <2>4, TransitionsTyped
  <2>6. job' \in [JobIds -> JobRow]
    BY <1>5, <2>4, <2>5 DEF Mark
  <2> QED  BY <1>5, <2>3, <2>6 DEF Mark
<1> QED  BY <1>1, <1>2, <1>3, <1>4, <1>5 DEF Pass

LEMMA FetchingTyped ==
    ASSUME TypedInv, NEW s \in Slots, Fetching(s)
    PROVE  TypedInv'
<1> USE DEF TypedInv, TypeOK
<1> DEFINE j == task[s].job
<1>1. task[s] \in TaskState /\ j \in JobIds
  BY DEF Fetching, TaskStarts, FetchSaves, FetchFails, Report, Assigned
<1>2. CASE TaskStarts(s)
  <2>1. /\ [task[s] EXCEPT !.pc = "fetch", !.seen = NoJob] \in TaskState
        /\ [task[s] EXCEPT !.pc = "fetch", !.seen = NoJob].job \in JobIds
    BY <1>1, NothingTyped DEF TaskState
  <2>2. task' \in [Slots -> TaskState] /\ Assigned'
    BY <1>2, <2>1, CallTyped DEF TaskStarts
  <2>3. Started(job[j], task[s].seen) \in JobRow
    BY <1>1, TransitionsTyped DEF TaskState
  <2>4. Capped(spent[j] + 1) \in 0 .. MaxAttempts
    BY <1>1, MaxAttemptsAssumption DEF Capped
  <2> QED  BY <1>2, <2>2, <2>3, <2>4 DEF TaskStarts
<1>3. ASSUME NEW result \in {"ok", "transient", "permanent"}
      PROVE  /\ [task[s] EXCEPT !.pc = "report", !.result = result] \in TaskState
             /\ [task[s] EXCEPT !.pc = "report", !.result = result].job \in JobIds
  BY <1>1 DEF TaskState
<1>4. CASE FetchSaves(s)
  <2>1. task' \in [Slots -> TaskState] /\ Assigned'
    BY <1>3, <1>4, CallTyped DEF FetchSaves
  <2> QED  BY <1>1, <1>4, <2>1 DEF FetchSaves
<1>5. ASSUME NEW error \in Errors, FetchFails(s, error)
      PROVE  TypedInv'
  <2> DEFINE result == IF Eligible(PostOf(j)) THEN Classify(error) ELSE "permanent"
  <2>1. result \in {"ok", "transient", "permanent"}
    BY DEF Classify
  <2>2. /\ task' = [task EXCEPT ![s] = [task[s] EXCEPT !.pc = "report", !.result = result]]
        /\ spent' = IF result = "permanent" THEN [spent EXCEPT ![j] = MaxAttempts] ELSE spent
    BY <1>5 DEF FetchFails
  <2>3. task' \in [Slots -> TaskState] /\ Assigned'
    <3> HIDE DEF result
    <3> QED  BY <1>3, <1>5, <2>1, <2>2, CallTyped DEF FetchFails
  <2>4. spent' \in [JobIds -> 0 .. MaxAttempts]
    <3>1. spent' = [spent EXCEPT ![j] = MaxAttempts] \/ spent' = spent
      BY <2>2
    <3>2. MaxAttempts \in 0 .. MaxAttempts
      BY MaxAttemptsAssumption
    <3> QED  BY <3>1, <3>2
  <2> QED  BY <1>5, <2>3, <2>4 DEF FetchFails
<1>6. CASE Report(s)
  <2>1. task' \in [Slots -> TaskState] /\ Assigned'
    BY <1>6, NothingTyped, CallTyped DEF Report, NoTask
  <2>2. /\ MarkCompleted(job[j]) \in JobRow
        /\ MarkFailed(job[j], task[s].result = "transient") \in JobRow
    BY <1>1, TransitionsTyped
  <2>3. job' \in [JobIds -> JobRow]
    BY <1>6, <2>2 DEF Report
  <2> QED  BY <1>6, <2>1, <2>3 DEF Report
<1> QED  BY <1>2, <1>4, <1>5, <1>6 DEF Fetching

LEMMA TypedStep == TypedInv /\ [Next]_vars => TypedInv'
<1> SUFFICES ASSUME TypedInv, [Next]_vars PROVE TypedInv'
  OBVIOUS
<1> USE DEF TypedInv, TypeOK
<1>1. ASSUME NEW p \in AllPosts,
             \/ Publish(p) \/ Retire(p, "old") \/ Retire(p, "deleted")
             \/ p \in Posts /\ SweepSaves(p)
      PROVE  TypedInv'
  <2>1. post' \in [AllPosts -> PostState] /\ rows' \subseteq JobIds \cup Posts
    BY <1>1 DEF Publish, Retire, SweepSaves, PostState
  <2> QED  BY <1>1, <2>1 DEF Publish, Retire, SweepSaves, Assigned
<1>2. ASSUME NEW j \in JobIds, RetryDue(j)
      PROVE  TypedInv'
  <2>1. [job[j] EXCEPT !.retry = "now"] \in JobRow
    BY TransitionsTyped
  <2>2. job' \in [JobIds -> JobRow]
    BY <1>2, <2>1 DEF RetryDue
  <2> QED  BY <1>2, <2>2 DEF RetryDue, Assigned
<1>3. CASE LockExpires
  <2>1. faults' \in 0 .. MaxFaults
    BY <1>3, SpendTyped DEF LockExpires
  <2> QED  BY <1>3, <2>1 DEF LockExpires, Assigned
<1>4. ASSUME NEW i \in Instances, Acquire(i)
      PROVE  TypedInv'
  <2>1. [rec[i] EXCEPT !.pc = "select"] \in RecState
    BY DEF RecState
  <2>2. rec' \in [Instances -> RecState] /\ Assigned'
    BY <1>4, <2>1, RunTyped DEF Acquire, RecState
  <2>3. passes' \in Nat
    BY <1>4 DEF Acquire
  <2> QED  BY <1>4, <2>2, <2>3 DEF Acquire
<1>5. ASSUME NEW i \in Instances, NEW j \in JobIds, EnqueueFails(i, j)
      PROVE  TypedInv'
  <2>1. /\ [rec[i] EXCEPT !.items = @ \ {j}] \in RecState
        /\ [rec[i] EXCEPT !.items = @ \ {j}].pc = "loop"
    BY <1>5 DEF RecState, EnqueueFails
  <2>2. rec' \in [Instances -> RecState] /\ Assigned'
    BY <1>5, <2>1, RunTyped DEF EnqueueFails
  <2> QED  BY <1>5, <2>2, SpendTyped DEF EnqueueFails
<1>6. ASSUME NEW i \in Instances, MarkFails(i)
      PROVE  TypedInv'
  <2>1. /\ [rec[i] EXCEPT !.pc = "loop", !.cur = None] \in RecState
        /\ [rec[i] EXCEPT !.pc = "loop", !.cur = None].pc = "loop"
    BY DEF RecState
  <2>2. rec' \in [Instances -> RecState] /\ Assigned'
    BY <1>6, <2>1, RunTyped DEF MarkFails
  <2> QED  BY <1>6, <2>2, SpendTyped DEF MarkFails
<1>7. ASSUME NEW i \in Instances, InstanceCrash(i)
      PROVE  TypedInv'
  <2>1. rec' \in [Instances -> RecState] /\ Assigned'
    BY <1>7, RunTyped, NothingTyped DEF InstanceCrash, NoRun
  <2> QED  BY <1>7, <2>1, SpendTyped DEF InstanceCrash
<1>8. ASSUME NEW s \in Slots, NEW j \in JobIds, TaskLoads(s, j)
      PROVE  TypedInv'
  <2>1. /\ [NoTask EXCEPT !.pc = "start", !.job = j, !.seen = job[j]] \in TaskState
        /\ [NoTask EXCEPT !.pc = "start", !.job = j, !.seen = job[j]].job \in JobIds
    BY DEF TaskState, NoTask
  <2>2. task' \in [Slots -> TaskState] /\ Assigned'
    BY <1>8, <2>1, CallTyped DEF TaskLoads
  <2>3. arq' \in [JobIds -> Nat]
    BY <1>8 DEF TaskLoads
  <2> QED  BY <1>8, <2>2, <2>3 DEF TaskLoads
<1>9. ASSUME NEW s \in Slots, NEW kind \in Faults, TaskEnds(s, kind)
      PROVE  TypedInv'
  <2>1. task' \in [Slots -> TaskState] /\ Assigned'
    BY <1>9, NothingTyped, CallTyped DEF TaskEnds, NoTask
  <2>2. arq' \in [JobIds -> Nat]
    <3>1. arq' = arq \/ arq' = [arq EXCEPT ![task[s].job] = arq[task[s].job] + 1]
      BY <1>9 DEF TaskEnds
    <3>2. task[s].job \in JobIds
      BY <1>9 DEF TaskEnds, Assigned
    <3> QED  BY <3>1, <3>2
  <2> QED  BY <1>9, <2>1, <2>2, SpendTyped DEF TaskEnds
<1>10. CASE UNCHANGED vars
  BY <1>10 DEF vars, Assigned
<1> QED
  BY <1>1, <1>2, <1>3, <1>4, <1>5, <1>6, <1>7, <1>8, <1>9, <1>10, PassTyped, FetchingTyped
  DEF Next, AllPosts

\* Whatever passes and tasks do to each other, a run that is to mark has a job
\* and a task that runs has one.
LEMMA TypedAlways == Spec => []TypedInv
<1>1. Init => TypedInv
  BY AnalyticsAssumption, MaxAttemptsAssumption, NothingTyped
  DEF Init, TypedInv, TypeOK, Assigned, PostState, NoRun, NoTask
<1> QED  BY <1>1, TypedStep, PTL DEF Spec

\* Every variable of the analytics pipeline keeps its type; attempt counters
\* and executions stay in range.
THEOREM TypeCorrect == Spec => []TypeOK
<1>1. TypedInv => TypeOK
  BY DEF TypedInv
<1> QED  BY <1>1, TypedAlways, PTL

-----------------------------------------------------------------------------
(* Rows, executions and snapshots                                          *)

\* What a step does to the row of j: nothing, or one of the transitions of
\* job_queue.py, or an insertion, or the start of a task.
LEMMA RowSteps ==
    ASSUME TypedInv, [Next]_vars, NEW j \in JobIds
    PROVE  \/ job'[j] = job[j]
           \/ job'[j] = [job[j] EXCEPT !.retry = "now"]
           \/ job'[j] = CreateQueuedJob
           \/ job'[j] = MarkEnqueued(job[j])
           \/ \E s \in Slots : /\ TaskStarts(s) /\ task[s].job = j
                               /\ job'[j] = Started(job[j], task[s].seen)
           \/ \E s \in Slots :
                /\ Report(s) /\ task[s].job = j
                /\ job'[j] = IF task[s].result = "ok" THEN MarkCompleted(job[j])
                             ELSE MarkFailed(job[j], task[s].result = "transient")
<1> USE DEF TypedInv, TypeOK
<1>1. ASSUME NEW k \in JobIds, RetryDue(k)
      PROVE  job'[j] = job[j] \/ job'[j] = [job[j] EXCEPT !.retry = "now"]
  BY <1>1 DEF RetryDue
<1>2. ASSUME NEW i \in Instances, Commit(i)
      PROVE  job'[j] = job[j] \/ job'[j] = CreateQueuedJob
  BY <1>2 DEF Commit
<1>3. ASSUME NEW i \in Instances, Mark(i)
      PROVE  job'[j] = job[j] \/ job'[j] = MarkEnqueued(job[j])
  BY <1>3 DEF Mark
<1>4. ASSUME NEW s \in Slots, TaskStarts(s)
      PROVE  \/ job'[j] = job[j]
             \/ task[s].job = j /\ job'[j] = Started(job[j], task[s].seen)
  BY <1>4 DEF TaskStarts
<1>5. ASSUME NEW s \in Slots, Report(s)
      PROVE  \/ job'[j] = job[j]
             \/ /\ task[s].job = j
                /\ job'[j] = IF task[s].result = "ok" THEN MarkCompleted(job[j])
                             ELSE MarkFailed(job[j], task[s].result = "transient")
  BY <1>5 DEF Report
<1> QED  BY <1>1, <1>2, <1>3, <1>4, <1>5, OthersLeaveJob

\* A row is never deleted.
LEMMA RowsStay ==
    ASSUME TypedInv, [Next]_vars, NEW j \in JobIds, Exists(j)
    PROVE  Exists(j)'
<1> USE DEF Exists
<1>1. job[j] \in JobRow
  BY DEF TypedInv, TypeOK
<1>2. \A seen : Started(job[j], seen).status # "absent"
  BY <1>1 DEF Started, JobRow
<1>3. /\ CreateQueuedJob.status # "absent"
      /\ MarkEnqueued(job[j]).status # "absent"
      /\ MarkCompleted(job[j]).status # "absent"
      /\ [job[j] EXCEPT !.retry = "now"].status # "absent"
  BY <1>1 DEF CreateQueuedJob, NoJob, MarkEnqueued, MarkCompleted, JobRow
<1>4. ASSUME NEW s \in Slots
      PROVE  MarkFailed(job[j], task[s].result = "transient").status # "absent"
  BY <1>1 DEF MarkFailed, JobRow
<1>5. job'[j].status # "absent"
  <2>1. CASE \/ job'[j] = job[j]
             \/ job'[j] = [job[j] EXCEPT !.retry = "now"]
             \/ job'[j] = CreateQueuedJob
             \/ job'[j] = MarkEnqueued(job[j])
    BY <1>3, <2>1
  <2>2. CASE \E s \in Slots : /\ TaskStarts(s) /\ task[s].job = j
                              /\ job'[j] = Started(job[j], task[s].seen)
    BY <1>2, <2>2
  <2>3. ASSUME NEW s \in Slots,
               job'[j] = IF task[s].result = "ok" THEN MarkCompleted(job[j])
                         ELSE MarkFailed(job[j], task[s].result = "transient")
        PROVE  job'[j].status # "absent"
    BY <1>3, <1>4, <2>3
  <2> QED  BY <2>1, <2>2, <2>3, RowSteps
<1> QED  BY <1>5

LEMMA QueueHasRows ==
    ASSUME TypedInv, OnlyRows, [Next]_vars, NEW j \in JobIds, arq'[j] > 0
    PROVE  Exists(j)'
<1> USE DEF TypedInv, TypeOK
<1>1. Exists(j)
  <2>1. CASE arq[j] > 0
    BY <2>1 DEF OnlyRows
  <2>2. CASE \E i \in Instances, k \in JobIds : Enqueue(i, k)
    BY <2>2 DEF OnlyRows, Enqueue
  <2>3. CASE \E s \in Slots, k \in JobIds : TaskLoads(s, k)
    BY <2>3 DEF OnlyRows, TaskLoads
  <2>4. ASSUME NEW s \in Slots, NEW kind \in Faults, TaskEnds(s, kind)
        PROVE  Exists(j)
    <3>1. arq'[j] = arq[j] \/ j = task[s].job
      BY <2>4 DEF TaskEnds
    <3> QED  BY <2>1, <2>4, <3>1 DEF OnlyRows, TaskEnds
  <2> QED  BY <2>1, <2>2, <2>3, <2>4, OthersLeaveQueue
<1> QED  BY <1>1, RowsStay

LEMMA TasksHaveRows ==
    ASSUME TypedInv, OnlyRows, [Next]_vars, NEW s \in Slots, task'[s].pc # "idle"
    PROVE  Exists(task[s].job)'
<1> USE DEF TypedInv, TypeOK
<1>1. CASE task'[s].job = task[s].job /\ task[s].pc # "idle"
  <2>1. task[s].job \in JobIds /\ Exists(task[s].job)
    BY <1>1 DEF OnlyRows, Assigned
  <2>2. job'[task[s].job].status # "absent"
    BY <2>1, RowsStay DEF Exists
  <2> QED  BY <1>1, <2>2 DEF Exists
<1>2. ASSUME NEW r \in Slots, NEW j \in JobIds, TaskLoads(r, j), r = s
      PROVE  Exists(task[s].job)'
  <2>1. task'[s].job = j /\ Exists(j)
    BY <1>2 DEF TaskLoads, NoTask, OnlyRows
  <2>2. job'[j].status # "absent"
    BY <2>1, RowsStay DEF Exists
  <2> QED  BY <2>1, <2>2 DEF Exists
<1>3. ASSUME NEW r \in Slots, Fetching(r)
      PROVE  task'[s].job = task[s].job /\ task[s].pc # "idle"
  <2>1. CASE r # s
    BY <1>3, <2>1 DEF Fetching, TaskStarts, FetchSaves, FetchFails, Report
  <2>2. CASE TaskStarts(s)
    BY <2>2 DEF TaskStarts
  <2>3. CASE FetchSaves(s)
    BY <2>3 DEF FetchSaves
  <2>4. ASSUME NEW error \in Errors, FetchFails(s, error)
        PROVE  task'[s].job = task[s].job /\ task[s].pc # "idle"
    BY <2>4 DEF FetchFails
  <2>5. ~Report(s)
    BY DEF Report, NoTask
  <2> QED  BY <1>3, <2>1, <2>2, <2>3, <2>4, <2>5 DEF Fetching
<1>4. ASSUME NEW r \in Slots, NEW j \in JobIds, TaskLoads(r, j), r # s
      PROVE  task'[s] = task[s]
  BY <1>4 DEF TaskLoads
<1>5. ASSUME NEW r \in Slots, NEW kind \in Faults, TaskEnds(r, kind)
      PROVE  task'[s] = task[s]
  BY <1>5 DEF TaskEnds, NoTask
<1> QED  BY <1>1, <1>2, <1>3, <1>4, <1>5, OthersLeaveTask

\* The run i leaves only rows in the list and the hands of i.
RunHasRows(i) ==
    /\ \A j \in rec[i].items : Exists(j)
    /\ rec[i].pc = "mark" => Exists(rec[i].cur)

LEMMA RunsHaveRows ==
    ASSUME TypedInv, OnlyRows, [Next]_vars, NEW i \in Instances
    PROVE  RunHasRows(i)'
<1> USE DEF TypedInv, TypeOK
<1>1. ASSUME \A j \in rec'[i].items : j \in JobIds /\ Exists(j),
             rec'[i].pc = "mark" => rec'[i].cur \in JobIds /\ Exists(rec'[i].cur)
      PROVE  RunHasRows(i)'
  <2>1. \A j \in JobIds : Exists(j) => job'[j].status # "absent"
    BY RowsStay DEF Exists
  <2> QED  BY <1>1, <2>1 DEF RunHasRows, Exists
<1>2. /\ \A j \in rec[i].items : j \in JobIds /\ Exists(j)
      /\ rec[i].pc = "mark" => rec[i].cur \in JobIds /\ Exists(rec[i].cur)
  BY DEF OnlyRows, Assigned, RecState
<1>3. ASSUME rec'[i] = rec[i]
      PROVE  RunHasRows(i)'
  BY <1>1, <1>2, <1>3
<1>4. ASSUME rec'[i].items \subseteq rec[i].items, rec'[i].pc # "mark"
      PROVE  RunHasRows(i)'
  BY <1>1, <1>2, <1>4
<1>5. CASE Select(i)
  <2>1. PICK batch : rec'[i].items = QueueItems(batch) /\ rec'[i].pc = "commit"
    BY <1>5 DEF Select
  <2>2. \A j \in QueueItems(batch) : j \in JobIds /\ Exists(j)
    BY DEF QueueItems, RetryableJobs, OpenJobs, JobsOf, IsRetryable, Exists
  <2> QED  BY <1>1, <2>1, <2>2
<1>6. CASE Commit(i)
  <2>1. PICK created : /\ \A j \in JobIds : j \in created => job'[j] = CreateQueuedJob
                       /\ rec'[i].items = rec[i].items \cup created
                       /\ rec'[i].pc = "loop"
    BY <1>6 DEF Commit
  <2>2. \A j \in JobIds : Exists(j) => job'[j].status # "absent"
    BY RowsStay DEF Exists
  <2>3. CreateQueuedJob.status = "queued"
    BY DEF CreateQueuedJob, NoJob
  <2>4. rec'[i].items \subseteq JobIds
    BY <1>6, TypedStep DEF RecState
  <2>5. \A j \in rec'[i].items : job'[j].status # "absent"
    BY <1>2, <2>1, <2>2, <2>3, <2>4
  <2> QED  BY <2>1, <2>5 DEF RunHasRows, Exists
<1>7. ASSUME NEW j \in JobIds, Enqueue(i, j)
      PROVE  RunHasRows(i)'
  <2>1. rec'[i].items \subseteq rec[i].items /\ rec'[i].cur = j /\ j \in rec[i].items
    BY <1>7 DEF Enqueue
  <2> QED  BY <1>1, <1>2, <2>1
<1>8. CASE Abort(i) \/ Finish(i) \/ InstanceCrash(i)
  <2>1. rec'[i] = NoRun
    BY <1>8 DEF Abort, Finish, Release, InstanceCrash
  <2> QED  BY <1>4, <2>1 DEF NoRun
<1>9. CASE Acquire(i) \/ Mark(i) \/ MarkFails(i) \/ \E j \in JobIds : EnqueueFails(i, j)
  <2>1. CASE Acquire(i)
    BY <1>4, <2>1 DEF Acquire
  <2>2. CASE Mark(i)
    BY <1>4, <2>2 DEF Mark
  <2>3. CASE MarkFails(i)
    BY <1>4, <2>3 DEF MarkFails
  <2>4. CASE \E j \in JobIds : EnqueueFails(i, j)
    BY <1>4, <2>4 DEF EnqueueFails
  <2> QED  BY <1>9, <2>1, <2>2, <2>3, <2>4
<1>10. ASSUME NEW h \in Instances, h # i,
              \/ Acquire(h)
              \/ Pass(h)
              \/ \E j \in JobIds : EnqueueFails(h, j)
              \/ MarkFails(h)
              \/ InstanceCrash(h)
       PROVE  rec'[i] = rec[i]
  BY <1>10 DEF Acquire, Pass, Select, Abort, Commit, Enqueue, Mark, Finish, Release,
     EnqueueFails, MarkFails, InstanceCrash
<1>11. CASE Pass(i)
  BY <1>5, <1>6, <1>7, <1>8, <1>9, <1>11 DEF Pass
<1>12. LockExpires => rec' = rec
  BY DEF LockExpires
<1> QED  BY <1>3, <1>8, <1>9, <1>10, <1>11, <1>12, OthersLeaveRec

LEMMA OnlyRowsStep == TypedInv /\ OnlyRows /\ [Next]_vars => OnlyRows'
<1> SUFFICES ASSUME TypedInv, OnlyRows, [Next]_vars PROVE OnlyRows'
  OBVIOUS
<1>1. \A j \in JobIds : arq'[j] > 0 => job'[j].status # "absent"
  BY QueueHasRows DEF Exists
<1>2. \A s \in Slots : task'[s].pc # "idle" => job'[task'[s].job].status # "absent"
  BY TasksHaveRows DEF Exists
<1>3. \A i \in Instances : /\ \A j \in rec'[i].items : job'[j].status # "absent"
                           /\ rec'[i].pc = "mark" => job'[rec'[i].cur].status # "absent"
  BY RunsHaveRows DEF RunHasRows, Exists
<1> QED  BY <1>1, <1>2, <1>3 DEF OnlyRows, Exists

\* No task, and no item of a run, is for a row that was never inserted.
LEMMA OnlyRowsAlways == Spec => []OnlyRows
<1>1. Init => OnlyRows
  BY DEF Init, OnlyRows, NoRun, NoTask
<1> QED  BY <1>1, OnlyRowsStep, TypedAlways, PTL DEF Spec

\* Executions are only added, up to the cap.
LEMMA SpentGrows ==
    ASSUME TypedInv, [Next]_vars, NEW j \in JobIds
    PROVE  spent[j] <= spent'[j] /\ spent[j] \in 0 .. MaxAttempts /\ spent'[j] \in 0 .. MaxAttempts
<1> USE DEF TypedInv, TypeOK
<1>1. spent[j] \in 0 .. MaxAttempts /\ spent'[j] \in 0 .. MaxAttempts
  BY TypedStep
<1>2. ASSUME NEW s \in Slots, TaskStarts(s)
      PROVE  spent[j] <= spent'[j]
  BY <1>1, <1>2, MaxAttemptsAssumption DEF TaskStarts, Capped
<1>3. ASSUME NEW s \in Slots, NEW error \in Errors, FetchFails(s, error)
      PROVE  spent[j] <= spent'[j]
  <2>1. spent' = spent \/ spent' = [spent EXCEPT ![task[s].job] = MaxAttempts]
    BY <1>3 DEF FetchFails
  <2> QED  BY <1>1, <2>1, MaxAttemptsAssumption
<1>4. ASSUME NEW s \in Slots,
             \/ FetchSaves(s) \/ Report(s)
             \/ \E k \in JobIds : TaskLoads(s, k)
             \/ \E kind \in Faults : TaskEnds(s, kind)
      PROVE  spent' = spent
  BY <1>4 DEF FetchSaves, Report, TaskLoads, TaskEnds
<1> QED  BY <1>1, <1>2, <1>3, <1>4, OthersLeaveTask DEF Fetching

LEMMA SnapshotsStay == ASSUME [Next]_vars PROVE rows \subseteq rows'
BY DEF Next, Publish, Retire, SweepSaves, RetryDue, LockExpires, Acquire, Pass, Select, Abort,
   Release, Commit, Enqueue, Mark, Finish, EnqueueFails, MarkFails, InstanceCrash, TaskLoads,
   Fetching, TaskStarts, FetchSaves, FetchFails, Report, TaskEnds, vars

\* What a step does to a task.
LEMMA CallSteps ==
    ASSUME TypedInv, [Next]_vars, NEW s \in Slots
    PROVE  \/ task'[s] = task[s]
           \/ task'[s].pc = "idle"
           \/ \E j \in JobIds : /\ TaskLoads(s, j)
                                /\ task'[s] = [NoTask EXCEPT !.pc = "start", !.job = j, !.seen = job[j]]
           \/ TaskStarts(s)
           \/ FetchSaves(s)
           \/ \E error \in Errors : FetchFails(s, error)
<1> USE DEF TypedInv, TypeOK
<1>1. ASSUME NEW r \in Slots, NEW j \in JobIds, TaskLoads(r, j)
      PROVE  \/ task'[s] = task[s]
             \/ /\ TaskLoads(s, j)
                /\ task'[s] = [NoTask EXCEPT !.pc = "start", !.job = j, !.seen = job[j]]
  BY <1>1 DEF TaskLoads
<1>2. ASSUME NEW r \in Slots, NEW kind \in Faults, TaskEnds(r, kind)
      PROVE  task'[s] = task[s] \/ task'[s].pc = "idle"
  BY <1>2 DEF TaskEnds, NoTask
<1>3. ASSUME NEW r \in Slots, Report(r)
      PROVE  task'[s] = task[s] \/ task'[s].pc = "idle"
  BY <1>3 DEF Report, NoTask
<1>4. ASSUME NEW r \in Slots,
             TaskStarts(r) \/ FetchSaves(r) \/ \E error \in Errors : FetchFails(r, error),
             r # s
      PROVE  task'[s] = task[s]
  BY <1>4 DEF TaskStarts, FetchSaves, FetchFails
<1> QED  BY <1>1, <1>2, <1>3, <1>4, OthersLeaveTask DEF Fetching

LEMMA TaskSoFarStep == TypedInv /\ TaskSoFar /\ [Next]_vars => TaskSoFar'
<1> SUFFICES ASSUME TypedInv, TaskSoFar, [Next]_vars, NEW s \in Slots
             PROVE  /\ task'[s].pc \in {"fetch", "report"} => spent'[task'[s].job] > 0
                    /\ task'[s].pc = "report" => task'[s].result # "none"
                    /\ task'[s].pc = "report" /\ task'[s].result = "ok" => task'[s].job \in rows'
                    /\ task'[s].pc = "report" /\ task'[s].result = "permanent" =>
                         spent'[task'[s].job] = MaxAttempts
  BY DEF TaskSoFar
<1> USE DEF TypedInv, TypeOK
<1>1. ASSUME task[s].pc # "idle"
      PROVE  /\ task[s].job \in JobIds
             /\ spent[task[s].job] <= spent'[task[s].job]
             /\ spent[task[s].job] \in Nat /\ spent'[task[s].job] \in 0 .. MaxAttempts
  <2>1. task[s].job \in JobIds
    BY <1>1 DEF Assigned
  <2> QED  BY <2>1, SpentGrows
<1>2. CASE task'[s] = task[s]
  BY <1>1, <1>2, SnapshotsStay, MaxAttemptsAssumption DEF TaskSoFar
<1>3. CASE task'[s].pc \in {"idle", "start"}
  BY <1>3
<1>4. CASE TaskStarts(s)
  <2>1. task'[s].pc = "fetch" /\ task'[s].job = task[s].job
    BY <1>4 DEF TaskStarts
  <2>2. task[s].job \in JobIds
    BY <1>4 DEF Assigned, TaskStarts
  <2>3. spent'[task[s].job] = Capped(spent[task[s].job] + 1)
    BY <1>4, <2>2 DEF TaskStarts
  <2>4. spent'[task[s].job] > 0
    BY <2>2, <2>3, MaxAttemptsAssumption DEF Capped
  <2> QED  BY <2>1, <2>4
<1>5. CASE FetchSaves(s)
  <2>1. /\ task'[s].pc = "report" /\ task'[s].job = task[s].job /\ task'[s].result = "ok"
        /\ task[s].job \in rows' /\ task[s].pc = "fetch"
    BY <1>5 DEF FetchSaves
  <2> QED  BY <1>1, <2>1 DEF TaskSoFar
<1>6. ASSUME NEW error \in Errors, FetchFails(s, error)
      PROVE  /\ task'[s].pc = "report" /\ task'[s].job = task[s].job /\ task[s].pc = "fetch"
             /\ task'[s].result \in {"transient", "permanent"}
             /\ task'[s].result = "permanent" => spent'[task[s].job] = MaxAttempts
  <2> DEFINE result == IF Eligible(PostOf(task[s].job)) THEN Classify(error) ELSE "permanent"
  <2>1. result \in {"transient", "permanent"}
    BY DEF Classify
  <2>2. /\ task' = [task EXCEPT ![s] = [task[s] EXCEPT !.pc = "report", !.result = result]]
        /\ task[s].pc = "fetch"
        /\ result = "permanent" => spent' = [spent EXCEPT ![task[s].job] = MaxAttempts]
    BY <1>6 DEF FetchFails
  <2>3. task[s].job \in JobIds
    BY <2>2 DEF Assigned
  <2> HIDE DEF result
  <2>4. task'[s].pc = "report" /\ task'[s].job = task[s].job /\ task'[s].result = result
    BY <2>2
  <2> QED  BY <2>1, <2>2, <2>3, <2>4
<1>7. CASE \E error \in Errors : FetchFails(s, error)
  BY <1>1, <1>6, <1>7 DEF TaskSoFar
<1>8. ASSUME NEW j \in JobIds,
             task'[s] = [NoTask EXCEPT !.pc = "start", !.job = j, !.seen = job[j]]
      PROVE  task'[s].pc = "start"
  BY <1>8 DEF NoTask
<1> QED  BY <1>2, <1>3, <1>4, <1>5, <1>7, <1>8, CallSteps

LEMMA TaskSoFarAlways == Spec => []TaskSoFar
<1>1. Init => TaskSoFar
  BY DEF Init, TaskSoFar, NoTask
<1> QED  BY <1>1, TaskSoFarStep, TypedAlways, PTL DEF Spec

\* A completed job has its snapshot in post_analytics: no other task of the
\* job, late mark, redelivery or lost process completes a job without one.
THEOREM CompletedHasSnapshotAlways == Spec => []CompletedHasSnapshot
<1>1. Init => CompletedHasSnapshot
  BY DEF Init, CompletedHasSnapshot, NoJob
<1>2. TypedInv /\ TaskSoFar /\ CompletedHasSnapshot /\ [Next]_vars => CompletedHasSnapshot'
  <2> SUFFICES ASSUME TypedInv, TaskSoFar, CompletedHasSnapshot, [Next]_vars,
                      NEW j \in JobIds, job'[j].status = "completed"
               PROVE  j \in rows'
    BY DEF CompletedHasSnapshot
  <2>1. job[j] \in JobRow
    BY DEF TypedInv, TypeOK
  <2>2. CASE job[j].status = "completed"
    BY <2>2, SnapshotsStay DEF CompletedHasSnapshot
  <2>3. CASE job[j].status # "completed"
    <3>1. /\ CreateQueuedJob.status = "queued" /\ MarkEnqueued(job[j]).status = "queued"
          /\ [job[j] EXCEPT !.retry = "now"].status = job[j].status
          /\ \A seen : Started(job[j], seen).status \in {"running", job[j].status}
      BY <2>1 DEF CreateQueuedJob, NoJob, MarkEnqueued, Started, JobRow
    <3>2. ASSUME NEW s \in Slots
          PROVE  MarkFailed(job[j], task[s].result = "transient").status # "completed"
      BY <2>1 DEF MarkFailed, JobRow
    <3>3. ~ \E s \in Slots : job'[j] = Started(job[j], task[s].seen)
      BY <2>3, <3>1
    <3>4. PICK s \in Slots :
            /\ Report(s) /\ task[s].job = j
            /\ job'[j] = IF task[s].result = "ok" THEN MarkCompleted(job[j])
                         ELSE MarkFailed(job[j], task[s].result = "transient")
      BY <2>3, <3>1, <3>3, RowSteps
    <3>5. task[s].pc = "report" /\ task[s].result = "ok"
      BY <3>2, <3>4 DEF Report
    <3> QED  BY <3>4, <3>5, SnapshotsStay DEF TaskSoFar
  <2> QED  BY <2>2, <2>3
<1> QED  BY <1>1, <1>2, TypedAlways, TaskSoFarAlways, PTL DEF Spec

-----------------------------------------------------------------------------
(* Attempts                                                                *)

\* The value a task loads, and the row: never more attempts than executions.
LEMMA AttemptsSpentStep == TypedInv /\ AttemptsSpent /\ [Next]_vars => AttemptsSpent'
<1> SUFFICES ASSUME TypedInv, AttemptsSpent, [Next]_vars PROVE AttemptsSpent'
  OBVIOUS
<1> USE DEF TypedInv, TypeOK
<1>1. ASSUME NEW j \in JobIds PROVE job'[j].attempts <= spent'[j]
  <2>1. /\ job[j] \in JobRow
        /\ job[j].attempts \in Nat /\ job[j].attempts <= spent[j]
        /\ spent[j] <= spent'[j] /\ spent[j] \in Nat /\ spent'[j] \in Nat
    BY SpentGrows, MaxAttemptsAssumption DEF AttemptsSpent, JobRow
  <2>2. /\ CreateQueuedJob.attempts = 0
        /\ MarkEnqueued(job[j]).attempts = job[j].attempts
        /\ MarkCompleted(job[j]).attempts = job[j].attempts
        /\ [job[j] EXCEPT !.retry = "now"].attempts = job[j].attempts
    BY <2>1 DEF CreateQueuedJob, NoJob, MarkEnqueued, MarkCompleted, JobRow
  <2>3. ASSUME NEW s \in Slots
        PROVE  MarkFailed(job[j], task[s].result = "transient").attempts = job[j].attempts
    BY <2>1 DEF MarkFailed, JobRow
  <2>4. ASSUME NEW s \in Slots, TaskStarts(s), task[s].job = j,
               job'[j] = Started(job[j], task[s].seen)
        PROVE  job'[j].attempts <= spent'[j]
    <3>1. job'[j].attempts = Capped(MarkRunning(task[s].seen).attempts)
      BY <2>1, <2>4 DEF Started, JobRow
    <3>2. task[s].seen \in JobRow /\ task[s].seen.attempts \in Nat
      BY DEF TaskState, JobRow
    <3>3. MarkRunning(task[s].seen).attempts = task[s].seen.attempts + 1
      BY <3>2 DEF MarkRunning, JobRow
    <3>4. task[s].seen.attempts <= spent[j]
      BY <2>4 DEF AttemptsSpent, TaskStarts
    <3>5. spent'[j] = Capped(spent[j] + 1)
      BY <2>4 DEF TaskStarts
    <3> QED  BY <2>1, <3>1, <3>2, <3>3, <3>4, <3>5, MaxAttemptsAssumption DEF Capped
  <2>5. ASSUME NEW s \in Slots,
               job'[j] = IF task[s].result = "ok" THEN MarkCompleted(job[j])
                         ELSE MarkFailed(job[j], task[s].result = "transient")
        PROVE  job'[j].attempts = job[j].attempts
    BY <2>2, <2>3, <2>5
  <2>6. \/ job'[j].attempts = job[j].attempts
        \/ job'[j].attempts = 0
        \/ job'[j].attempts <= spent'[j]
    BY <2>2, <2>4, <2>5, RowSteps
  <2> QED  BY <2>1, <2>6
<1>2. ASSUME NEW s \in Slots, task'[s].pc = "start"
      PROVE  task'[s].seen.attempts <= spent'[task'[s].job]
  <2>1. CASE task'[s] = task[s]
    <3>1. task[s].job \in JobIds /\ task[s].seen.attempts \in Nat
      BY <1>2, <2>1 DEF Assigned, TaskState, JobRow
    <3> QED  BY <1>2, <2>1, <3>1, SpentGrows DEF AttemptsSpent
  <2>2. ASSUME NEW j \in JobIds, TaskLoads(s, j),
               task'[s] = [NoTask EXCEPT !.pc = "start", !.job = j, !.seen = job[j]]
        PROVE  task'[s].seen.attempts <= spent'[task'[s].job]
    <3>1. task'[s].seen = job[j] /\ task'[s].job = j /\ spent' = spent
      BY <2>2 DEF NoTask, TaskLoads
    <3> QED  BY <3>1 DEF AttemptsSpent
  <2>3. CASE TaskStarts(s)
    <3>1. task'[s].pc = "fetch"
      BY <2>3 DEF TaskStarts
    <3> QED  BY <1>2, <3>1
  <2>4. CASE FetchSaves(s)
    <3>1. task'[s].pc = "report"
      BY <2>4 DEF FetchSaves
    <3> QED  BY <1>2, <3>1
  <2>5. ASSUME NEW error \in Errors, FetchFails(s, error)
        PROVE  FALSE
    <3>1. task'[s].pc = "report"
      BY <2>5 DEF FetchFails
    <3> QED  BY <1>2, <3>1
  <2> QED  BY <1>2, <2>1, <2>2, <2>3, <2>4, <2>5, CallSteps
<1> QED  BY <1>1, <1>2 DEF AttemptsSpent

LEMMA AttemptsSpentAlways == Spec => []AttemptsSpent
<1>1. Init => AttemptsSpent
  BY DEF Init, AttemptsSpent, NoJob, NoTask
<1> QED  BY <1>1, AttemptsSpentStep, TypedAlways, PTL DEF Spec

\* A job reaches dead_letter only when it was refused for good or has been
\* executed max_attempts times, whichever increments overlapping tasks lose.
THEOREM DeadLetterEarnedAlways == Spec => []DeadLetterEarned
<1>1. Init => DeadLetterEarned
  BY DEF Init, DeadLetterEarned, NoJob
<1>2. TypedInv /\ TaskSoFar /\ AttemptsSpent /\ DeadLetterEarned /\ [Next]_vars
        => DeadLetterEarned'
  <2> SUFFICES ASSUME TypedInv, TaskSoFar, AttemptsSpent, DeadLetterEarned, [Next]_vars,
                      NEW j \in JobIds, job'[j].status = "dead_letter"
               PROVE  spent'[j] = MaxAttempts
    BY DEF DeadLetterEarned
  <2>1. /\ job[j] \in JobRow /\ job[j].attempts \in Nat
        /\ spent[j] <= spent'[j] /\ spent[j] \in Nat
        /\ spent'[j] \in Nat /\ spent'[j] <= MaxAttempts
        /\ MaxAttempts \in Nat
    BY SpentGrows, MaxAttemptsAssumption DEF TypedInv, TypeOK, JobRow
  <2>2. CASE job[j].status = "dead_letter"
    BY <2>1, <2>2 DEF DeadLetterEarned
  <2>3. CASE job[j].status # "dead_letter"
    <3>1. /\ CreateQueuedJob.status = "queued" /\ MarkEnqueued(job[j]).status = "queued"
          /\ MarkCompleted(job[j]).status = "completed"
          /\ [job[j] EXCEPT !.retry = "now"].status = job[j].status
          /\ \A seen : Started(job[j], seen).status \in {"running", job[j].status}
      BY <2>1 DEF CreateQueuedJob, NoJob, MarkEnqueued, MarkCompleted, Started, JobRow
    <3>2. ~ \E s \in Slots : job'[j] = Started(job[j], task[s].seen)
      BY <2>3, <3>1
    <3>3. PICK s \in Slots :
            /\ Report(s) /\ task[s].job = j
            /\ job'[j] = IF task[s].result = "ok" THEN MarkCompleted(job[j])
                         ELSE MarkFailed(job[j], task[s].result = "transient")
      BY <2>3, <3>1, <3>2, RowSteps
    <3>4. /\ task[s].pc = "report" /\ task[s].result \in {"transient", "permanent"}
          /\ job'[j] = MarkFailed(job[j], task[s].result = "transient")
      BY <3>1, <3>3 DEF Report, TaskSoFar, TypedInv, TypeOK, TaskState
    <3>5. CASE task[s].result = "permanent"
      BY <2>1, <3>3, <3>4, <3>5 DEF TaskSoFar
    <3>6. CASE task[s].result = "transient"
      <4>1. ~(job[j].attempts < MaxAttempts)
        <5>1. job[j].attempts < MaxAttempts => job'[j].status = "failed"
          BY <2>1, <3>4, <3>6 DEF MarkFailed, JobRow
        <5> QED  BY <5>1
      <4>2. job[j].attempts <= spent[j]
        BY DEF AttemptsSpent
      <4> QED  BY <2>1, <4>1, <4>2
    <3> QED  BY <3>4, <3>5, <3>6
  <2> QED  BY <2>2, <2>3
<1> QED  BY <1>1, <1>2, TypedAlways, TaskSoFarAlways, AttemptsSpentAlways, PTL DEF Spec

-----------------------------------------------------------------------------
(* Fresh jobs                                                              *)

\* A row that was not executed yet waits in the queue: what a failure, a start
\* or a completion writes comes with an execution.
LEMMA FreshQueuedStep ==
    TypedInv /\ TaskSoFar /\ FreshQueued /\ [Next]_vars => FreshQueued'
<1> SUFFICES ASSUME TypedInv, TaskSoFar, FreshQueued, [Next]_vars,
                    NEW j \in JobIds, job'[j].status # "absent", spent'[j] = 0
             PROVE  job'[j].status = "queued"
  BY DEF FreshQueued, Exists
<1>1. /\ job[j] \in JobRow /\ spent[j] = 0
      /\ Exists(j) => job[j].status = "queued"
  BY SpentGrows, MaxAttemptsAssumption DEF TypedInv, TypeOK, FreshQueued
<1>2. /\ CreateQueuedJob.status = "queued" /\ MarkEnqueued(job[j]).status = "queued"
      /\ [job[j] EXCEPT !.retry = "now"].status = job[j].status
  BY <1>1 DEF CreateQueuedJob, NoJob, MarkEnqueued, JobRow
<1>3. ASSUME NEW s \in Slots, TaskStarts(s), task[s].job = j
      PROVE  FALSE
  <2>1. spent'[j] = Capped(spent[j] + 1)
    BY <1>3 DEF TaskStarts, TypedInv, TypeOK
  <2> QED  BY <1>1, <2>1, MaxAttemptsAssumption DEF Capped
<1>4. ASSUME NEW s \in Slots, Report(s), task[s].job = j
      PROVE  FALSE
  BY <1>1, <1>4 DEF Report, TaskSoFar
<1> QED  BY <1>1, <1>2, <1>3, <1>4, RowSteps DEF Exists

LEMMA FreshQueuedAlways == Spec => []FreshQueued
<1>1. Init => FreshQueued
  BY DEF Init, FreshQueued, Exists, NoJob
<1> QED  BY <1>1, FreshQueuedStep, TypedAlways, TaskSoFarAlways, PTL DEF Spec

\* What there is to know of a step to count the tokens of p after it.
Keeps(p) == Tokens(p)' \subseteq Tokens(p)

Trades(p) == \E x \in Tokens(p) : \E y : Tokens(p)' \subseteq (Tokens(p) \ {x}) \cup {y}

Mints(p) == faults' = faults + 1 /\ \E y : Tokens(p)' \subseteq Tokens(p) \cup {y}

LEMMA TokensIn ==
    ASSUME NEW p, NEW T,
           \A j \in Fresh(p)' : <<"job", j>> \in T,
           \A i \in Runs(p)' : <<"run", i>> \in T,
           Chance(p)' => <<"chance", p>> \in T
    PROVE  Tokens(p)' \subseteq T
BY DEF Tokens

LEMMA TokenKinds ==
    ASSUME NEW p
    PROVE  /\ \A j \in Fresh(p) : <<"job", j>> \in Tokens(p)
           /\ \A i \in Runs(p) : <<"run", i>> \in Tokens(p)
           /\ Chance(p) => <<"chance", p>> \in Tokens(p)
BY DEF Tokens

LEMMA KeepIntro ==
    ASSUME NEW p,
           Fresh(p)' \subseteq Fresh(p), Runs(p)' \subseteq Runs(p), Chance(p)' => Chance(p)
    PROVE  Keeps(p)
BY TokensIn, TokenKinds DEF Keeps

LEMMA FreshFrame ==
    ASSUME NEW p, UNCHANGED <<job, spent>>
    PROVE  Fresh(p)' = Fresh(p)
BY DEF Fresh, JobsOf

\* A selection that misses an open job of p has not overlooked a fresh one.
LEMMA MissedNone ==
    ASSUME TypedInv, FreshQueued, NEW batch, NEW p \in MissingJob(batch)
    PROVE  Fresh(p) = {}
<1> SUFFICES ASSUME NEW j \in Fresh(p) PROVE FALSE
  OBVIOUS
<1>1. job[j].status = "queued" /\ j \in JobsOf(p)
  BY DEF Fresh, JobsOf, FreshQueued, Exists
<1> QED  BY <1>1 DEF MissingJob, OpenJobs, IsOpen

\* A run that does not select nor insert, before or after, is no token.
LEMMA LoopKeeps ==
    ASSUME NEW p, NEW i \in Instances,
           Fresh(p)' = Fresh(p), lock' = lock,
           \A h \in Instances \ {i} : rec'[h] = rec[h],
           rec[i].pc \in {"loop", "mark"}, rec'[i].pc \in {"loop", "mark"}
    PROVE  Keeps(p)
<1>1. Runs(p)' \subseteq Runs(p)
  BY DEF Runs, Inserting, Overtaken
<1>2. Chance(p)' => Chance(p)
  BY DEF Chance, Inserting
<1> QED  BY <1>1, <1>2, KeepIntro

LEMMA AcquireKeeps ==
    ASSUME TypedInv, NEW p, NEW i \in Instances, Acquire(i)
    PROVE  Keeps(p)
<1>1. /\ lock = None /\ lock' = i /\ rec'[i].pc = "select"
      /\ \A h \in Instances \ {i} : rec'[h] = rec[h]
      /\ None \notin Instances
  BY AnalyticsAssumption DEF Acquire, LockIsFree, TypedInv, TypeOK
<1>2. Runs(p)' \subseteq Runs(p)
  BY <1>1 DEF Runs, Inserting, Overtaken
<1>3. Fresh(p)' = Fresh(p)
  BY FreshFrame DEF Acquire
<1>4. Chance(p)' => Chance(p)
  BY <1>1, <1>3 DEF Chance
<1> QED  BY <1>2, <1>3, <1>4, KeepIntro

\* The holder of the lock trades the chance for its insertion; a run that was
\* overtaken has paid already.
LEMMA SelectTrades ==
    ASSUME TypedInv, FreshQueued, NEW p \in Posts, NEW i \in Instances, Select(i)
    PROVE  Keeps(p) \/ Trades(p)
<1>1. PICK batch :
      /\ rec[i].pc = "select" /\ rec'[i].pc = "commit" /\ rec'[i].new = MissingJob(batch)
      /\ \A h \in Instances \ {i} : rec'[h] = rec[h]
      /\ lock' = lock
  BY DEF Select, TypedInv, TypeOK
<1>2. Fresh(p)' = Fresh(p)
  BY FreshFrame DEF Select
<1>3. CASE lock # i
  <2>1. Runs(p)' \subseteq Runs(p)
    BY <1>1, <1>3 DEF Runs, Inserting, Overtaken
  <2>2. Chance(p)' => Chance(p)
    BY <1>1, <1>2, <1>3 DEF Chance, Inserting
  <2> QED  BY <1>2, <2>1, <2>2, KeepIntro
<1>4. CASE lock = i /\ p \notin MissingJob(batch)
  <2>1. Runs(p)' \subseteq Runs(p)
    BY <1>1, <1>4 DEF Runs, Inserting, Overtaken
  <2>2. Chance(p)' => Chance(p)
    BY <1>1, <1>2, <1>4 DEF Chance, Inserting
  <2> QED  BY <1>2, <2>1, <2>2, KeepIntro
<1>5. CASE lock = i /\ p \in MissingJob(batch)
  <2> DEFINE x == <<"chance", p>>
             y == <<"run", i>>
             T == (Tokens(p) \ {x}) \cup {y}
  <2>1. Fresh(p) = {} /\ Chance(p)
    BY <1>1, <1>5, MissedNone DEF Chance, Inserting
  <2>2. x \in Tokens(p)
    BY <2>1, TokenKinds
  <2>3. \A j \in Fresh(p)' : <<"job", j>> \in T
    BY <1>2, <2>1
  <2>4. \A h \in Runs(p)' : h = i \/ h \in Runs(p)
    BY <1>1 DEF Runs, Inserting, Overtaken
  <2>5. \A h \in Runs(p)' : <<"run", h>> \in T
    BY <2>4, TokenKinds
  <2>6. ~Chance(p)'
    BY <1>1, <1>5 DEF Chance, Inserting
  <2>7. Tokens(p)' \subseteq T
    <3> HIDE DEF T
    <3> QED  BY <2>3, <2>5, <2>6, TokensIn
  <2> QED  BY <2>2, <2>7 DEF Trades
<1> QED  BY <1>3, <1>4, <1>5

LEMMA ReleaseKeeps ==
    ASSUME TypedInv, NEW p, NEW i \in Instances, Abort(i) \/ Finish(i)
    PROVE  Keeps(p)
<1>1. /\ rec[i].pc # "commit" /\ rec'[i].pc = "idle"
      /\ \A h \in Instances \ {i} : rec'[h] = rec[h]
      /\ lock' = IF lock = i THEN None ELSE lock
      /\ UNCHANGED <<job, spent>>
  BY DEF Abort, Finish, Release, NoRun, TypedInv, TypeOK
<1>2. Runs(p)' \subseteq Runs(p)
  BY <1>1 DEF Runs, Inserting, Overtaken
<1>3. Fresh(p)' = Fresh(p)
  BY <1>1, FreshFrame
<1>4. Chance(p)' => Chance(p)
  BY <1>1, <1>3 DEF Chance, Inserting
<1> QED  BY <1>2, <1>3, <1>4, KeepIntro

\* A run that inserts a job, or finds no id for one, ceases to be a token.
LEMMA CommitTrades ==
    ASSUME TypedInv, NEW p \in Posts, NEW i \in Instances, Commit(i)
    PROVE  Keeps(p) \/ Trades(p)
<1> DEFINE created == {FirstUnused(q) : q \in {q \in rec[i].new : UnusedIds(q) # {}}}
           inserted == {j \in created : PostOf(j) = p}
           rest == Tokens(p) \ {<<"run", i>>}
<1>1. /\ rec[i].pc = "commit" /\ rec'[i].pc = "loop"
      /\ \A h \in Instances \ {i} : rec'[h] = rec[h]
      /\ lock' = lock /\ spent' = spent
      /\ \A j \in JobIds : job'[j] = IF j \in created THEN CreateQueuedJob ELSE job[j]
  BY DEF Commit, TypedInv, TypeOK
<1>2. rec[i].new \subseteq Posts
  BY DEF TypedInv, TypeOK, RecState
<1>3. \A q \in rec[i].new : UnusedIds(q) # {} => PostOf(FirstUnused(q)) = q
  BY <1>2, FirstUnusedIn DEF UnusedIds
<1>4. Runs(p)' \subseteq Runs(p) \ {i}
  BY <1>1 DEF Runs, Inserting, Overtaken
<1>5. \A h \in Runs(p)' : <<"run", h>> \in rest
  BY <1>4, TokenKinds
<1>6. \A j \in Fresh(p) : <<"job", j>> \in rest
  BY TokenKinds
<1>7. Chance(p)' => \/ i = lock
                    \/ Fresh(p)' = Fresh(p) => Chance(p)
  BY <1>1 DEF Chance, Inserting
<1>8. CASE inserted = {}
  <2>1. Fresh(p)' = Fresh(p)
    <3> HIDE DEF created
    <3>1. \A j \in JobIds : PostOf(j) = p => job'[j] = job[j]
      BY <1>1, <1>8
    <3> QED  BY <1>1, <3>1 DEF Fresh, JobsOf
  <2>2. CASE i \in Runs(p)
    <3> DEFINE y == <<"chance", p>>
    <3>1. Tokens(p)' \subseteq rest \cup {y}
      <4>1. \A j \in Fresh(p)' : <<"job", j>> \in rest \cup {y}
        BY <1>6, <2>1
      <4>2. \A h \in Runs(p)' : <<"run", h>> \in rest \cup {y}
        BY <1>5
      <4> HIDE DEF rest
      <4> QED  BY <4>1, <4>2, TokensIn
    <3> QED  BY <2>2, <3>1, TokenKinds DEF Trades
  <2>3. CASE i \notin Runs(p)
    <3>1. Chance(p)' => Chance(p)
      BY <1>1, <2>1, <2>3 DEF Chance, Inserting, Runs
    <3> QED  BY <1>4, <2>1, <3>1, KeepIntro
  <2> QED  BY <2>2, <2>3
<1>9. CASE inserted # {}
  <2>1. /\ p \in rec[i].new /\ UnusedIds(p) # {}
        /\ inserted = {FirstUnused(p)}
        /\ FirstUnused(p) \in JobIds
    BY <1>3, <1>9, FirstUnusedIn DEF UnusedIds
  <2>2. i \in Runs(p)
    BY <1>1, <2>1 DEF Runs, Inserting
  <2>3. \A j \in Fresh(p)' : j \in Fresh(p) \/ j = FirstUnused(p)
    <3> HIDE DEF created
    <3>1. \A j \in JobIds : PostOf(j) = p /\ j # FirstUnused(p) => job'[j] = job[j]
      BY <1>1, <2>1
    <3> QED  BY <1>1, <3>1 DEF Fresh, JobsOf
  <2>4. CASE FirstUnused(p) \in Fresh(p)'
    <3> DEFINE y == <<"job", FirstUnused(p)>>
    <3>1. Tokens(p)' \subseteq rest \cup {y}
      <4>1. \A j \in Fresh(p)' : <<"job", j>> \in rest \cup {y}
        BY <1>6, <2>3
      <4>2. \A h \in Runs(p)' : <<"run", h>> \in rest \cup {y}
        BY <1>5
      <4>3. ~Chance(p)'
        BY <2>4 DEF Chance
      <4> HIDE DEF rest, y
      <4> QED  BY <4>1, <4>2, <4>3, TokensIn
    <3> QED  BY <2>2, <3>1, TokenKinds DEF Trades
  <2>5. CASE FirstUnused(p) \notin Fresh(p)'
    <3> DEFINE y == <<"chance", p>>
    <3>1. Tokens(p)' \subseteq rest \cup {y}
      <4>1. \A j \in Fresh(p)' : <<"job", j>> \in rest \cup {y}
        BY <1>6, <2>3, <2>5
      <4>2. \A h \in Runs(p)' : <<"run", h>> \in rest \cup {y}
        BY <1>5
      <4> HIDE DEF rest
      <4> QED  BY <4>1, <4>2, TokensIn
    <3> QED  BY <2>2, <3>1, TokenKinds DEF Trades
  <2> QED  BY <2>4, <2>5
<1> QED  BY <1>8, <1>9

LEMMA LostLockMints ==
    ASSUME TypedInv, NEW p \in Posts, LockExpires
    PROVE  Keeps(p) \/ Mints(p)
<1>1. /\ lock \in Instances /\ lock' = None /\ None \notin Instances
      /\ UNCHANGED <<job, rec, spent>>
  BY AnalyticsAssumption DEF LockExpires, TypedInv, TypeOK
<1>2. Fresh(p)' = Fresh(p)
  BY <1>1, FreshFrame
<1>3. CASE rec[lock].pc = "idle"
  <2>1. Runs(p)' \subseteq Runs(p) /\ (Chance(p)' => Chance(p))
    BY <1>1, <1>2, <1>3 DEF Runs, Chance, Inserting, Overtaken
  <2> QED  BY <1>2, <2>1, KeepIntro
<1>4. CASE rec[lock].pc # "idle"
  <2>1. faults' = faults + 1
    BY <1>4, SpendTyped DEF LockExpires, TypedInv
  <2>2. CASE Inserting(lock, p)
    <3> DEFINE T == Tokens(p) \cup {<<"chance", p>>}
    <3>1. Runs(p)' \subseteq Runs(p)
      BY <1>1, <2>2 DEF Runs, Inserting, Overtaken
    <3>2. /\ \A j \in Fresh(p)' : <<"job", j>> \in T
          /\ \A h \in Runs(p)' : <<"run", h>> \in T
      BY <1>2, <3>1, TokenKinds
    <3>3. Tokens(p)' \subseteq T
      BY <3>2, TokensIn
    <3> QED  BY <2>1, <3>3 DEF Mints
  <2>3. CASE ~Inserting(lock, p)
    <3> DEFINE y == <<"run", lock>>
               T == Tokens(p) \cup {y}
    <3>1. \A h \in Runs(p)' : h \in Runs(p) \/ h = lock
      BY <1>1 DEF Runs, Inserting, Overtaken
    <3>2. Chance(p)' => Chance(p)
      BY <1>1, <1>2, <2>3 DEF Chance
    <3>3. /\ \A j \in Fresh(p)' : <<"job", j>> \in T
          /\ \A h \in Runs(p)' : <<"run", h>> \in T
          /\ Chance(p)' => <<"chance", p>> \in T
      BY <1>2, <3>1, <3>2, TokenKinds
    <3>4. Tokens(p)' \subseteq T
      <4> HIDE DEF T
      <4> QED  BY <3>3, TokensIn
    <3> QED  BY <2>1, <3>4 DEF Mints
  <2> QED  BY <2>2, <2>3
<1> QED  BY <1>3, <1>4

LEMMA CrashMints ==
    ASSUME TypedInv, NEW p \in Posts, NEW i \in Instances, InstanceCrash(i)
    PROVE  Mints(p)
<1> DEFINE T == Tokens(p) \cup {<<"chance", p>>}
<1>1. /\ rec'[i].pc = "idle" /\ \A h \in Instances \ {i} : rec'[h] = rec[h]
      /\ UNCHANGED <<job, lock, spent>>
  BY DEF InstanceCrash, NoRun, TypedInv, TypeOK
<1>2. Runs(p)' \subseteq Runs(p) /\ Fresh(p)' = Fresh(p)
  BY <1>1, FreshFrame DEF Runs, Inserting, Overtaken
<1>3. /\ \A j \in Fresh(p)' : <<"job", j>> \in T
      /\ \A h \in Runs(p)' : <<"run", h>> \in T
  BY <1>2, TokenKinds
<1>4. Tokens(p)' \subseteq T
  BY <1>3, TokensIn
<1>5. faults' = faults + 1
  BY SpendTyped DEF InstanceCrash, TypedInv
<1> QED  BY <1>4, <1>5 DEF Mints

\* A task that executes a fresh job trades it for a chance: the job may fail,
\* and a failed job does not keep a pass from opening another one.
LEMMA StartTrades ==
    ASSUME TypedInv, OnlyRows, NEW p \in Posts, NEW s \in Slots, TaskStarts(s)
    PROVE  Keeps(p) \/ Trades(p)
<1> DEFINE j == task[s].job
<1>1. /\ UNCHANGED <<rec, lock>> /\ j \in JobIds /\ Exists(j)
      /\ job[j] \in JobRow /\ spent[j] \in Nat
      /\ job' = [job EXCEPT ![j] = Started(job[j], task[s].seen)]
      /\ spent' = [spent EXCEPT ![j] = Capped(spent[j] + 1)]
  BY MaxAttemptsAssumption DEF TaskStarts, TypedInv, TypeOK, Assigned, OnlyRows
<1>2. Capped(spent[j] + 1) # 0
  BY <1>1, MaxAttemptsAssumption DEF Capped
<1>3. \A k \in JobIds : k # j => job'[k] = job[k] /\ spent'[k] = spent[k]
  BY <1>1 DEF TypedInv, TypeOK
<1>4. spent'[j] # 0
  BY <1>1, <1>2 DEF TypedInv, TypeOK
<1>5. \A k : k \in Fresh(p)' <=> k \in Fresh(p) /\ k # j
  BY <1>3, <1>4 DEF Fresh, JobsOf
<1>6. Runs(p)' = Runs(p)
  BY <1>1 DEF Runs, Inserting, Overtaken
<1>7. CASE j \in Fresh(p)
  <2> DEFINE x == <<"job", j>>
             T == (Tokens(p) \ {x}) \cup {<<"chance", p>>}
  <2>1. \A k \in Fresh(p)' : <<"job", k>> \in T
    BY <1>5, TokenKinds
  <2>2. \A h \in Runs(p)' : <<"run", h>> \in T
    BY <1>6, TokenKinds
  <2>3. Tokens(p)' \subseteq T
    <3>1. Chance(p)' => <<"chance", p>> \in T
      OBVIOUS
    <3> HIDE DEF T
    <3> QED  BY <2>1, <2>2, <3>1, TokensIn
  <2> QED  BY <1>7, <2>3, TokenKinds DEF Trades
<1>8. CASE j \notin Fresh(p)
  <2>1. Fresh(p)' = Fresh(p)
    BY <1>5, <1>8
  <2>2. Chance(p)' => Chance(p)
    BY <1>1, <2>1 DEF Chance, Inserting
  <2> QED  BY <1>6, <2>1, <2>2, KeepIntro
<1> QED  BY <1>7, <1>8

\* Retries, reports and marks touch rows that stay what they are for the count.
LEMMA RowsKeep ==
    ASSUME TypedInv, OnlyRows, TaskSoFar, NEW p \in Posts,
           \/ \E j \in JobIds : RetryDue(j)
           \/ \E i \in Instances : Mark(i)
           \/ \E s \in Slots : Report(s) \/ \E error \in Errors : FetchFails(s, error)
    PROVE  Fresh(p)' = Fresh(p)
<1> USE DEF TypedInv, TypeOK
<1>1. ASSUME spent' = spent, NEW j \in JobIds, NEW row \in JobRow,
             row.status # "absent" <=> Exists(j),
             job' = [job EXCEPT ![j] = row]
      PROVE  Fresh(p)' = Fresh(p)
  BY <1>1 DEF Fresh, JobsOf, Exists
<1>2. ASSUME NEW j \in JobIds, RetryDue(j)
      PROVE  Fresh(p)' = Fresh(p)
  <2>1. [job[j] EXCEPT !.retry = "now"] \in JobRow
    BY TransitionsTyped
  <2>2. [job[j] EXCEPT !.retry = "now"].status = job[j].status
    BY DEF JobRow
  <2> QED  BY <1>1, <1>2, <2>1, <2>2 DEF RetryDue, Exists
<1>3. ASSUME NEW i \in Instances, Mark(i)
      PROVE  Fresh(p)' = Fresh(p)
  <2>1. rec[i].cur \in JobIds /\ Exists(rec[i].cur)
    BY <1>3 DEF Mark, Assigned, OnlyRows
  <2>2. MarkEnqueued(job[rec[i].cur]) \in JobRow
    BY <2>1, TransitionsTyped
  <2>3. MarkEnqueued(job[rec[i].cur]).status # "absent"
    BY <2>1 DEF MarkEnqueued, JobRow
  <2> QED  BY <1>1, <1>3, <2>1, <2>2, <2>3 DEF Mark
<1>4. ASSUME NEW s \in Slots, Report(s)
      PROVE  Fresh(p)' = Fresh(p)
  <2> DEFINE j == task[s].job
             row == IF task[s].result = "ok" THEN MarkCompleted(job[j])
                    ELSE MarkFailed(job[j], task[s].result = "transient")
  <2>1. j \in JobIds /\ Exists(j) /\ job[j] \in JobRow
    BY <1>4 DEF Report, Assigned, OnlyRows
  <2>2. row \in JobRow
    BY <2>1, TransitionsTyped
  <2>3. row.status # "absent"
    BY <2>1 DEF MarkCompleted, MarkFailed, JobRow
  <2>4. job' = [job EXCEPT ![j] = row] /\ spent' = spent
    BY <1>4 DEF Report
  <2> HIDE DEF row
  <2> QED  BY <1>1, <2>1, <2>2, <2>3, <2>4
<1>5. ASSUME NEW s \in Slots, NEW error \in Errors, FetchFails(s, error)
      PROVE  Fresh(p)' = Fresh(p)
  <2>1. /\ spent' = spent \/ spent' = [spent EXCEPT ![task[s].job] = MaxAttempts]
        /\ job' = job /\ task[s].pc = "fetch"
    BY <1>5 DEF FetchFails
  <2>2. spent[task[s].job] > 0 /\ MaxAttempts # 0
    BY <2>1, MaxAttemptsAssumption DEF TaskSoFar
  <2>3. \A j \in JobIds : spent'[j] = 0 <=> spent[j] = 0
    BY <2>1, <2>2
  <2> QED  BY <2>1, <2>3 DEF Fresh, JobsOf
<1> QED  BY <1>2, <1>3, <1>4, <1>5

\* A step that leaves the runs and the lock alone, and the fresh rows too.
LEMMA StillKeeps ==
    ASSUME NEW p, UNCHANGED <<rec, lock>>, Fresh(p)' = Fresh(p)
    PROVE  Keeps(p)
<1>1. Runs(p)' = Runs(p) /\ (Chance(p)' => Chance(p))
  BY DEF Runs, Chance, Inserting, Overtaken
<1> QED  BY <1>1, KeepIntro

\* Every step keeps the tokens of p, trades one for another, or is a fault that
\* adds one.
LEMMA TokenStep ==
    ASSUME TypedInv, OnlyRows, TaskSoFar, FreshQueued, [Next]_vars, NEW p \in Posts
    PROVE  Keeps(p) \/ Trades(p) \/ Mints(p)
<1> DEFINE Goal == Keeps(p) \/ Trades(p) \/ Mints(p)
<1> SUFFICES Goal
  OBVIOUS
<1>1. ASSUME NEW q \in AllPosts,
             Publish(q) \/ Retire(q, "old") \/ Retire(q, "deleted") \/ SweepSaves(q)
      PROVE  Goal
  BY <1>1, FreshFrame, StillKeeps DEF Publish, Retire, SweepSaves
<1>2. ASSUME NEW j \in JobIds, RetryDue(j)
      PROVE  Goal
  BY <1>2, RowsKeep, StillKeeps DEF RetryDue
<1>3. CASE LockExpires
  BY <1>3, LostLockMints
<1>4. ASSUME NEW i \in Instances, Acquire(i)
      PROVE  Goal
  BY <1>4, AcquireKeeps
<1>5. ASSUME NEW i \in Instances, Pass(i)
      PROVE  Goal
  <2>1. CASE Mark(i)
    <3>1. /\ rec[i].pc = "mark" /\ rec'[i].pc = "loop" /\ lock' = lock
          /\ \A h \in Instances \ {i} : rec'[h] = rec[h]
      BY <2>1 DEF Mark, TypedInv, TypeOK
    <3>2. Fresh(p)' = Fresh(p)
      BY <2>1, RowsKeep
    <3> QED  BY <3>1, <3>2, LoopKeeps
  <2>2. ASSUME NEW j \in JobIds, Enqueue(i, j)
        PROVE  Goal
    <3>1. /\ rec[i].pc = "loop" /\ rec'[i].pc = "mark" /\ lock' = lock
          /\ \A h \in Instances \ {i} : rec'[h] = rec[h]
          /\ UNCHANGED <<job, spent>>
      BY <2>2 DEF Enqueue, TypedInv, TypeOK
    <3> QED  BY <3>1, FreshFrame, LoopKeeps
  <2> QED  BY <1>5, <2>1, <2>2, SelectTrades, ReleaseKeeps, CommitTrades DEF Pass
<1>6. ASSUME NEW i \in Instances, NEW j \in JobIds, EnqueueFails(i, j)
      PROVE  Goal
  <2>1. /\ rec[i].pc = "loop" /\ rec'[i].pc = "loop" /\ lock' = lock
        /\ \A h \in Instances \ {i} : rec'[h] = rec[h]
        /\ UNCHANGED <<job, spent>>
    BY <1>6 DEF EnqueueFails, TypedInv, TypeOK, RecState
  <2> QED  BY <2>1, FreshFrame, LoopKeeps
<1>7. ASSUME NEW i \in Instances, MarkFails(i)
      PROVE  Goal
  <2>1. /\ rec[i].pc = "mark" /\ rec'[i].pc = "loop" /\ lock' = lock
        /\ \A h \in Instances \ {i} : rec'[h] = rec[h]
        /\ UNCHANGED <<job, spent>>
    BY <1>7 DEF MarkFails, TypedInv, TypeOK
  <2> QED  BY <2>1, FreshFrame, LoopKeeps
<1>8. ASSUME NEW i \in Instances, InstanceCrash(i)
      PROVE  Goal
  BY <1>8, CrashMints
<1>9. ASSUME NEW s \in Slots, \/ \E j \in JobIds : TaskLoads(s, j)
                              \/ FetchSaves(s)
                              \/ \E kind \in Faults : TaskEnds(s, kind)
      PROVE  Goal
  BY <1>9, FreshFrame, StillKeeps DEF TaskLoads, FetchSaves, TaskEnds
<1>10. ASSUME NEW s \in Slots, TaskStarts(s)
       PROVE  Goal
  BY <1>10, StartTrades
<1>11. ASSUME NEW s \in Slots, Report(s) \/ \E error \in Errors : FetchFails(s, error)
       PROVE  Goal
  <2>1. UNCHANGED <<rec, lock>>
    BY <1>11 DEF Report, FetchFails
  <2> QED  BY <1>11, <2>1, RowsKeep, StillKeeps
<1>12. CASE UNCHANGED vars
  BY <1>12, FreshFrame, StillKeeps DEF vars
<1> HIDE DEF Goal
<1> QED
  BY <1>1, <1>2, <1>3, <1>4, <1>5, <1>6, <1>7, <1>8, <1>9, <1>10, <1>11, <1>12
  DEF Next, Fetching, AllPosts

LEMMA OneMore ==
    ASSUME NEW S, IsFiniteSet(S), NEW x
    PROVE  IsFiniteSet(S \cup {x}) /\ Cardinality(S \cup {x}) <= Cardinality(S) + 1
<1>1. Cardinality(S) \in Nat
  BY FS_CardinalityType
<1>2. /\ IsFiniteSet(S \cup {x})
      /\ \/ Cardinality(S \cup {x}) = Cardinality(S)
         \/ Cardinality(S \cup {x}) = Cardinality(S) + 1
  BY FS_AddElement
<1> QED  BY <1>1, <1>2

\* A set that lies in S but for one element that took the place of another.
LEMMA OneForAnother ==
    ASSUME NEW S, IsFiniteSet(S), NEW x \in S, NEW y, NEW T, T \subseteq (S \ {x}) \cup {y}
    PROVE  IsFiniteSet(T) /\ Cardinality(T) <= Cardinality(S)
<1>1. PICK rest : rest = S \ {x}
  OBVIOUS
<1>2. IsFiniteSet(rest) /\ Cardinality(rest) = Cardinality(S) - 1
  BY <1>1, FS_RemoveElement
<1>3. IsFiniteSet(rest \cup {y}) /\ Cardinality(rest \cup {y}) <= Cardinality(rest) + 1
  BY <1>2, OneMore
<1>4. IsFiniteSet(T) /\ Cardinality(T) <= Cardinality(rest \cup {y})
  BY <1>1, <1>3, FS_Subset
<1> QED  BY <1>2, <1>3, <1>4, FS_CardinalityType

LEMMA AtMostOneMore ==
    ASSUME NEW S, IsFiniteSet(S), NEW y, NEW T, T \subseteq S \cup {y}
    PROVE  IsFiniteSet(T) /\ Cardinality(T) <= Cardinality(S) + 1
<1>1. IsFiniteSet(S \cup {y}) /\ Cardinality(S \cup {y}) <= Cardinality(S) + 1
  BY OneMore
<1>2. IsFiniteSet(T) /\ Cardinality(T) <= Cardinality(S \cup {y})
  BY <1>1, FS_Subset
<1> QED  BY <1>1, <1>2, FS_CardinalityType

LEMMA FaultsGrow ==
    ASSUME TypedInv, [Next]_vars
    PROVE  faults' \in Nat /\ faults \in Nat /\ faults <= faults'
<1>1. faults' \in Nat /\ faults \in Nat
  BY TypedStep, AnalyticsAssumption DEF TypedInv, TypeOK
<1>2. faults' = faults \/ faults' = faults + 1
  BY DEF Next, Spend, Publish, Retire, SweepSaves, RetryDue, LockExpires, Acquire, Pass, Select,
     Abort, Release, Commit, Enqueue, Mark, Finish, EnqueueFails, MarkFails, InstanceCrash,
     TaskLoads, Fetching, TaskStarts, FetchSaves, FetchFails, Report, TaskEnds, vars
<1> QED  BY <1>1, <1>2

LEMMA CountedStep ==
    TypedInv /\ OnlyRows /\ TaskSoFar /\ FreshQueued /\ CountedTokens /\ [Next]_vars
      => CountedTokens'
<1> SUFFICES ASSUME TypedInv, OnlyRows, TaskSoFar, FreshQueued, CountedTokens, [Next]_vars,
                    NEW p \in Posts
             PROVE  IsFiniteSet(Tokens(p)') /\ Cardinality(Tokens(p)') <= 1 + faults'
  BY DEF CountedTokens
<1>1. PICK S : S = Tokens(p)
  OBVIOUS
<1>2. PICK T : T = Tokens(p)'
  OBVIOUS
<1>3. /\ IsFiniteSet(S) /\ Cardinality(S) <= 1 + faults /\ Cardinality(S) \in Nat
      /\ faults \in Nat /\ faults' \in Nat /\ faults <= faults'
  BY <1>1, FaultsGrow, FS_CardinalityType DEF CountedTokens
<1>4. CASE Keeps(p) \/ Trades(p)
  <2>1. T \subseteq S \/ \E x \in S : \E y : T \subseteq (S \ {x}) \cup {y}
    BY <1>1, <1>2, <1>4 DEF Keeps, Trades
  <2>2. IsFiniteSet(T) /\ Cardinality(T) <= Cardinality(S)
    BY <1>3, <2>1, FS_Subset, OneForAnother
  <2> QED  BY <1>2, <1>3, <2>2, FS_CardinalityType
<1>5. CASE Mints(p)
  <2>1. faults' = faults + 1 /\ \E y : T \subseteq S \cup {y}
    BY <1>1, <1>2, <1>5 DEF Mints
  <2>2. IsFiniteSet(T) /\ Cardinality(T) <= Cardinality(S) + 1
    BY <1>3, <2>1, AtMostOneMore
  <2> QED  BY <1>2, <1>3, <2>1, <2>2, FS_CardinalityType
<1> QED  BY <1>4, <1>5, TokenStep

LEMMA CountedAlways == Spec => []CountedTokens
<1>1. Init => CountedTokens
  <2> SUFFICES ASSUME Init, NEW p \in Posts
               PROVE  IsFiniteSet(Tokens(p)) /\ Cardinality(Tokens(p)) <= 1 + faults
    BY DEF CountedTokens
  <2>1. Fresh(p) = {} /\ Runs(p) = {} /\ faults = 0
    BY DEF Init, Fresh, JobsOf, NoJob, Runs, Inserting, Overtaken, NoRun
  <2>2. Tokens(p) \subseteq {<<"chance", p>>}
    BY <2>1 DEF Tokens
  <2>3. /\ IsFiniteSet({<<"chance", p>>}) /\ Cardinality({<<"chance", p>>}) = 1
    BY FS_Singleton
  <2>4. IsFiniteSet(Tokens(p)) /\ Cardinality(Tokens(p)) <= 1
    BY <2>2, <2>3, FS_Subset
  <2> QED  BY <2>1, <2>4
<1> QED
  BY <1>1, CountedStep, TypedAlways, OnlyRowsAlways, TaskSoFarAlways, FreshQueuedAlways, PTL
  DEF Spec

\* A pass opens no job beside a fresh one of the same post: every further
\* fresh job was paid for by a fault that let two selections overlap.
THEOREM FreshJobsPaidForAlways == Spec => []FreshJobsPaidFor
<1>1. TypedInv /\ CountedTokens => FreshJobsPaidFor
  <2> SUFFICES ASSUME TypedInv, CountedTokens, NEW p \in Posts
               PROVE  Cardinality(Fresh(p)) <= 1 + faults
    BY DEF FreshJobsPaidFor, Fresh
  <2>1. IsFiniteSet(Tokens(p)) /\ Cardinality(Tokens(p)) <= 1 + faults
    BY DEF CountedTokens
  <2>2. {"job"} \X Fresh(p) \subseteq Tokens(p)
    BY DEF Tokens
  <2>3. IsFiniteSet(Fresh(p)) /\ Cardinality(Fresh(p)) <= Cardinality(Tokens(p))
    <3> DEFINE f == [j \in Fresh(p) |-> <<"job", j>>]
    <3>1. f \in Injection(Fresh(p), Tokens(p))
      BY <2>2 DEF Injection, IsInjective
    <3> QED  BY <2>1, <3>1, FS_Injection
  <2>4. /\ Cardinality(Fresh(p)) \in Nat /\ Cardinality(Tokens(p)) \in Nat
        /\ faults \in Nat
    BY <2>1, <2>3, FS_CardinalityType, AnalyticsAssumption DEF TypedInv, TypeOK
  <2> QED  BY <2>1, <2>3, <2>4
<1> QED  BY <1>1, TypedAlways, CountedAlways, PTL

=============================================================================
