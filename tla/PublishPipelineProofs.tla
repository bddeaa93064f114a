----------------------- MODULE PublishPipelineProofs -----------------------
(***************************************************************************)
(* Theorems about PublishPipeline, for any number of posts, processes,     *)
(* worker slots, jobs and faults: its types, then the invariants and the   *)
(* action properties that hold whatever goes wrong.                        *)
(***************************************************************************)
EXTENDS PublishPipeline, TLAPS

-----------------------------------------------------------------------------
(* Rows                                                                    *)

\* The transitions of job_queue.py map rows to rows.
LEMMA JobRows ==
    /\ NoJob \in JobRow
    /\ CreateQueuedJob \in JobRow
    /\ \A row \in JobRow :
         /\ MarkRunning(row) \in JobRow
         /\ MarkEnqueued(row) \in JobRow
         /\ MarkCompleted(row) \in JobRow
         /\ \A retryable \in BOOLEAN : MarkFailed(row, retryable) \in JobRow
<1> USE DEF JobRow, JobStatus, When
<1>1. NoJob \in JobRow /\ CreateQueuedJob \in JobRow
  BY DEF NoJob, CreateQueuedJob
<1>2. ASSUME NEW row \in JobRow
      PROVE  /\ MarkRunning(row) \in JobRow
             /\ MarkEnqueued(row) \in JobRow
             /\ MarkCompleted(row) \in JobRow
  <2>1. MarkRunning(row) \in JobRow
    <3>1. row.attempts + 1 \in Nat
      OBVIOUS
    <3> QED  BY <3>1 DEF MarkRunning
  <2>2. MarkEnqueued(row) \in JobRow
    BY DEF MarkEnqueued
  <2>3. MarkCompleted(row) \in JobRow
    BY DEF MarkCompleted
  <2> QED  BY <2>1, <2>2, <2>3
<1>3. ASSUME NEW row \in JobRow, NEW retryable \in BOOLEAN
      PROVE  MarkFailed(row, retryable) \in JobRow
  <2>1. CASE retryable /\ row.attempts < MaxAttempts
    BY <2>1 DEF MarkFailed
  <2>2. CASE ~(retryable /\ row.attempts < MaxAttempts)
    BY <2>2 DEF MarkFailed
  <2> QED  BY <2>1, <2>2
<1> QED  BY <1>1, <1>2, <1>3

\* So does the commit of publish_single_post.
LEMMA SavedRows ==
    \A row \in PostRow, x \in ExecState : SavedRow(row, x) \in PostRow
<1> SUFFICES ASSUME NEW row \in PostRow, NEW x \in ExecState
             PROVE  SavedRow(row, x) \in PostRow
  OBVIOUS
<1>1. OrmWrite(row.status, x.seen, "published") \in PostStatus \cup {"absent"}
  BY DEF OrmWrite, PostRow, PostStatus
<1>2. OrmWrite(row.status, x.seen, "failed") \in PostStatus \cup {"absent"}
  BY DEF OrmWrite, PostRow, PostStatus
<1>3. (x.seen = "failed" /\ row.stale) \in BOOLEAN
  OBVIOUS
<1> QED
  BY <1>1, <1>2, <1>3 DEF SavedRow, PostRow, ExecState

-----------------------------------------------------------------------------
(* Type correctness                                                        *)

LEMMA ClaimedTyped ==
    ASSUME TypeOK, NEW S
    PROVE  Claimed(S) \in [Posts -> PostRow]
BY ZenonT(60) DEF TypeOK, Claimed, PostRow, PostStatus

LEMMA QueueItemsTyped == QueueItems \subseteq JobIds
<1>1. \A q \in Posts : FreshJobs(q) \subseteq JobIds /\ OpenJobs(q) \subseteq JobIds
  BY DEF FreshJobs, OpenJobs
<1>2. NewJobs \subseteq JobIds
  BY <1>1 DEF NewJobs, DuePosts
<1>3. UNION {OpenJobs(q) : q \in DuePosts} \subseteq JobIds
  BY <1>1 DEF DuePosts
<1>4. RetryableJobs \subseteq JobIds
  BY DEF RetryableJobs
<1> QED
  BY <1>2, <1>3, <1>4 DEF QueueItems

LEMMA SpendTyped ==
    ASSUME TypeOK, NEW k, Spend(k)
    PROVE  faults' \in 0 .. MaxFaults
BY ConstantsAssumption DEF TypeOK, Spend

LEMMA ExecTyped ==
    ASSUME TypeOK, NEW e \in Executors, NEW x \in ExecState,
           exec' = [exec EXCEPT ![e] = x]
    PROVE  exec' \in [Executors -> ExecState]
BY DEF TypeOK

LEMMA ClassifyTyped == \A error : Classify(error) \in {"transient", "permanent"}
BY DEF Classify

LEMMA NoExecTyped == NoExec \in ExecState
BY DEF NoExec, ExecState

LEMMA TypeInit == Init => TypeOK /\ Assigned
<1>1. Init => TypeOK
  BY JobRows, NoExecTyped, ConstantsAssumption
     DEF Init, TypeOK, NoPost, PostRow, When, NoRun, RecState
<1>2. Init => Assigned
  BY DEF Init, Assigned, NoExec
<1> QED  BY <1>1, <1>2

LEMMA TypeStep == TypeOK /\ Assigned /\ [Next]_vars => TypeOK'
<1> SUFFICES ASSUME TypeOK, Assigned, [Next]_vars
             PROVE  TypeOK'
  OBVIOUS
<1> USE DEF TypeOK
<1>1. ASSUME NEW p \in Posts, PostDue(p)
      PROVE  TypeOK'
  BY <1>1, SMTT(40) DEF PostDue, PostRow, When
<1>2. ASSUME NEW p \in Posts, GoStale(p)
      PROVE  TypeOK'
  BY <1>2 DEF GoStale, PostRow
<1>3. ASSUME NEW p \in Posts, SlowPublish(p)
      PROVE  TypeOK'
  BY <1>3, SpendTyped DEF SlowPublish, PostRow
<1>4. ASSUME NEW j \in JobIds, RetryDue(j)
      PROVE  TypeOK'
  BY <1>4 DEF RetryDue, JobRow, When
<1>5. ASSUME LockExpires
      PROVE  TypeOK'
  BY <1>5 DEF LockExpires
<1>6. ASSUME LockOvertaken
      PROVE  TypeOK'
  BY <1>6, SpendTyped DEF LockOvertaken
<1>7. ASSUME NEW i \in Instances, ReconcileAcquire(i)
      PROVE  TypeOK'
  BY <1>7 DEF ReconcileAcquire, RecState
<1>8. ASSUME NEW i \in Instances, ReconcileClaim(i)
      PROVE  TypeOK'
  BY <1>8, ClaimedTyped, JobRows, QueueItemsTyped DEF ReconcileClaim, RecState
<1>9. ASSUME NEW i \in Instances, ReconcileAbort(i)
      PROVE  TypeOK'
  BY <1>9 DEF ReconcileAbort, NoRun, RecState
<1>10. ASSUME NEW i \in Instances, NEW j \in JobIds, ReconcileEnqueue(i, j)
      PROVE  TypeOK'
  BY <1>10 DEF ReconcileEnqueue, RecState
<1>11. ASSUME NEW i \in Instances, NEW j \in JobIds, ReconcileEnqueueFails(i, j)
      PROVE  TypeOK'
  BY <1>11, SpendTyped DEF ReconcileEnqueueFails, RecState
<1>12. ASSUME NEW i \in Instances, ReconcileMark(i)
      PROVE  TypeOK'
  BY <1>12, JobRows DEF ReconcileMark, RecState
<1>13. ASSUME NEW i \in Instances, ReconcileMarkFails(i)
      PROVE  TypeOK'
  BY <1>13, SpendTyped DEF ReconcileMarkFails, RecState
<1>14. ASSUME NEW i \in Instances, ReconcileRelease(i)
      PROVE  TypeOK'
  BY <1>14 DEF ReconcileRelease, NoRun, RecState
<1>15. ASSUME NEW s \in Slots, NEW j \in JobIds, WorkerStart(s, j)
      PROVE  TypeOK'
  <2>1. [NoExec EXCEPT !.pc = "load", !.post = PostOf(j), !.job = j] \in ExecState
    BY DEF NoExec, ExecState, JobIds, PostOf
  <2>2. job' \in [JobIds -> JobRow] /\ arq' \in [JobIds -> Nat]
    BY <1>15, JobRows DEF WorkerStart
  <2> QED  BY <1>15, <2>1, <2>2 DEF WorkerStart
<1>16. ASSUME NEW e \in Executors, Load(e)
      PROVE  TypeOK'
  <2> DEFINE row == post[exec[e].post]
             x == IF row.linked
                  THEN [exec[e] EXCEPT !.seen = row.status, !.pc = "call"]
                  ELSE [exec[e] EXCEPT !.seen = row.status, !.pc = "save",
                                !.result = Classify("AUTH_OR_ACCOUNT_CONFIGURATION")]
  <2>1. row.status \in PostStatus \cup {"absent"}
    BY <1>16 DEF Load, Assigned, PostRow
  <2>2. x \in ExecState
    BY <2>1, ClassifyTyped, ZenonT(60) DEF ExecState
  <2>3. exec' = [exec EXCEPT ![e] = x]
    BY <1>16 DEF Load
  <2> QED  BY <1>16, <2>2, <2>3, ExecTyped DEF Load
<1>17. ASSUME NEW e \in Executors, CallPublishes(e)
      PROVE  TypeOK'
  <2> DEFINE p == exec[e].post
  <2>1. p \in Posts /\ exec[e] \in ExecState
    BY <1>17 DEF CallPublishes, Assigned
  <2>2. made[p] + 1 \in Nat /\ made' \in [Posts -> Nat]
    BY <1>17, <2>1 DEF CallPublishes
  <2>3. [exec[e] EXCEPT !.pc = "save", !.result = "published", !.tweet = made[p] + 1]
          \in ExecState
    BY <2>1, <2>2 DEF ExecState
  <2> QED  BY <1>17, <2>2, <2>3, ExecTyped DEF CallPublishes
<1>18. ASSUME NEW e \in Executors, CallBlocked(e)
      PROVE  TypeOK'
  <2> DEFINE x == [exec[e] EXCEPT !.pc = "save",
                                  !.result = Classify("THREAD_PREDECESSOR_NOT_READY")]
  <2>1. x \in ExecState
    BY ClassifyTyped DEF ExecState
  <2>2. exec' = [exec EXCEPT ![e] = x]
    BY <1>18 DEF CallBlocked
  <2> QED  BY <1>18, <2>1, <2>2, ExecTyped DEF CallBlocked
<1>19. ASSUME NEW e \in Executors, CallFails(e)
      PROVE  TypeOK'
  <2>1. PICK error : exec' = [exec EXCEPT ![e] =
                       [exec[e] EXCEPT !.pc = "save", !.result = Classify(error)]]
    BY <1>19 DEF CallFails
  <2>2. [exec[e] EXCEPT !.pc = "save", !.result = Classify(error)] \in ExecState
    BY ClassifyTyped DEF ExecState
  <2> QED  BY <1>19, <2>1, <2>2, ExecTyped DEF CallFails
<1>20. ASSUME NEW e \in Executors, CallAnswerLost(e)
      PROVE  TypeOK'
  <2> DEFINE x == [exec[e] EXCEPT !.pc = "save", !.result = Classify("NETWORK_ERROR")]
  <2>1. x \in ExecState
    BY ClassifyTyped DEF ExecState
  <2>2. exec' = [exec EXCEPT ![e] = x]
    BY <1>20 DEF CallAnswerLost
  <2>3. faults' \in 0 .. MaxFaults
    BY <1>20, SpendTyped DEF CallAnswerLost
  <2>4. made' \in [Posts -> Nat]
    BY <1>20 DEF CallAnswerLost, Assigned
  <2> QED  BY <1>20, <2>1, <2>2, <2>3, <2>4, ExecTyped DEF CallAnswerLost
<1>21. ASSUME NEW e \in Executors, Save(e)
      PROVE  TypeOK'
  <2>1. post' \in [Posts -> PostRow]
    BY <1>21, SavedRows DEF Save
  <2>2. [exec[e] EXCEPT !.pc = "report"] \in ExecState
    BY DEF ExecState
  <2>3. exec' \in [Executors -> ExecState]
    BY <1>21, <2>2, NoExecTyped DEF Save
  <2> QED  BY <1>21, <2>1, <2>3 DEF Save
<1>22. ASSUME NEW e \in Executors, Report(e)
      PROVE  TypeOK'
  BY <1>22, JobRows DEF Report, ExecState, NoExec
<1>23. ASSUME NEW s \in Slots, WorkerCrash(s)
      PROVE  TypeOK'
  <2>1. arq' \in [JobIds -> Nat]
    BY <1>23 DEF WorkerCrash, Assigned, Executors
  <2>2. exec' \in [Executors -> ExecState]
    BY <1>23, NoExecTyped DEF WorkerCrash, Executors
  <2>3. faults' \in 0 .. MaxFaults
    BY <1>23, SpendTyped DEF WorkerCrash
  <2> QED  BY <1>23, <2>1, <2>2, <2>3 DEF WorkerCrash
<1>24. ASSUME NEW s \in Slots, TaskDies(s)
      PROVE  TypeOK'
  BY <1>24, SpendTyped DEF TaskDies, ExecState, NoExec, Executors
<1>25. ASSUME NEW i \in Instances, LegacyClaim(i)
      PROVE  TypeOK'
  BY <1>25, ClaimedTyped DEF LegacyClaim, DuePosts
<1>26. ASSUME NEW i \in Instances, NEW p \in Posts, LegacyNext(i, p)
      PROVE  TypeOK'
  BY <1>26 DEF LegacyNext, ExecState, NoExec, Executors
<1>27. ASSUME RecoverStale
      PROVE  TypeOK'
  BY <1>27, ZenonT(60) DEF RecoverStale, PostRow, PostStatus
<1>28. ASSUME NEW i \in Instances, InstanceCrash(i)
      PROVE  TypeOK'
  BY <1>28, SpendTyped DEF InstanceCrash, NoRun, NoExec, RecState, ExecState, Executors
<1>29. ASSUME NEW p \in Posts, NEW due \in When, NEW linked \in BOOLEAN, CreatePost(p, due, linked)
      PROVE  TypeOK'
  BY <1>29 DEF CreatePost, NoPost, PostRow, PostStatus, When
<1>30. ASSUME NEW p \in Posts, NEW status \in PostStatus, NEW due \in When, NEW linked \in BOOLEAN,
             PatchPost(p, status, due, linked)
      PROVE  TypeOK'
  BY <1>30, SpendTyped, ZenonT(60) DEF PatchPost, PostRow
<1>31. ASSUME NEW p \in Posts, DeletePost(p)
      PROVE  TypeOK'
  <2>1. faults' \in 0 .. MaxFaults
    BY <1>31, SpendTyped DEF DeletePost
  <2>2. post' \in [Posts -> PostRow]
    BY <1>31, ZenonT(60) DEF DeletePost, PostRow
  <2>3. post[p].pid \in Nat
    BY DEF PostRow
  <2>4. gone' \subseteq Posts \X Nat
    BY <1>31, <2>3 DEF DeletePost
  <2> QED  BY <1>31, <2>1, <2>2, <2>4 DEF DeletePost
<1>32. ASSUME DisconnectAccount
      PROVE  TypeOK'
  BY <1>32, SpendTyped, ZenonT(60) DEF DisconnectAccount, PostRow
<1>33. CASE UNCHANGED vars
  BY <1>33 DEF vars
<1> QED
  BY <1>1, <1>2, <1>3, <1>4, <1>5, <1>6, <1>7, <1>8, <1>9, <1>10, <1>11, <1>12,
     <1>13, <1>14, <1>15, <1>16, <1>17, <1>18, <1>19, <1>20, <1>21, <1>22, <1>23,
     <1>24, <1>25, <1>26, <1>27, <1>28, <1>29, <1>30, <1>31, <1>32, <1>33
     DEF Next, Time, ReconcilePass, Publishing, Legacy, Trouble, Users

\* The steps that touch no publish_single_post call.
LEMMA OthersLeaveExec ==
    ASSUME [Next]_vars
    PROVE  \/ UNCHANGED exec
           \/ \E s \in Slots, j \in JobIds : WorkerStart(s, j)
           \/ \E e \in Executors : \/ Load(e)
                                   \/ CallPublishes(e) \/ CallBlocked(e) \/ CallFails(e)
                                   \/ CallAnswerLost(e)
                                   \/ Save(e)
                                   \/ Report(e)
           \/ \E s \in Slots : WorkerCrash(s) \/ TaskDies(s)
           \/ \E i \in Instances, p \in Posts : LegacyNext(i, p)
           \/ \E i \in Instances : InstanceCrash(i)
<1>1. Time => UNCHANGED exec
  BY DEF Time, PostDue, GoStale, RetryDue, LockExpires
<1>2. (\E i \in Instances : ReconcileAcquire(i) \/ ReconcilePass(i)) => UNCHANGED exec
  BY DEF ReconcileAcquire, ReconcilePass, ReconcileClaim, ReconcileAbort, ReconcileEnqueue,
         ReconcileMark, ReconcileRelease
<1>3. Users => UNCHANGED exec
  BY DEF Users, CreatePost, PatchPost, DeletePost, DisconnectAccount
<1>4. RecoverStale \/ UNCHANGED vars => UNCHANGED exec
  BY DEF RecoverStale, vars
<1>5. \A i \in Instances : LegacyClaim(i) => UNCHANGED exec
  BY DEF LegacyClaim
<1>6. \A p \in Posts : SlowPublish(p) => UNCHANGED exec
  BY DEF SlowPublish
<1>7. LockOvertaken => UNCHANGED exec
  BY DEF LockOvertaken
<1>8. CASE Trouble
  <2>1. CASE \E p \in Posts : SlowPublish(p)
    BY <1>6, <2>1
  <2>2. CASE \E i \in Instances : \/ InstanceCrash(i)
                                  \/ ReconcileMarkFails(i)
                                  \/ \E j \in JobIds : ReconcileEnqueueFails(i, j)
    <3>1. PICK i \in Instances : \/ InstanceCrash(i)
                                 \/ ReconcileMarkFails(i)
                                 \/ \E j \in JobIds : ReconcileEnqueueFails(i, j)
      BY <2>2
    <3>2. CASE InstanceCrash(i)
      BY <3>2
    <3>3. CASE ReconcileMarkFails(i)
      BY <3>3 DEF ReconcileMarkFails
    <3>4. CASE \E j \in JobIds : ReconcileEnqueueFails(i, j)
      BY <3>4 DEF ReconcileEnqueueFails
    <3> QED  BY <3>1, <3>2, <3>3, <3>4
  <2>3. CASE \E s \in Slots : WorkerCrash(s) \/ TaskDies(s)
    BY <2>3
  <2>4. CASE \E e \in Executors : CallAnswerLost(e)
    BY <2>4
  <2> QED  BY <1>7, <1>8, <2>1, <2>2, <2>3, <2>4 DEF Trouble
<1>9. CASE \E i \in Instances : ReconcileAcquire(i) \/ ReconcilePass(i) \/ Legacy(i)
  BY <1>2, <1>5, <1>9 DEF Legacy
<1>10. CASE \E e \in Executors : Publishing(e)
  BY <1>10 DEF Publishing
<1> QED
  BY <1>1, <1>3, <1>4, <1>8, <1>9, <1>10 DEF Next

\* The steps that write the posts table; the others leave it alone.
LEMMA OthersLeavePost ==
    ASSUME [Next]_vars
    PROVE  \/ UNCHANGED post
           \/ \E p \in Posts : PostDue(p) \/ GoStale(p) \/ SlowPublish(p)
           \/ RecoverStale
           \/ \E i \in Instances : ReconcileClaim(i)
           \/ \E i \in Instances : LegacyClaim(i)
           \/ \E e \in Executors : Save(e)
           \/ \E p \in Posts : DeletePost(p)
           \/ DisconnectAccount
           \/ \E p \in Posts, due \in When, linked \in BOOLEAN :
                CreatePost(p, due, linked)
           \/ \E p \in Posts, status \in PostStatus, due \in When, linked \in BOOLEAN :
                PatchPost(p, status, due, linked)
<1>1. ASSUME NEW i \in Instances,
             \/ ReconcileAcquire(i) \/ ReconcileAbort(i) \/ ReconcileMark(i)
             \/ ReconcileMarkFails(i) \/ ReconcileRelease(i) \/ InstanceCrash(i)
      PROVE  UNCHANGED post
  BY <1>1 DEF ReconcileAcquire, ReconcileAbort, ReconcileMark, ReconcileMarkFails,
       ReconcileRelease, InstanceCrash
<1>2. ASSUME NEW i \in Instances, NEW j \in JobIds,
             ReconcileEnqueue(i, j) \/ ReconcileEnqueueFails(i, j)
      PROVE  UNCHANGED post
  BY <1>2 DEF ReconcileEnqueue, ReconcileEnqueueFails
<1>3. ASSUME NEW i \in Instances, NEW p \in Posts, LegacyNext(i, p)
      PROVE  UNCHANGED post
  BY <1>3 DEF LegacyNext
<1>4. ASSUME NEW s \in Slots, NEW j \in JobIds, WorkerStart(s, j)
      PROVE  UNCHANGED post
  BY <1>4 DEF WorkerStart
<1>5. ASSUME NEW s \in Slots, WorkerCrash(s) \/ TaskDies(s)
      PROVE  UNCHANGED post
  BY <1>5 DEF WorkerCrash, TaskDies
<1>6. ASSUME NEW e \in Executors,
             \/ Load(e) \/ CallPublishes(e) \/ CallBlocked(e) \/ CallFails(e)
             \/ CallAnswerLost(e) \/ Report(e)
      PROVE  UNCHANGED post
  BY <1>6 DEF Load, CallPublishes, CallBlocked, CallFails, CallAnswerLost, Report
<1>7. ASSUME NEW j \in JobIds, RetryDue(j)
      PROVE  UNCHANGED post
  BY <1>7 DEF RetryDue
<1>8. LockExpires \/ LockOvertaken \/ UNCHANGED vars => UNCHANGED post
  BY DEF LockExpires, LockOvertaken, vars
<1> QED
  BY <1>1, <1>2, <1>3, <1>4, <1>5, <1>6, <1>7, <1>8
     DEF Next, Time, ReconcilePass, Publishing, Legacy, Trouble, Users

\* The four outcomes of the call touch pc, result and tweet of the caller.
LEMMA CallSteps ==
    ASSUME TypeOK, NEW e \in Executors,
           CallPublishes(e) \/ CallBlocked(e) \/ CallFails(e) \/ CallAnswerLost(e)
    PROVE  /\ exec[e].pc = "call" /\ exec'[e].pc = "save"
           /\ exec'[e].post = exec[e].post
           /\ exec'[e].job = exec[e].job
           /\ exec'[e].seen = exec[e].seen
           /\ \A d \in Executors : d # e => exec'[d] = exec[d]
<1> USE DEF TypeOK, ExecState
<1>1. CASE CallPublishes(e)
  BY <1>1 DEF CallPublishes
<1>2. CASE CallBlocked(e)
  <2> DEFINE r == Classify("THREAD_PREDECESSOR_NOT_READY")
  <2>1. /\ exec[e].pc = "call"
        /\ exec' = [exec EXCEPT ![e] = [exec[e] EXCEPT !.pc = "save", !.result = r]]
    BY <1>2, Zenon DEF CallBlocked
  <2> HIDE DEF r
  <2> QED  BY <2>1
<1>3. CASE CallFails(e)
  <2>1. PICK error : /\ exec[e].pc = "call"
                     /\ exec' = [exec EXCEPT ![e] = [exec[e] EXCEPT !.pc = "save",
                                                     !.result = Classify(error)]]
    BY <1>3 DEF CallFails
  <2> QED  BY <2>1
<1>4. CASE CallAnswerLost(e)
  BY <1>4 DEF CallAnswerLost
<1> QED  BY <1>1, <1>2, <1>3, <1>4

LEMMA AssignedStep == TypeOK /\ Assigned /\ [Next]_vars => Assigned'
<1> SUFFICES ASSUME TypeOK, Assigned, [Next]_vars
             PROVE  Assigned'
  OBVIOUS
<1> USE DEF TypeOK, Assigned
<1>1. ASSUME NEW s \in Slots, NEW j \in JobIds, WorkerStart(s, j)
      PROVE  Assigned'
  BY <1>1, ConstantsAssumption DEF WorkerStart, NoExec, Executors, JobIds, PostOf
<1>2. ASSUME NEW e \in Executors, Load(e)
      PROVE  Assigned'
  BY <1>2 DEF Load, ExecState
<1>3. ASSUME NEW e \in Executors, CallPublishes(e) \/ CallBlocked(e) \/ CallFails(e)
                                    \/ CallAnswerLost(e)
      PROVE  Assigned'
  BY <1>3, CallSteps
<1>4. ASSUME NEW e \in Executors, Save(e)
      PROVE  Assigned'
  BY <1>4 DEF Save, NoExec, ExecState
<1>5. ASSUME NEW e \in Executors, Report(e)
      PROVE  Assigned'
  BY <1>5 DEF Report, NoExec
<1>6. ASSUME NEW s \in Slots, WorkerCrash(s) \/ TaskDies(s)
      PROVE  Assigned'
  BY <1>6 DEF WorkerCrash, TaskDies, NoExec
<1>7. ASSUME NEW i \in Instances, NEW p \in Posts, LegacyNext(i, p)
      PROVE  Assigned'
  BY <1>7, ConstantsAssumption DEF LegacyNext, NoExec, Executors
<1>8. ASSUME NEW i \in Instances, InstanceCrash(i)
      PROVE  Assigned'
  BY <1>8 DEF InstanceCrash, NoExec
<1>9. CASE UNCHANGED exec
  BY <1>9
<1> QED
  BY <1>1, <1>2, <1>3, <1>4, <1>5, <1>6, <1>7, <1>8, <1>9, OthersLeaveExec

\* Every reachable state is well typed, whatever the constants.  Assigned is
\* what the counters need: the post and the job they are indexed with exist.
THEOREM TypeCorrect == Spec => [](TypeOK /\ Assigned)
<1>1. Init => TypeOK /\ Assigned
  BY TypeInit
<1>2. TypeOK /\ Assigned /\ [Next]_vars => (TypeOK /\ Assigned)'
  BY TypeStep, AssignedStep
<1> QED
  BY <1>1, <1>2, PTL DEF Spec

-----------------------------------------------------------------------------
(* Rows are never removed, ids refer to rows                               *)

RowsStay ==
    /\ \A p \in Posts : post[p].status # "absent" => post'[p].status # "absent"
    /\ \A j \in JobIds : job[j].status # "absent" => job'[j].status # "absent"

LEMMA RowsStayStep == TypeOK /\ Assigned /\ [Next]_vars => RowsStay
<1> SUFFICES ASSUME TypeOK, Assigned, [Next]_vars
             PROVE  RowsStay
  OBVIOUS
<1> USE DEF TypeOK, PostRow, JobRow, RowsStay
<1>1. ASSUME NEW i \in Instances, ReconcileClaim(i)
      PROVE  RowsStay
  BY <1>1, ZenonT(60) DEF ReconcileClaim, Claimed, CreateQueuedJob, NoJob
<1>2. ASSUME NEW i \in Instances, LegacyClaim(i)
      PROVE  RowsStay
  BY <1>2, ZenonT(60) DEF LegacyClaim, Claimed
<1>3. ASSUME NEW i \in Instances, ReconcileMark(i)
      PROVE  RowsStay
  BY <1>3 DEF ReconcileMark, MarkEnqueued
<1>4. ASSUME NEW s \in Slots, NEW j \in JobIds, WorkerStart(s, j)
      PROVE  RowsStay
  BY <1>4 DEF WorkerStart, MarkRunning
<1>5. ASSUME NEW e \in Executors, Save(e)
      PROVE  RowsStay
  <2>1. \A row \in PostRow, x \in ExecState :
          row.status # "absent" => SavedRow(row, x).status # "absent"
    BY DEF SavedRow, OrmWrite
  <2> QED  BY <1>5, <2>1 DEF Save
<1>6. ASSUME NEW e \in Executors, Report(e)
      PROVE  RowsStay
  <2>1. \A row \in JobRow : /\ MarkCompleted(row).status # "absent"
                            /\ \A r : MarkFailed(row, r).status # "absent"
    BY DEF MarkCompleted, MarkFailed
  <2> QED  BY <1>6, <2>1 DEF Report
<1>7. ASSUME NEW p \in Posts, NEW status \in PostStatus, NEW due \in When,
             NEW linked \in BOOLEAN,
             PatchPost(p, status, due, linked)
      PROVE  RowsStay
  BY <1>7 DEF PatchPost, PostStatus
<1>8. ASSUME NEW p \in Posts, NEW due \in When, NEW linked \in BOOLEAN,
             CreatePost(p, due, linked)
      PROVE  RowsStay
  BY <1>8 DEF CreatePost
<1>9. ASSUME RecoverStale
      PROVE  RowsStay
  BY <1>9, ZenonT(60) DEF RecoverStale
<1>10. ASSUME DisconnectAccount
      PROVE  RowsStay
  BY <1>10 DEF DisconnectAccount
<1>11. ASSUME NEW p \in Posts, DeletePost(p)
      PROVE  RowsStay
  BY <1>11 DEF DeletePost
<1>12. ASSUME NEW p \in Posts, SlowPublish(p)
      PROVE  RowsStay
  BY <1>12 DEF SlowPublish
<1>13. ASSUME NEW p \in Posts, GoStale(p)
      PROVE  RowsStay
  BY <1>13 DEF GoStale
<1>14. ASSUME NEW p \in Posts, PostDue(p)
      PROVE  RowsStay
  BY <1>14 DEF PostDue
<1>15. ASSUME NEW j \in JobIds, RetryDue(j)
      PROVE  RowsStay
  BY <1>15 DEF RetryDue
<1>16. ASSUME LockExpires \/ LockOvertaken
      PROVE  RowsStay
  BY <1>16 DEF LockExpires, LockOvertaken
<1>17. ASSUME NEW i \in Instances,
             \/ ReconcileAcquire(i)
             \/ ReconcileAbort(i)
             \/ ReconcileMarkFails(i)
             \/ ReconcileRelease(i)
             \/ InstanceCrash(i)
      PROVE  RowsStay
  BY <1>17 DEF ReconcileAcquire, ReconcileAbort, ReconcileMarkFails, ReconcileRelease,
       InstanceCrash
<1>18. ASSUME NEW i \in Instances, NEW j \in JobIds,
             ReconcileEnqueue(i, j) \/ ReconcileEnqueueFails(i, j)
      PROVE  RowsStay
  BY <1>18 DEF ReconcileEnqueue, ReconcileEnqueueFails
<1>19. ASSUME NEW i \in Instances, NEW p \in Posts, LegacyNext(i, p)
      PROVE  RowsStay
  BY <1>19 DEF LegacyNext
<1>20. ASSUME NEW s \in Slots, WorkerCrash(s) \/ TaskDies(s)
      PROVE  RowsStay
  BY <1>20 DEF WorkerCrash, TaskDies
<1>21. ASSUME NEW e \in Executors,
             \/ Load(e)
             \/ CallPublishes(e)
             \/ CallBlocked(e)
             \/ CallFails(e)
             \/ CallAnswerLost(e)
      PROVE  RowsStay
  BY <1>21 DEF Load, CallPublishes, CallBlocked, CallFails, CallAnswerLost
<1>22. CASE UNCHANGED vars
  BY <1>22 DEF vars
<1> QED
  BY <1>1, <1>2, <1>3, <1>4, <1>5, <1>6, <1>7, <1>8, <1>9, <1>10, <1>11, <1>12,
       <1>13, <1>14, <1>15, <1>16, <1>17, <1>18, <1>19, <1>20, <1>21, <1>22
     DEF Next, Time, ReconcilePass, Publishing, Legacy, Trouble, Users

LEMMA RowsExistInit == Init => RowsExist
BY DEF Init, RowsExist, NoJob, NoPost, NoRun, NoExec

\* What a pass lists: jobs that exist, or jobs it is about to insert.
LEMMA QueueItemsExist ==
    ASSUME TypeOK, NEW j \in QueueItems
    PROVE  j \in JobIds /\ (j \in NewJobs \/ job[j].status # "absent")
<1>1. CASE j \in NewJobs
  BY <1>1, QueueItemsTyped
<1>2. CASE j \in RetryableJobs
  BY <1>2 DEF RetryableJobs, IsRetryable
<1>3. CASE j \in UNION {OpenJobs(p) : p \in DuePosts}
  BY <1>3 DEF OpenJobs, IsOpen
<1> QED  BY <1>1, <1>2, <1>3 DEF QueueItems

\* The jobs a pass inserts are new jobs of due posts without an open one.
LEMMA NewJobsFresh ==
    ASSUME NEW j \in NewJobs
    PROVE  /\ j \in JobIds /\ PostOf(j) \in DuePosts
           /\ j \in FreshJobs(PostOf(j)) /\ OpenJobs(PostOf(j)) = {}
BY DEF NewJobs, FreshJobs

LEMMA PostsOnly ==
    ASSUME TypeOK, Assigned, RowsExist, RowsStay, UNCHANGED <<job, arq, rec, todo, exec>>
    PROVE  RowsExist'
BY DEF TypeOK, Assigned, RowsExist, RowsStay, JobIds, PostOf

LEMMA RowsExistStep == TypeOK /\ Assigned /\ RowsExist /\ [Next]_vars => RowsExist'
<1> SUFFICES ASSUME TypeOK, Assigned, RowsExist, [Next]_vars
             PROVE  RowsExist'
  OBVIOUS
<1> RowsStay
  BY RowsStayStep
<1> USE DEF RowsExist
<1>1. ASSUME NEW i \in Instances, ReconcileClaim(i)
      PROVE  RowsExist'
  <2>1. \A j \in NewJobs : job'[j].status # "absent" /\ post'[PostOf(j)].status # "absent"
    <3> TAKE j \in NewJobs
    <3>1. j \in JobIds /\ PostOf(j) \in DuePosts
      BY NewJobsFresh
    <3> QED
      BY <1>1, <3>1 DEF ReconcileClaim, Claimed, CreateQueuedJob, NoJob, TypeOK, PostRow, DuePosts
  <2>2. \A j \in JobIds : job'[j].status # "absent" => post'[PostOf(j)].status # "absent"
    BY <1>1, <2>1 DEF ReconcileClaim, RowsStay, JobIds, PostOf
  <2>3. \A j \in QueueItems : j \in JobIds /\ job'[j].status # "absent"
    BY <2>1, QueueItemsExist DEF RowsStay
  <2>4. rec' = [rec EXCEPT ![i] = [pc |-> "loop", items |-> QueueItems, cur |-> None]]
        /\ UNCHANGED <<arq, todo, exec>>
    BY <1>1 DEF ReconcileClaim
  <2>5. \A k \in Instances : /\ \A j \in rec'[k].items : job'[j].status # "absent"
                             /\ rec'[k].pc = "mark" => /\ rec'[k].cur \in JobIds
                                                      /\ job'[rec'[k].cur].status # "absent"
    BY <2>3, <2>4 DEF TypeOK, RecState, RowsStay
  <2> QED  BY <2>2, <2>4, <2>5 DEF TypeOK, RowsStay, Assigned, ExecState
<1>2. ASSUME NEW i \in Instances, LegacyClaim(i)
      PROVE  RowsExist'
  <2>1. todo' = [todo EXCEPT ![i] = DuePosts] /\ UNCHANGED <<job, arq, rec, exec>>
    BY <1>2 DEF LegacyClaim
  <2>2. \A p \in DuePosts : p \in Posts /\ post[p].status # "absent"
    BY DEF DuePosts
  <2> QED  BY <2>1, <2>2 DEF TypeOK, RowsStay, Assigned, ExecState, JobIds, PostOf
<1>3. ASSUME NEW i \in Instances, NEW j \in JobIds, ReconcileEnqueue(i, j)
      PROVE  RowsExist'
  BY <1>3 DEF ReconcileEnqueue, TypeOK, RecState
<1>4. ASSUME NEW i \in Instances, NEW j \in JobIds, ReconcileEnqueueFails(i, j)
      PROVE  RowsExist'
  BY <1>4 DEF ReconcileEnqueueFails, TypeOK, RecState
<1>5. ASSUME NEW i \in Instances, ReconcileMark(i)
      PROVE  RowsExist'
  <2>1. rec[i].cur \in JobIds /\ job[rec[i].cur].status # "absent"
    BY <1>5 DEF ReconcileMark
  <2>2. \A j \in JobIds : job'[j].status # "absent" => job[j].status # "absent"
    BY <1>5, <2>1 DEF ReconcileMark, TypeOK
  <2>3. \A k \in Instances : /\ rec'[k].items = rec[k].items
                             /\ rec'[k].pc = "mark" => rec'[k].pc = rec[k].pc
                                                     /\ rec'[k].cur = rec[k].cur
    BY <1>5 DEF ReconcileMark, TypeOK, RecState
  <2>4. UNCHANGED <<post, arq, todo, exec>>
    BY <1>5 DEF ReconcileMark
  <2> QED  BY <2>2, <2>3, <2>4, SMTT(40) DEF RowsStay, TypeOK, RecState, ExecState
<1>6. ASSUME NEW i \in Instances, ReconcileMarkFails(i)
      PROVE  RowsExist'
  BY <1>6 DEF ReconcileMarkFails, TypeOK, RecState
<1>7. ASSUME NEW i \in Instances, ReconcileAcquire(i)
      PROVE  RowsExist'
  BY <1>7 DEF ReconcileAcquire, TypeOK, RecState
<1>8. ASSUME NEW i \in Instances, ReconcileAbort(i) \/ ReconcileRelease(i)
      PROVE  RowsExist'
  BY <1>8 DEF ReconcileAbort, ReconcileRelease, NoRun, TypeOK, RecState
<1>9. ASSUME NEW i \in Instances, InstanceCrash(i)
      PROVE  RowsExist'
  BY <1>9 DEF InstanceCrash, NoRun, NoExec, TypeOK
<1>10. ASSUME NEW s \in Slots, NEW j \in JobIds, WorkerStart(s, j)
      PROVE  RowsExist'
  <2>1. \A k \in JobIds : job'[k].status # "absent" => job[k].status # "absent"
    BY <1>10 DEF WorkerStart, TypeOK
  <2>2. \A e \in Executors : e # s => exec'[e] = exec[e]
    BY <1>10 DEF WorkerStart, TypeOK
  <2>3. exec'[s].post = PostOf(j) /\ exec'[s].job = j
    BY <1>10 DEF WorkerStart, TypeOK, Executors, NoExec
  <2>4. UNCHANGED <<post, rec, todo>> /\ \A k \in JobIds : arq'[k] > 0 => arq[k] > 0
    BY <1>10 DEF WorkerStart, TypeOK
  <2> QED  BY <1>10, <2>1, <2>2, <2>3, <2>4 DEF WorkerStart, RowsStay, TypeOK, RecState, ExecState
<1>11. ASSUME NEW e \in Executors, Load(e)
      PROVE  RowsExist'
  <2>1. \A d \in Executors : exec'[d].post = exec[d].post /\ exec'[d].job = exec[d].job
                             /\ (exec'[d].pc # "idle" => exec[d].pc # "idle")
    BY <1>11 DEF Load, TypeOK, ExecState
  <2> QED  BY <1>11, <2>1 DEF Load
<1>12. ASSUME NEW e \in Executors,
             \/ CallPublishes(e)
             \/ CallBlocked(e)
             \/ CallFails(e)
             \/ CallAnswerLost(e)
      PROVE  RowsExist'
  <2>1. \A d \in Executors : exec'[d].post = exec[d].post /\ exec'[d].job = exec[d].job
                             /\ (exec'[d].pc # "idle" => exec[d].pc # "idle")
    BY <1>12, CallSteps
  <2>2. UNCHANGED <<post, job, arq, rec, todo>>
    BY <1>12 DEF CallPublishes, CallBlocked, CallFails, CallAnswerLost
  <2> QED  BY <2>1, <2>2
<1>13. ASSUME NEW e \in Executors, Save(e)
      PROVE  RowsExist'
  <2>1. \A d \in Executors : \/ exec'[d] = NoExec
                             \/ exec'[d].post = exec[d].post /\ exec'[d].job = exec[d].job
                                /\ exec[d].pc # "idle"
                             \/ exec'[d] = exec[d]
    BY <1>13 DEF Save, TypeOK, ExecState
  <2>2. UNCHANGED <<job, arq, rec, todo>>
    BY <1>13 DEF Save
  <2>3. \A d \in Executors : /\ exec'[d].pc # "idle" => post'[exec'[d].post].status # "absent"
                             /\ exec'[d].job # None => job'[exec'[d].job].status # "absent"
    <3> TAKE d \in Executors
    <3>1. CASE exec'[d] = NoExec
      BY <3>1 DEF NoExec
    <3>2. CASE exec'[d].post = exec[d].post /\ exec'[d].job = exec[d].job /\ exec[d].pc # "idle"
      BY <2>2, <3>2 DEF RowsStay, Assigned
    <3>3. CASE exec'[d] = exec[d]
      BY <2>2, <3>3 DEF RowsStay, Assigned
    <3> QED  BY <2>1, <3>1, <3>2, <3>3
  <2> QED  BY <2>2, <2>3 DEF RowsStay, TypeOK, JobIds, PostOf
<1>14. ASSUME NEW e \in Executors, Report(e)
      PROVE  RowsExist'
  <2>1. \A d \in Executors : exec'[d] = NoExec \/ exec'[d] = exec[d]
    BY <1>14 DEF Report, TypeOK
  <2>2. UNCHANGED <<post, arq, rec, todo>>
    BY <1>14 DEF Report
  <2>3. exec[e].job \in JobIds => job[exec[e].job].status # "absent"
    BY ConstantsAssumption DEF TypeOK, ExecState, JobIds
  <2>4. \A j \in JobIds : job'[j].status # "absent" => job[j].status # "absent"
    BY <1>14, <2>3 DEF Report, TypeOK
  <2>5. \A d \in Executors : /\ exec'[d].pc # "idle" => post'[exec'[d].post].status # "absent"
                             /\ exec'[d].job # None => job'[exec'[d].job].status # "absent"
    <3> TAKE d \in Executors
    <3>1. CASE exec'[d] = NoExec
      BY <3>1 DEF NoExec
    <3>2. CASE exec'[d] = exec[d]
      <4>1. exec[d].job # None => exec[d].job \in JobIds
        BY DEF TypeOK, ExecState
      <4> QED  BY <2>2, <3>2, <4>1 DEF RowsStay
    <3> QED  BY <2>1, <3>1, <3>2
  <2> QED  BY <2>2, <2>4, <2>5 DEF RowsStay, TypeOK, RecState
<1>15. ASSUME NEW s \in Slots, WorkerCrash(s)
      PROVE  RowsExist'
  BY <1>15, ConstantsAssumption DEF WorkerCrash, TypeOK, NoExec, Assigned, Executors, JobIds
<1>16. ASSUME NEW s \in Slots, TaskDies(s)
      PROVE  RowsExist'
  BY <1>16 DEF TaskDies, TypeOK, NoExec
<1>17. ASSUME NEW i \in Instances, NEW p \in Posts, LegacyNext(i, p)
      PROVE  RowsExist'
  BY <1>17 DEF LegacyNext, TypeOK, NoExec, Executors
<1>18. ASSUME NEW p \in Posts,
             PostDue(p) \/ GoStale(p) \/ SlowPublish(p) \/ DeletePost(p)
      PROVE  RowsExist'
  <2>1. UNCHANGED <<job, arq, rec, todo, exec>>
    BY <1>18 DEF PostDue, GoStale, SlowPublish, DeletePost
  <2> QED  BY <2>1, PostsOnly
<1>19. ASSUME NEW p \in Posts, NEW due \in When, NEW linked \in BOOLEAN,
             CreatePost(p, due, linked)
      PROVE  RowsExist'
  <2>1. UNCHANGED <<job, arq, rec, todo, exec>>
    BY <1>19 DEF CreatePost
  <2> QED  BY <2>1, PostsOnly
<1>20. ASSUME NEW p \in Posts, NEW status \in PostStatus, NEW due \in When,
             NEW linked \in BOOLEAN,
             PatchPost(p, status, due, linked)
      PROVE  RowsExist'
  <2>1. UNCHANGED <<job, arq, rec, todo, exec>>
    BY <1>20 DEF PatchPost
  <2> QED  BY <2>1, PostsOnly
<1>21. ASSUME RecoverStale \/ DisconnectAccount
      PROVE  RowsExist'
  <2>1. UNCHANGED <<job, arq, rec, todo, exec>>
    BY <1>21 DEF RecoverStale, DisconnectAccount
  <2> QED  BY <2>1, PostsOnly
<1>22. ASSUME NEW j \in JobIds, RetryDue(j)
      PROVE  RowsExist'
  <2>1. \A k \in JobIds : job'[k].status = job[k].status
    BY <1>22 DEF RetryDue, TypeOK, JobRow
  <2>2. UNCHANGED <<post, arq, rec, todo, exec>>
    BY <1>22 DEF RetryDue
  <2> QED  BY <2>1, <2>2, SMTT(40) DEF TypeOK, RecState, ExecState
<1>23. ASSUME LockExpires \/ LockOvertaken
      PROVE  RowsExist'
  BY <1>23 DEF LockExpires, LockOvertaken
<1>24. CASE UNCHANGED vars
  BY <1>24 DEF vars
<1> QED
  BY <1>1, <1>2, <1>3, <1>4, <1>5, <1>6, <1>7, <1>8, <1>9, <1>10, <1>11, <1>12,
       <1>13, <1>14, <1>15, <1>16, <1>17, <1>18, <1>19, <1>20, <1>21, <1>22, <1>23,
       <1>24
     DEF Next, Time, ReconcilePass, Publishing, Legacy, Trouble, Users

\* Every reachable state satisfies RowsExist, whatever the constants.
THEOREM RowsExistAlways == Spec => []RowsExist
<1>1. Init => RowsExist
  BY RowsExistInit
<1>2. TypeOK /\ Assigned /\ RowsExist /\ [Next]_vars => RowsExist'
  BY RowsExistStep
<1> QED
  BY <1>1, <1>2, TypeCorrect, PTL DEF Spec

-----------------------------------------------------------------------------
(* Thread order                                                            *)

\* An id once written to a row is never cleared.
PidsStay == \A p \in Posts : post[p].pid # 0 => post'[p].pid # 0

LEMMA PidsStayStep == TypeOK /\ Assigned /\ TweetsNumbered /\ [Next]_vars => PidsStay
<1> SUFFICES ASSUME TypeOK, Assigned, TweetsNumbered, [Next]_vars
             PROVE  PidsStay
  OBVIOUS
<1> USE DEF TypeOK, PostRow, PidsStay
<1>1. ASSUME NEW i \in Instances, ReconcileClaim(i)
      PROVE  PidsStay
  BY <1>1 DEF ReconcileClaim, Claimed
<1>2. ASSUME NEW i \in Instances, LegacyClaim(i)
      PROVE  PidsStay
  BY <1>2 DEF LegacyClaim, Claimed
<1>3. ASSUME NEW e \in Executors, Save(e)
      PROVE  PidsStay
  <2>1. \A row \in PostRow, x \in ExecState :
          SavedRow(row, x).pid = IF x.result = "published" THEN x.tweet ELSE row.pid
    BY DEF SavedRow
  <2>2. \A p \in Posts : post'[p] = IF p = exec[e].post THEN SavedRow(post[p], exec[e]) ELSE post[p]
    BY <1>3 DEF Save
  <2>3. exec[e].result = "published" => exec[e].tweet # 0
    BY DEF TweetsNumbered
  <2> QED  BY <2>1, <2>2, <2>3
<1>4. ASSUME NEW p \in Posts, NEW status \in PostStatus, NEW due \in When,
             NEW linked \in BOOLEAN,
             PatchPost(p, status, due, linked)
      PROVE  PidsStay
  BY <1>4 DEF PatchPost
<1>5. ASSUME NEW p \in Posts, NEW due \in When, NEW linked \in BOOLEAN,
             CreatePost(p, due, linked)
      PROVE  PidsStay
  BY <1>5 DEF CreatePost, TweetsNumbered
<1>6. ASSUME RecoverStale
      PROVE  PidsStay
  BY <1>6 DEF RecoverStale
<1>7. ASSUME DisconnectAccount
      PROVE  PidsStay
  BY <1>7 DEF DisconnectAccount
<1>8. ASSUME NEW p \in Posts, DeletePost(p)
      PROVE  PidsStay
  BY <1>8 DEF DeletePost
<1>9. ASSUME NEW p \in Posts, SlowPublish(p)
      PROVE  PidsStay
  BY <1>9 DEF SlowPublish
<1>10. ASSUME NEW p \in Posts, GoStale(p)
      PROVE  PidsStay
  BY <1>10 DEF GoStale
<1>11. ASSUME NEW p \in Posts, PostDue(p)
      PROVE  PidsStay
  BY <1>11 DEF PostDue
<1>12. ASSUME UNCHANGED post
      PROVE  PidsStay
  BY <1>12
<1> QED
  BY <1>1, <1>2, <1>3, <1>4, <1>5, <1>6, <1>7, <1>8, <1>9, <1>10, <1>11, <1>12,
     OthersLeavePost

\* The steps in which X creates a tweet.
LEMMA OthersLeaveMade ==
    ASSUME [Next]_vars
    PROVE  UNCHANGED made \/ \E e \in Executors : CallPublishes(e) \/ CallAnswerLost(e)
<1>1. ASSUME NEW p \in Posts,
             PostDue(p) \/ GoStale(p) \/ SlowPublish(p) \/ DeletePost(p)
      PROVE  UNCHANGED made
  BY <1>1 DEF PostDue, GoStale, SlowPublish, DeletePost
<1>2. ASSUME NEW j \in JobIds, RetryDue(j)
      PROVE  UNCHANGED made
  BY <1>2 DEF RetryDue
<1>3. ASSUME \/ LockExpires
             \/ LockOvertaken
             \/ RecoverStale
             \/ DisconnectAccount
      PROVE  UNCHANGED made
  BY <1>3 DEF LockExpires, LockOvertaken, RecoverStale, DisconnectAccount
<1>4. ASSUME NEW i \in Instances,
             \/ ReconcileAcquire(i)
             \/ ReconcileClaim(i)
             \/ ReconcileAbort(i)
             \/ ReconcileMark(i)
             \/ ReconcileMarkFails(i)
             \/ ReconcileRelease(i)
             \/ LegacyClaim(i)
             \/ InstanceCrash(i)
      PROVE  UNCHANGED made
  BY <1>4 DEF ReconcileAcquire, ReconcileClaim, ReconcileAbort, ReconcileMark,
       ReconcileMarkFails, ReconcileRelease, LegacyClaim, InstanceCrash
<1>5. ASSUME NEW i \in Instances, NEW j \in JobIds,
             ReconcileEnqueue(i, j) \/ ReconcileEnqueueFails(i, j)
      PROVE  UNCHANGED made
  BY <1>5 DEF ReconcileEnqueue, ReconcileEnqueueFails
<1>6. ASSUME NEW i \in Instances, NEW p \in Posts, LegacyNext(i, p)
      PROVE  UNCHANGED made
  BY <1>6 DEF LegacyNext
<1>7. ASSUME NEW s \in Slots, NEW j \in JobIds, WorkerStart(s, j)
      PROVE  UNCHANGED made
  BY <1>7 DEF WorkerStart
<1>8. ASSUME NEW s \in Slots, WorkerCrash(s) \/ TaskDies(s)
      PROVE  UNCHANGED made
  BY <1>8 DEF WorkerCrash, TaskDies
<1>9. ASSUME NEW e \in Executors,
             \/ Load(e)
             \/ CallBlocked(e)
             \/ CallFails(e)
             \/ Save(e)
             \/ Report(e)
      PROVE  UNCHANGED made
  BY <1>9 DEF Load, CallBlocked, CallFails, Save, Report
<1>10. ASSUME NEW p \in Posts, NEW due \in When, NEW linked \in BOOLEAN,
             CreatePost(p, due, linked)
      PROVE  UNCHANGED made
  BY <1>10 DEF CreatePost
<1>11. ASSUME NEW p \in Posts, NEW status \in PostStatus, NEW due \in When,
             NEW linked \in BOOLEAN,
             PatchPost(p, status, due, linked)
      PROVE  UNCHANGED made
  BY <1>11 DEF PatchPost
<1>12. CASE UNCHANGED vars
  BY <1>12 DEF vars
<1> QED
  BY <1>1, <1>2, <1>3, <1>4, <1>5, <1>6, <1>7, <1>8, <1>9, <1>10, <1>11, <1>12
     DEF Next, Time, ReconcilePass, Publishing, Legacy, Trouble, Users

\* Only a call whose predecessor has its id makes a tweet.
LEMMA MadeWhenReady ==
    TypeOK /\ Assigned /\ [Next]_vars
      => \A p \in Posts : made'[p] > 0 => made[p] > 0 \/ PredReady(p)
<1> DEFINE Ready == \A p \in Posts : made'[p] > 0 => made[p] > 0 \/ PredReady(p)
<1> SUFFICES ASSUME TypeOK, Assigned, [Next]_vars
             PROVE  Ready
  OBVIOUS
<1>1. ASSUME NEW e \in Executors, CallPublishes(e) \/ CallAnswerLost(e)
      PROVE  Ready
  BY <1>1 DEF CallPublishes, CallAnswerLost, TypeOK
<1> QED  BY <1>1, OthersLeaveMade

\* A post that stays absent keeps the row it does not have.
LEMMA PidsOfAbsent ==
    TypeOK /\ Assigned /\ RowsExist /\ [Next]_vars
      => \A p \in Posts : post'[p].status = "absent" => post'[p].pid = post[p].pid
<1> DEFINE IdsKept == \A p \in Posts : post'[p].status = "absent" => post'[p].pid = post[p].pid
<1> SUFFICES ASSUME TypeOK, Assigned, RowsExist, [Next]_vars
             PROVE  IdsKept
  OBVIOUS
<1> RowsStay
  BY RowsStayStep
<1> USE DEF TypeOK, PostRow
<1>1. ASSUME NEW i \in Instances, ReconcileClaim(i)
      PROVE  IdsKept
  BY <1>1 DEF ReconcileClaim, Claimed
<1>2. ASSUME NEW i \in Instances, LegacyClaim(i)
      PROVE  IdsKept
  BY <1>2 DEF LegacyClaim, Claimed
<1>3. ASSUME NEW e \in Executors, Save(e)
      PROVE  IdsKept
  BY <1>3 DEF Save, RowsStay, RowsExist
<1>4. ASSUME NEW p \in Posts, NEW status \in PostStatus, NEW due \in When,
             NEW linked \in BOOLEAN,
             PatchPost(p, status, due, linked)
      PROVE  IdsKept
  BY <1>4 DEF PatchPost
<1>5. ASSUME NEW p \in Posts, NEW due \in When, NEW linked \in BOOLEAN,
             CreatePost(p, due, linked)
      PROVE  IdsKept
  BY <1>5 DEF CreatePost
<1>6. ASSUME RecoverStale
      PROVE  IdsKept
  BY <1>6 DEF RecoverStale
<1>7. ASSUME DisconnectAccount
      PROVE  IdsKept
  BY <1>7 DEF DisconnectAccount
<1>8. ASSUME NEW p \in Posts, DeletePost(p)
      PROVE  IdsKept
  BY <1>8 DEF DeletePost
<1>9. ASSUME NEW p \in Posts, SlowPublish(p)
      PROVE  IdsKept
  BY <1>9 DEF SlowPublish
<1>10. ASSUME NEW p \in Posts, GoStale(p)
      PROVE  IdsKept
  BY <1>10 DEF GoStale
<1>11. ASSUME NEW p \in Posts, PostDue(p)
      PROVE  IdsKept
  BY <1>11 DEF PostDue
<1>12. ASSUME UNCHANGED post
      PROVE  IdsKept
  BY <1>12
<1> QED
  BY <1>1, <1>2, <1>3, <1>4, <1>5, <1>6, <1>7, <1>8, <1>9, <1>10, <1>11, <1>12,
     OthersLeavePost

LEMMA TweetsNumberedStep ==
    TypeOK /\ Assigned /\ RowsExist /\ TweetsNumbered /\ [Next]_vars => TweetsNumbered'
<1> SUFFICES ASSUME TypeOK, Assigned, RowsExist, TweetsNumbered, [Next]_vars
             PROVE  TweetsNumbered'
  OBVIOUS
<1>1. \A e \in Executors : exec'[e].result = "published" => exec'[e].tweet > 0
  <2> USE DEF TypeOK, TweetsNumbered
  <2> DEFINE Numbered == \A e \in Executors : exec'[e].result = "published" => exec'[e].tweet > 0
  <2>1. ASSUME NEW e \in Executors, CallPublishes(e)
        PROVE  Numbered
    <3>1. made[exec[e].post] \in Nat
      BY <2>1 DEF CallPublishes, Assigned
    <3>2. exec'[e].tweet = made[exec[e].post] + 1
      BY <2>1 DEF CallPublishes, ExecState
    <3> QED  BY <2>1, <3>1, <3>2, CallSteps
  <2>2. ASSUME NEW e \in Executors, CallBlocked(e) \/ CallFails(e) \/ CallAnswerLost(e) \/ Load(e)
        PROVE  Numbered
    <3>1. \/ exec'[e].result # "published"
          \/ exec'[e].result = exec[e].result /\ exec'[e].tweet = exec[e].tweet
      <4> USE ClassifyTyped DEF ExecState
      <4>1. CASE CallBlocked(e)
        BY <4>1 DEF CallBlocked
      <4>2. CASE CallFails(e)
        BY <4>2 DEF CallFails
      <4>3. CASE CallAnswerLost(e)
        BY <4>3 DEF CallAnswerLost
      <4>4. CASE Load(e)
        BY <4>4 DEF Load
      <4> QED  BY <2>2, <4>1, <4>2, <4>3, <4>4
    <3>2. \A d \in Executors : d # e => exec'[d] = exec[d]
      BY <2>2, CallSteps DEF Load
    <3> QED  BY <3>1, <3>2
  <2>3. ASSUME NEW e \in Executors, Save(e)
        PROVE  Numbered
    BY <2>3 DEF Save, NoExec, ExecState
  <2>4. ASSUME NEW e \in Executors, Report(e)
        PROVE  Numbered
    BY <2>4 DEF Report, NoExec
  <2>5. ASSUME NEW s \in Slots, WorkerCrash(s) \/ TaskDies(s)
        PROVE  Numbered
    BY <2>5 DEF WorkerCrash, TaskDies, NoExec
  <2>6. ASSUME NEW i \in Instances, InstanceCrash(i)
        PROVE  Numbered
    BY <2>6 DEF InstanceCrash, NoExec
  <2>7. ASSUME NEW i \in Instances, NEW p \in Posts, LegacyNext(i, p)
        PROVE  Numbered
    BY <2>7 DEF LegacyNext, NoExec
  <2>8. ASSUME NEW s \in Slots, NEW j \in JobIds, WorkerStart(s, j)
        PROVE  Numbered
    BY <2>8 DEF WorkerStart, NoExec
  <2>9. CASE UNCHANGED exec
    BY <2>9
  <2> QED
    BY <2>1, <2>2, <2>3, <2>4, <2>5, <2>6, <2>7, <2>8, <2>9, OthersLeaveExec
<1>2. \A p \in Posts : post'[p].status = "absent" => post'[p].pid = 0
  BY RowsStayStep, PidsOfAbsent DEF RowsStay, TweetsNumbered
<1> QED  BY <1>1, <1>2 DEF TweetsNumbered

\* However passes, workers, recoveries, crashes and user edits interleave, no
\* post of a thread is tweeted before its predecessor's row has the id.
THEOREM ThreadOrderAlways == Spec => []ThreadOrder
<1>1. Init => TweetsNumbered /\ ThreadOrder
  BY DEF Init, TweetsNumbered, ThreadOrder, NoExec, NoPost
<1>2. TypeOK /\ Assigned /\ RowsExist /\ TweetsNumbered /\ ThreadOrder /\ [Next]_vars
        => (TweetsNumbered /\ ThreadOrder)'
  <2> SUFFICES ASSUME TypeOK, Assigned, RowsExist, TweetsNumbered, ThreadOrder, [Next]_vars
               PROVE  TweetsNumbered' /\ ThreadOrder'
    OBVIOUS
  <2>1. PidsStay
    BY PidsStayStep
  <2>2. \A p \in Posts : made'[p] > 0 => made[p] > 0 \/ PredReady(p)
    BY MadeWhenReady
  <2>3. \A p \in Posts : Pred[p] # None => Pred[p] \in Posts
    BY ConstantsAssumption
  <2>4. ThreadOrder'
    BY <2>1, <2>2, <2>3 DEF ThreadOrder, PidsStay, PredReady
  <2> QED  BY <2>4, TweetsNumberedStep
<1> QED
  BY <1>1, <1>2, TypeCorrect, RowsExistAlways, PTL DEF Spec

-----------------------------------------------------------------------------
(* The reconciler lock                                                     *)

LEMMA RunsHoldLockStep ==
    ASSUME "lock_expires" \notin Faults
    PROVE  TypeOK /\ RunsHoldLock /\ [Next]_vars => RunsHoldLock'
<1> SUFFICES ASSUME TypeOK, RunsHoldLock, [Next]_vars
             PROVE  RunsHoldLock'
  OBVIOUS
<1> USE DEF TypeOK, RunsHoldLock, RecState
<1>1. ASSUME LockOvertaken
      PROVE  RunsHoldLock'
  BY <1>1 DEF LockOvertaken, Spend
<1>2. ASSUME LockExpires
      PROVE  RunsHoldLock'
  BY <1>2, ConstantsAssumption DEF LockExpires
<1>3. ASSUME NEW i \in Instances, ReconcileAcquire(i)
      PROVE  RunsHoldLock'
  BY <1>3, ConstantsAssumption DEF ReconcileAcquire, LockIsFree
<1>4. ASSUME NEW i \in Instances, ReconcileAbort(i) \/ ReconcileRelease(i)
      PROVE  RunsHoldLock'
  <2>1. rec[i].pc # "idle" /\ rec' = [rec EXCEPT ![i] = NoRun]
    BY <1>4 DEF ReconcileAbort, ReconcileRelease
  <2>2. \A k \in Instances : k # i => rec[k].pc = "idle"
    BY <2>1
  <2> QED  BY <2>1, <2>2 DEF NoRun
<1>5. ASSUME NEW i \in Instances, InstanceCrash(i)
      PROVE  RunsHoldLock'
  BY <1>5 DEF InstanceCrash, NoRun
<1>6. ASSUME NEW p \in Posts,
             PostDue(p) \/ GoStale(p) \/ SlowPublish(p) \/ DeletePost(p)
      PROVE  RunsHoldLock'
  BY <1>6 DEF PostDue, GoStale, SlowPublish, DeletePost
<1>7. ASSUME NEW j \in JobIds, RetryDue(j)
      PROVE  RunsHoldLock'
  BY <1>7 DEF RetryDue
<1>8. ASSUME RecoverStale \/ DisconnectAccount
      PROVE  RunsHoldLock'
  BY <1>8 DEF RecoverStale, DisconnectAccount
<1>9. ASSUME NEW i \in Instances,
             \/ ReconcileClaim(i)
             \/ ReconcileMark(i)
             \/ ReconcileMarkFails(i)
             \/ LegacyClaim(i)
      PROVE  RunsHoldLock'
  BY <1>9 DEF ReconcileClaim, ReconcileMark, ReconcileMarkFails, LegacyClaim
<1>10. ASSUME NEW i \in Instances, NEW j \in JobIds,
             ReconcileEnqueue(i, j) \/ ReconcileEnqueueFails(i, j)
      PROVE  RunsHoldLock'
  BY <1>10 DEF ReconcileEnqueue, ReconcileEnqueueFails
<1>11. ASSUME NEW i \in Instances, NEW p \in Posts, LegacyNext(i, p)
      PROVE  RunsHoldLock'
  BY <1>11 DEF LegacyNext
<1>12. ASSUME NEW s \in Slots, NEW j \in JobIds, WorkerStart(s, j)
      PROVE  RunsHoldLock'
  BY <1>12 DEF WorkerStart
<1>13. ASSUME NEW s \in Slots, WorkerCrash(s) \/ TaskDies(s)
      PROVE  RunsHoldLock'
  BY <1>13 DEF WorkerCrash, TaskDies
<1>14. ASSUME NEW e \in Executors,
             \/ Load(e)
             \/ CallPublishes(e)
             \/ CallBlocked(e)
             \/ CallFails(e)
             \/ CallAnswerLost(e)
             \/ Save(e)
             \/ Report(e)
      PROVE  RunsHoldLock'
  BY <1>14 DEF Load, CallPublishes, CallBlocked, CallFails, CallAnswerLost, Save, Report
<1>15. ASSUME NEW p \in Posts, NEW due \in When, NEW linked \in BOOLEAN,
             CreatePost(p, due, linked)
      PROVE  RunsHoldLock'
  BY <1>15 DEF CreatePost
<1>16. ASSUME NEW p \in Posts, NEW status \in PostStatus, NEW due \in When,
             NEW linked \in BOOLEAN,
             PatchPost(p, status, due, linked)
      PROVE  RunsHoldLock'
  BY <1>16 DEF PatchPost
<1>17. CASE UNCHANGED vars
  BY <1>17 DEF vars
<1> QED
  BY <1>1, <1>2, <1>3, <1>4, <1>5, <1>6, <1>7, <1>8, <1>9, <1>10, <1>11, <1>12,
       <1>13, <1>14, <1>15, <1>16, <1>17
     DEF Next, Time, ReconcilePass, Publishing, Legacy, Trouble, Users

\* No two reconcile_publish_jobs runs are between acquire and release, as long
\* as none outlives the TTL of the key, whatever else goes wrong.
THEOREM LockExclusionAlways ==
    ASSUME "lock_expires" \notin Faults
    PROVE  Spec => []LockExclusion
<1>1. Init => RunsHoldLock
  BY DEF Init, RunsHoldLock, NoRun
<1>2. TypeOK /\ RunsHoldLock /\ [Next]_vars => RunsHoldLock'
  BY RunsHoldLockStep
<1>3. RunsHoldLock => LockExclusion
  BY DEF RunsHoldLock, LockExclusion
<1> QED
  BY <1>1, <1>2, <1>3, TypeCorrect, PTL DEF Spec

-----------------------------------------------------------------------------
(* One job per post                                                        *)

\* Without user edits a finished post stays finished.
FinishedStays ==
    \A p \in Posts : post[p].status \in Finished => post'[p].status \in Finished

LEMMA FinishedStaysStep ==
    ASSUME "user_edit" \notin Faults
    PROVE  TypeOK /\ Assigned /\ [Next]_vars => FinishedStays
<1> SUFFICES ASSUME TypeOK, Assigned, [Next]_vars
             PROVE  FinishedStays
  OBVIOUS
<1> USE DEF TypeOK, PostRow, FinishedStays, Finished
<1>1. ASSUME NEW i \in Instances, ReconcileClaim(i)
      PROVE  FinishedStays
  BY <1>1 DEF ReconcileClaim, Claimed, DuePosts
<1>2. ASSUME NEW i \in Instances, LegacyClaim(i)
      PROVE  FinishedStays
  BY <1>2 DEF LegacyClaim, Claimed, DuePosts
<1>3. ASSUME NEW e \in Executors, Save(e)
      PROVE  FinishedStays
  <2>1. \A row \in PostRow, x \in ExecState :
          row.status \in Finished => SavedRow(row, x).status \in Finished
    BY DEF SavedRow, OrmWrite
  <2> QED  BY <1>3, <2>1 DEF Save
<1>4. ASSUME NEW p \in Posts, NEW status \in PostStatus, NEW due \in When,
             NEW linked \in BOOLEAN,
             PatchPost(p, status, due, linked)
      PROVE  FinishedStays
  BY <1>4 DEF PatchPost, Spend
<1>5. ASSUME NEW p \in Posts, NEW due \in When, NEW linked \in BOOLEAN,
             CreatePost(p, due, linked)
      PROVE  FinishedStays
  BY <1>5 DEF CreatePost
<1>6. ASSUME RecoverStale
      PROVE  FinishedStays
  BY <1>6 DEF RecoverStale, StalePosts
<1>7. ASSUME DisconnectAccount
      PROVE  FinishedStays
  BY <1>7 DEF DisconnectAccount, Spend
<1>8. ASSUME NEW p \in Posts, DeletePost(p)
      PROVE  FinishedStays
  BY <1>8 DEF DeletePost, Spend
<1>9. ASSUME NEW p \in Posts, SlowPublish(p)
      PROVE  FinishedStays
  BY <1>9 DEF SlowPublish
<1>10. ASSUME NEW p \in Posts, GoStale(p)
      PROVE  FinishedStays
  BY <1>10 DEF GoStale
<1>11. ASSUME NEW p \in Posts, PostDue(p)
      PROVE  FinishedStays
  BY <1>11 DEF PostDue
<1>12. CASE UNCHANGED post
  BY <1>12
<1> QED
  BY <1>1, <1>2, <1>3, <1>4, <1>5, <1>6, <1>7, <1>8, <1>9, <1>10, <1>11, <1>12,
     OthersLeavePost

\* A report follows the commit of its outcome, and what is finished stays so.
LEMMA CallsFollowPostsStep ==
    ASSUME "user_edit" \notin Faults
    PROVE  TypeOK /\ Assigned /\ CallsFollowPosts /\ [Next]_vars => CallsFollowPosts'
<1> SUFFICES ASSUME TypeOK, Assigned, CallsFollowPosts, [Next]_vars
             PROVE  CallsFollowPosts'
  OBVIOUS
<1>0. FinishedStays
  BY FinishedStaysStep
<1>1. ASSUME NEW e \in Executors, Load(e)
      PROVE  CallsFollowPosts'
  <2>1. /\ exec'[e].seen = post[exec[e].post].status
        /\ exec'[e].post = exec[e].post /\ exec'[e].pc # "report"
        /\ \A d \in Executors : d # e => exec'[d] = exec[d]
    BY <1>1 DEF Load, TypeOK, ExecState
  <2>2. UNCHANGED post
    BY <1>1 DEF Load
  <2> QED  BY <2>1, <2>2 DEF CallsFollowPosts
<1>2. ASSUME NEW e \in Executors, CallPublishes(e) \/ CallBlocked(e) \/ CallFails(e)
                                    \/ CallAnswerLost(e)
      PROVE  CallsFollowPosts'
  <2>1. UNCHANGED post
    BY <1>2 DEF CallPublishes, CallBlocked, CallFails, CallAnswerLost
  <2> QED  BY <1>2, <2>1, CallSteps DEF CallsFollowPosts
<1>3. ASSUME NEW e \in Executors, Save(e)
      PROVE  CallsFollowPosts'
  <2> DEFINE p == exec[e].post
  <2>1. p \in Posts /\ exec[e] \in ExecState /\ post[p] \in PostRow
    BY <1>3 DEF Save, Assigned, TypeOK
  <2>2. SavedRow(post[p], exec[e]).status \in Finished
    BY <2>1 DEF CallsFollowPosts, SavedRow, OrmWrite, Finished, ExecState, PostRow
  <2>3. post'[p].status \in Finished
    BY <1>3, <2>1, <2>2 DEF Save, TypeOK
  <2>4. /\ exec'[e] = NoExec \/ exec'[e].post = p
        /\ \A d \in Executors : d # e => exec'[d] = exec[d]
    BY <1>3 DEF Save, TypeOK, ExecState
  <2>5. \A d \in Executors :
          exec[d].seen \in Finished \/ exec[d].pc = "report" => exec[d].post \in Posts
    BY DEF Assigned, NoExec, Finished
  <2> QED  BY <1>0, <2>3, <2>4, <2>5 DEF CallsFollowPosts, FinishedStays, NoExec, Finished
<1>4. ASSUME NEW e \in Executors, Report(e)
      PROVE  CallsFollowPosts'
  BY <1>4 DEF Report, CallsFollowPosts, TypeOK, NoExec, Finished
<1>5. ASSUME NEW s \in Slots, WorkerCrash(s) \/ TaskDies(s)
      PROVE  CallsFollowPosts'
  BY <1>5 DEF WorkerCrash, TaskDies, CallsFollowPosts, TypeOK, NoExec, Finished
<1>6. ASSUME NEW i \in Instances, InstanceCrash(i)
      PROVE  CallsFollowPosts'
  BY <1>6 DEF InstanceCrash, CallsFollowPosts, TypeOK, NoExec, Finished
<1>7. ASSUME NEW i \in Instances, NEW p \in Posts, LegacyNext(i, p)
      PROVE  CallsFollowPosts'
  BY <1>7 DEF LegacyNext, CallsFollowPosts, TypeOK, NoExec, Finished
<1>8. ASSUME NEW s \in Slots, NEW j \in JobIds, WorkerStart(s, j)
      PROVE  CallsFollowPosts'
  BY <1>8 DEF WorkerStart, CallsFollowPosts, TypeOK, NoExec, Finished
<1>9. CASE UNCHANGED exec
  BY <1>0, <1>9 DEF CallsFollowPosts, FinishedStays, Assigned, NoExec, Finished
<1> QED
  BY <1>1, <1>2, <1>3, <1>4, <1>5, <1>6, <1>7, <1>8, <1>9, OthersLeaveExec

\* The steps that write to the table job_queue.
LEMMA OthersLeaveJob ==
    ASSUME [Next]_vars
    PROVE  \/ UNCHANGED job
           \/ \E k \in JobIds : RetryDue(k)
           \/ \E i \in Instances : ReconcileClaim(i) \/ ReconcileMark(i)
           \/ \E s \in Slots, k \in JobIds : WorkerStart(s, k)
           \/ \E e \in Executors : Report(e)
<1>1. ASSUME Time \/ RecoverStale \/ LockOvertaken \/ UNCHANGED vars
      PROVE  UNCHANGED job \/ \E k \in JobIds : RetryDue(k)
  BY <1>1 DEF Time, PostDue, GoStale, LockExpires, LockOvertaken, RecoverStale, vars
<1>2. ASSUME NEW i \in Instances,
             \/ ReconcileAcquire(i) \/ ReconcileAbort(i) \/ ReconcileMarkFails(i)
             \/ ReconcileRelease(i) \/ InstanceCrash(i) \/ Legacy(i)
      PROVE  UNCHANGED job
  BY <1>2 DEF ReconcileAcquire, ReconcileAbort, ReconcileMarkFails, ReconcileRelease,
       InstanceCrash, Legacy, LegacyClaim, LegacyNext
<1>3. ASSUME NEW i \in Instances, NEW k \in JobIds,
             ReconcileEnqueue(i, k) \/ ReconcileEnqueueFails(i, k)
      PROVE  UNCHANGED job
  BY <1>3 DEF ReconcileEnqueue, ReconcileEnqueueFails
<1>4. ASSUME NEW s \in Slots, WorkerCrash(s) \/ TaskDies(s)
      PROVE  UNCHANGED job
  BY <1>4 DEF WorkerCrash, TaskDies
<1>5. ASSUME NEW e \in Executors,
             \/ Load(e) \/ CallPublishes(e) \/ CallBlocked(e) \/ CallFails(e)
             \/ CallAnswerLost(e) \/ Save(e)
      PROVE  UNCHANGED job
  BY <1>5 DEF Load, CallPublishes, CallBlocked, CallFails, CallAnswerLost, Save
<1>6. ASSUME Users \/ \E p \in Posts : SlowPublish(p)
      PROVE  UNCHANGED job
  BY <1>6 DEF Users, CreatePost, PatchPost, DeletePost, DisconnectAccount, SlowPublish
<1> QED
  BY <1>1, <1>2, <1>3, <1>4, <1>5, <1>6 DEF Next, ReconcilePass, Publishing, Trouble

\* Which steps give a job a status, and which status.
LEMMA JobSteps ==
    ASSUME TypeOK, Assigned, RowsExist, [Next]_vars, NEW j \in JobIds,
           job'[j].status # job[j].status
    PROVE  \/ job'[j].status \in {"queued", "running"} /\ job[j].status # "absent"
           \/ /\ job'[j].status = "queued" /\ j \in NewJobs
              /\ \E i \in Instances : ReconcileClaim(i)
           \/ /\ job[j].status # "absent"
              /\ \E s \in Slots : exec[s].pc = "report" /\ exec[s].job = j
<1> DEFINE Explained ==
             \/ job'[j].status \in {"queued", "running"} /\ job[j].status # "absent"
             \/ /\ job'[j].status = "queued" /\ j \in NewJobs
                /\ \E i \in Instances : ReconcileClaim(i)
             \/ /\ job[j].status # "absent"
                /\ \E s \in Slots : exec[s].pc = "report" /\ exec[s].job = j
<1> SUFFICES Explained
  OBVIOUS
<1> USE DEF TypeOK, JobRow
<1>1. ASSUME NEW i \in Instances, ReconcileClaim(i)
      PROVE  Explained
  BY <1>1 DEF ReconcileClaim, CreateQueuedJob, NoJob
<1>2. ASSUME NEW i \in Instances, ReconcileMark(i)
      PROVE  Explained
  BY <1>2 DEF ReconcileMark, MarkEnqueued, RowsExist
<1>3. ASSUME NEW k \in JobIds, RetryDue(k)
      PROVE  Explained
  BY <1>3 DEF RetryDue
<1>4. ASSUME NEW s \in Slots, NEW k \in JobIds, WorkerStart(s, k)
      PROVE  Explained
  BY <1>4 DEF WorkerStart, MarkRunning, RowsExist
<1>5. ASSUME NEW e \in Executors, Report(e)
      PROVE  Explained
  <2>1. exec[e].job = j
    BY <1>5 DEF Report
  <2>2. e \in Slots /\ job[j].status # "absent"
    BY <2>1, ConstantsAssumption DEF Assigned, Executors, RowsExist, JobIds
  <2> QED  BY <1>5, <2>1, <2>2 DEF Report
<1> QED
  BY <1>1, <1>2, <1>3, <1>4, <1>5, OthersLeaveJob

LEMMA JobsOpenStep ==
    ASSUME "user_edit" \notin Faults
    PROVE  TypeOK /\ Assigned /\ RowsExist /\ CallsFollowPosts /\ JobsOpen /\ [Next]_vars
             => JobsOpen'
<1> SUFFICES ASSUME TypeOK, Assigned, RowsExist, CallsFollowPosts, JobsOpen, [Next]_vars,
                    NEW j \in JobIds, post'[PostOf(j)].status \notin Finished
             PROVE  job'[j].status \in {"absent", "queued", "running"}
  BY DEF JobsOpen
<1>1. post[PostOf(j)].status \notin Finished
  BY FinishedStaysStep DEF FinishedStays, JobIds, PostOf
<1>2. job[j].status \in {"absent", "queued", "running"}
  BY <1>1 DEF JobsOpen
<1>3. ~ \E s \in Slots : exec[s].pc = "report" /\ exec[s].job = j
  BY <1>1 DEF CallsFollowPosts, Assigned, Executors
<1> QED  BY <1>2, <1>3, JobSteps

\* Two rows that are both the first free one of a post are the same.
LEMMA FreshJobUnique ==
    ASSUME NEW p \in Posts, NEW j \in FreshJobs(p), NEW k \in FreshJobs(p)
    PROVE  j = k
<1>1. j \in JobIds /\ k \in JobIds /\ j[1] = p /\ k[1] = p
  BY DEF FreshJobs, PostOf
<1>2. j[2] \in Nat /\ k[2] \in Nat /\ j = <<j[1], j[2]>> /\ k = <<k[1], k[2]>>
  BY <1>1, ConstantsAssumption DEF JobIds
<1>3. ~(k[2] < j[2]) /\ ~(j[2] < k[2])
  BY <1>1 DEF FreshJobs, PostOf
<1>4. j[2] = k[2]
  BY <1>2, <1>3
<1> QED  BY <1>1, <1>2, <1>4

LEMMA OneJobPerPostStep ==
    ASSUME TypeOK, Assigned, RowsExist, JobsOpen, OneJobPerPost, [Next]_vars
    PROVE  OneJobPerPost'
<1> SUFFICES ASSUME NEW j \in JobIds, NEW k \in JobIds, PostOf(j) = PostOf(k),
                    job'[j].status # "absent", job'[k].status # "absent"
             PROVE  j = k
  BY DEF OneJobPerPost
<1>1. ASSUME NEW x \in JobIds, job[x].status = "absent", job'[x].status # "absent"
      PROVE  x \in NewJobs
  BY <1>1, JobSteps
<1>2. ASSUME NEW x \in NewJobs, NEW y \in JobIds, PostOf(x) = PostOf(y)
      PROVE  job[y].status = "absent"
  <2>1. PostOf(x) \in DuePosts /\ OpenJobs(PostOf(x)) = {}
    BY NewJobsFresh
  <2>2. job[y].status \in {"absent", "queued", "running"}
    BY <1>2, <2>1 DEF JobsOpen, DuePosts, Finished
  <2>3. ~IsOpen(job[y])
    BY <1>2, <2>1 DEF OpenJobs
  <2> QED  BY <2>2, <2>3 DEF IsOpen
<1>3. CASE j \in NewJobs \/ k \in NewJobs
  <2>1. job[j].status = "absent" /\ job[k].status = "absent"
    BY <1>2, <1>3
  <2>2. j \in NewJobs /\ k \in NewJobs
    BY <1>1, <2>1
  <2> QED  BY <2>2, NewJobsFresh, FreshJobUnique DEF DuePosts
<1>4. CASE j \notin NewJobs /\ k \notin NewJobs
  BY <1>1, <1>4 DEF OneJobPerPost
<1> QED  BY <1>3, <1>4

LEMMA JobInvariant ==
    ASSUME "user_edit" \notin Faults
    PROVE  Spec => [](CallsFollowPosts /\ JobsOpen /\ OneJobPerPost)
<1>1. Init => CallsFollowPosts /\ JobsOpen /\ OneJobPerPost
  BY DEF Init, CallsFollowPosts, JobsOpen, OneJobPerPost, NoExec, NoJob, Finished
<1>2. TypeOK /\ Assigned /\ RowsExist /\ CallsFollowPosts /\ JobsOpen /\ OneJobPerPost
        /\ [Next]_vars => (CallsFollowPosts /\ JobsOpen /\ OneJobPerPost)'
  BY CallsFollowPostsStep, JobsOpenStep, OneJobPerPostStep
<1> QED
  BY <1>1, <1>2, TypeCorrect, RowsExistAlways, PTL DEF Spec

\* While no user edits posts, recoveries, retries, crashes and overlapping
\* passes never lead to a second publish job of a post.
THEOREM OneJobPerPostAlways ==
    ASSUME "user_edit" \notin Faults
    PROVE  Spec => []OneJobPerPost
<1>1. CallsFollowPosts /\ JobsOpen /\ OneJobPerPost => OneJobPerPost
  OBVIOUS
<1> QED
  BY <1>1, JobInvariant, PTL

-----------------------------------------------------------------------------
(* A publishing post has a job that is not over                            *)

\* Only a claim makes a post publishing when users do not, and the claim of
\* the reconciler leaves it with a job.
LEMMA PublishingSteps ==
    ASSUME "user_edit" \notin Faults, ~EnableLegacy,
           TypeOK, Assigned, [Next]_vars, NEW p \in Posts,
           post'[p].status = "publishing"
    PROVE  \/ post[p].status = "publishing"
           \/ p \in DuePosts /\ \E i \in Instances : ReconcileClaim(i)
<1> DEFINE Before == post[p].status = "publishing"
<1> USE DEF TypeOK, PostRow
<1>1. ASSUME NEW i \in Instances, ReconcileClaim(i)
      PROVE  Before \/ p \in DuePosts
  BY <1>1 DEF ReconcileClaim, Claimed
<1>2. ASSUME NEW i \in Instances, LegacyClaim(i)
      PROVE  Before
  BY <1>2 DEF LegacyClaim
<1>3. ASSUME NEW e \in Executors, Save(e)
      PROVE  Before
  <2>1. \A row \in PostRow, x \in ExecState :
          SavedRow(row, x).status = "publishing" => row.status = "publishing"
    BY DEF SavedRow, OrmWrite
  <2>2. exec[e] \in ExecState /\ exec[e].post \in Posts
    BY <1>3 DEF Save, Assigned
  <2> QED  BY <1>3, <2>1, <2>2 DEF Save
<1>4. ASSUME NEW q \in Posts, NEW status \in PostStatus, NEW due \in When,
             NEW linked \in BOOLEAN,
             PatchPost(q, status, due, linked)
      PROVE  Before
  BY <1>4 DEF PatchPost, Spend
<1>5. ASSUME NEW q \in Posts, NEW due \in When, NEW linked \in BOOLEAN,
             CreatePost(q, due, linked)
      PROVE  Before
  BY <1>5 DEF CreatePost
<1>6. ASSUME DisconnectAccount \/ \E q \in Posts : DeletePost(q)
      PROVE  Before
  BY <1>6 DEF DisconnectAccount, DeletePost, Spend
<1>7. ASSUME RecoverStale
      PROVE  Before
  BY <1>7 DEF RecoverStale, StalePosts
<1>8. ASSUME NEW q \in Posts, PostDue(q) \/ GoStale(q) \/ SlowPublish(q)
      PROVE  Before
  <2>1. CASE PostDue(q)
    BY <2>1 DEF PostDue
  <2>2. CASE GoStale(q)
    BY <2>2 DEF GoStale
  <2>3. CASE SlowPublish(q)
    BY <2>3 DEF SlowPublish
  <2> QED  BY <1>8, <2>1, <2>2, <2>3
<1>9. ASSUME UNCHANGED post
      PROVE  Before
  BY <1>9
<1>10. CASE \E i \in Instances : ReconcileClaim(i)
  BY <1>1, <1>10
<1>11. CASE ~ \E i \in Instances : ReconcileClaim(i)
  <2>1. Before
    BY <1>2, <1>3, <1>4, <1>5, <1>6, <1>7, <1>8, <1>9, <1>11, OthersLeavePost
  <2> QED  BY <2>1
<1> QED  BY <1>10, <1>11

LEMMA ClaimedHasJob ==
    ASSUME TypeOK, NEW i \in Instances, ReconcileClaim(i), NEW p \in DuePosts
    PROVE  \E j \in JobIds : PostOf(j) = p /\ job'[j].status # "absent"
<1>1. p \in Posts
  BY DEF DuePosts
<1>2. CASE OpenJobs(p) # {}
  <2>1. PICK j \in JobIds : PostOf(j) = p /\ IsOpen(job[j])
    BY <1>2 DEF OpenJobs
  <2>2. job'[j].status # "absent"
    BY <2>1 DEF ReconcileClaim, CreateQueuedJob, NoJob, IsOpen
  <2> QED  BY <2>1, <2>2
<1>3. CASE OpenJobs(p) = {}
  <2>1. PICK j \in FreshJobs(p) : TRUE
    BY <1>3 DEF ReconcileClaim
  <2>2. j \in JobIds /\ PostOf(j) = p
    BY <2>1 DEF FreshJobs
  <2>3. j \in NewJobs
    BY <1>1, <1>3, <2>1 DEF NewJobs
  <2>4. job'[j].status # "absent"
    BY <2>2, <2>3 DEF ReconcileClaim, CreateQueuedJob, NoJob
  <2> QED  BY <2>2, <2>4
<1> QED  BY <1>2, <1>3

LEMMA PublishingHasJobStep ==
    ASSUME "user_edit" \notin Faults, ~EnableLegacy
    PROVE  TypeOK /\ Assigned /\ PublishingHasJob /\ [Next]_vars => PublishingHasJob'
<1> SUFFICES ASSUME TypeOK, Assigned, PublishingHasJob, [Next]_vars,
                    NEW p \in Posts, post'[p].status = "publishing"
             PROVE  \E j \in JobIds : PostOf(j) = p /\ job'[j].status # "absent"
  BY DEF PublishingHasJob
<1>1. CASE post[p].status = "publishing"
  BY <1>1, RowsStayStep DEF PublishingHasJob, RowsStay
<1>2. CASE p \in DuePosts /\ \E i \in Instances : ReconcileClaim(i)
  BY <1>2, ClaimedHasJob
<1> QED  BY <1>1, <1>2, PublishingSteps

\* With the reconciler alone and no user edits, a post that shows publishing
\* always has an open job, so that the recovery leads back to that job:
\* whatever crashes, expires or is delivered twice on the way.
THEOREM PublishingHasOpenJobAlways ==
    ASSUME "user_edit" \notin Faults, ~EnableLegacy
    PROVE  Spec => []PublishingHasOpenJob
<1>1. Init => PublishingHasJob
  BY DEF Init, PublishingHasJob, NoPost
<1>2. TypeOK /\ Assigned /\ PublishingHasJob /\ [Next]_vars => PublishingHasJob'
  BY PublishingHasJobStep
<1>3. PublishingHasJob /\ JobsOpen => PublishingHasOpenJob
  BY DEF PublishingHasJob, JobsOpen, PublishingHasOpenJob, OpenJobs, IsOpen, Finished
<1>4. CallsFollowPosts /\ JobsOpen /\ OneJobPerPost => JobsOpen
  OBVIOUS
<1> QED
  BY <1>1, <1>2, <1>3, <1>4, TypeCorrect, JobInvariant, PTL DEF Spec

-----------------------------------------------------------------------------
(* The key of the lock                                                     *)

\* A run that holds the key keeps it until it ends or a fault takes the key.
LEMMA LockSteps ==
    ASSUME TypeOK, [Next]_vars, NEW i \in Instances,
           lock = i, rec[i].pc # "idle", lock' # i
    PROVE  rec'[i].pc = "idle" \/ (lock' = None /\ faults' > faults)
<1> DEFINE Fair == rec'[i].pc = "idle" \/ (lock' = None /\ faults' > faults)
<1> USE DEF TypeOK
<1>1. ASSUME NEW k \in Instances, ReconcileAcquire(k)
      PROVE  FALSE
  BY <1>1, ConstantsAssumption DEF ReconcileAcquire, LockIsFree
<1>2. ASSUME NEW k \in Instances, ReconcileAbort(k) \/ ReconcileRelease(k)
      PROVE  Fair
  BY <1>2 DEF ReconcileAbort, ReconcileRelease, HoldsLock, NoRun
<1>3. CASE LockExpires
  BY <1>3 DEF LockExpires
<1>4. CASE LockOvertaken
  BY <1>4, ConstantsAssumption DEF LockOvertaken, Spend
<1>5. ASSUME NEW k \in Instances,
             \/ ReconcileClaim(k) \/ ReconcileMark(k) \/ ReconcileMarkFails(k)
             \/ InstanceCrash(k) \/ Legacy(k)
      PROVE  UNCHANGED lock
  BY <1>5 DEF ReconcileClaim, ReconcileMark, ReconcileMarkFails, InstanceCrash, Legacy,
       LegacyClaim, LegacyNext
<1>6. ASSUME NEW k \in Instances, NEW j \in JobIds,
             ReconcileEnqueue(k, j) \/ ReconcileEnqueueFails(k, j)
      PROVE  UNCHANGED lock
  BY <1>6 DEF ReconcileEnqueue, ReconcileEnqueueFails
<1>7. ASSUME NEW e \in Executors, Publishing(e) \/ CallAnswerLost(e)
      PROVE  UNCHANGED lock
  BY <1>7 DEF Publishing, Load, CallPublishes, CallBlocked, CallFails, Save, Report,
       CallAnswerLost
<1>8. ASSUME NEW s \in Slots,
             WorkerCrash(s) \/ TaskDies(s) \/ \E j \in JobIds : WorkerStart(s, j)
      PROVE  UNCHANGED lock
  BY <1>8 DEF WorkerCrash, TaskDies, WorkerStart
<1>9. ASSUME NEW p \in Posts, PostDue(p) \/ GoStale(p) \/ SlowPublish(p)
      PROVE  UNCHANGED lock
  BY <1>9 DEF PostDue, GoStale, SlowPublish
<1>10. ASSUME NEW j \in JobIds, RetryDue(j)
      PROVE  UNCHANGED lock
  BY <1>10 DEF RetryDue
<1>11. ASSUME RecoverStale \/ Users \/ UNCHANGED vars
      PROVE  UNCHANGED lock
  BY <1>11 DEF RecoverStale, Users, CreatePost, PatchPost, DeletePost, DisconnectAccount, vars
<1> QED
  BY <1>1, <1>2, <1>3, <1>4, <1>5, <1>6, <1>7, <1>8, <1>9, <1>10, <1>11
     DEF Next, Time, ReconcilePass, Trouble

\* Whoever releases the lock, expires it or dies: a run that got the key has
\* it until its own end, or until a fault made the key reach its TTL.
THEOREM LockNeverStolen == Spec => LockNotStolen
<1>1. TypeOK /\ [Next]_vars =>
        [\A i \in Instances :
           lock = i /\ rec[i].pc # "idle" /\ lock' # i
             => rec'[i].pc = "idle" \/ (lock' = None /\ faults' > faults)]_vars
  BY LockSteps
<1> QED
  BY <1>1, TypeCorrect, PTL DEF Spec, LockNotStolen

-----------------------------------------------------------------------------
(* Deleted posts                                                           *)

\* A row has to exist to be deleted.
DeletedExist == \A p \in Posts : post[p].deleted = TRUE => post[p].status # "absent"

LEMMA DeletedExistStep == TypeOK /\ Assigned /\ DeletedExist /\ [Next]_vars => DeletedExist'
<1> SUFFICES ASSUME TypeOK, Assigned, DeletedExist, [Next]_vars, NEW p \in Posts,
                    post'[p].deleted = TRUE
             PROVE  post[p].status # "absent"
  BY RowsStayStep DEF DeletedExist, RowsStay
<1> DEFINE Before == post[p].deleted = TRUE \/ post[p].status # "absent"
<1> SUFFICES Before
  BY DEF DeletedExist
<1> USE DEF TypeOK, PostRow
<1>1. ASSUME NEW q \in Posts, PostDue(q) \/ GoStale(q) \/ SlowPublish(q)
      PROVE  Before
  <2>1. CASE PostDue(q)
    BY <2>1 DEF PostDue
  <2>2. CASE GoStale(q) \/ SlowPublish(q)
    BY <2>2 DEF GoStale, SlowPublish
  <2> QED  BY <1>1, <2>1, <2>2
<1>2. ASSUME RecoverStale
      PROVE  Before
  BY <1>2 DEF RecoverStale
<1>3. ASSUME NEW i \in Instances, ReconcileClaim(i) \/ LegacyClaim(i)
      PROVE  Before
  <2>1. post' = Claimed(DuePosts)
    BY <1>3 DEF ReconcileClaim, LegacyClaim
  <2> QED  BY <2>1, ZenonT(60) DEF Claimed
<1>4. ASSUME NEW e \in Executors, Save(e)
      PROVE  Before
  <2>1. PICK q \in Posts : post' = [post EXCEPT ![q] = SavedRow(post[q], exec[e])]
    BY <1>4 DEF Save, Assigned
  <2> QED  BY <2>1 DEF SavedRow
<1>5. ASSUME NEW q \in Posts, DeletePost(q)
      PROVE  Before
  BY <1>5 DEF DeletePost
<1>6. ASSUME DisconnectAccount
      PROVE  Before
  BY <1>6 DEF DisconnectAccount
<1>7. ASSUME NEW q \in Posts, NEW due \in When, NEW linked \in BOOLEAN, CreatePost(q, due, linked)
      PROVE  Before
  BY <1>7 DEF CreatePost, NoPost
<1>8. ASSUME NEW q \in Posts, NEW status \in PostStatus, NEW due \in When,
             NEW linked \in BOOLEAN, PatchPost(q, status, due, linked)
      PROVE  Before
  BY <1>8 DEF PatchPost
<1>9. CASE UNCHANGED post
  BY <1>9
<1> HIDE DEF Before, TypeOK, PostRow
<1> QED  BY <1>1, <1>2, <1>3, <1>4, <1>5, <1>6, <1>7, <1>8, <1>9, OthersLeavePost

\* Nobody who has nothing to do with an untouched post gets hold of it.
LEMMA UntouchedStep ==
    ASSUME TypeOK, Assigned, RowsExist, DeletedExist, [Next]_vars, NEW p \in Posts, Untouched(p)
    PROVE  Untouched(p)'
<1> USE DEF TypeOK
<1>0. /\ post[p].deleted = TRUE /\ post[p].status \notin {"absent", "publishing"}
      /\ p \notin DuePosts /\ p \notin StalePosts
      /\ \A j \in JobIds : PostOf(j) = p => job[j].status = "absent" /\ arq[j] = 0
      /\ \A e \in Executors : exec[e].post # p
      /\ \A i \in Instances : p \notin todo[i] /\ \A j \in rec[i].items : PostOf(j) # p
  BY DEF Untouched, Orphaned, DuePosts, StalePosts, PostRow, DeletedExist
<1>1. post'[p].deleted = TRUE /\ post'[p].status # "publishing"
  <2> DEFINE Left == post'[p].deleted = TRUE /\ post'[p].status # "publishing"
  <2> SUFFICES Left
    OBVIOUS
  <2> USE DEF PostRow
  <2>1. ASSUME NEW q \in Posts, PostDue(q) \/ GoStale(q) \/ SlowPublish(q)
        PROVE  Left
    <3>1. CASE PostDue(q)
      BY <1>0, <3>1 DEF PostDue
    <3>2. CASE GoStale(q) \/ SlowPublish(q)
      BY <1>0, <3>2 DEF GoStale, SlowPublish
    <3> QED  BY <2>1, <3>1, <3>2
  <2>2. ASSUME RecoverStale
        PROVE  Left
    BY <1>0, <2>2 DEF RecoverStale
  <2>3. ASSUME NEW i \in Instances, ReconcileClaim(i) \/ LegacyClaim(i)
        PROVE  Left
    <3>1. post' = Claimed(DuePosts)
      BY <2>3 DEF ReconcileClaim, LegacyClaim
    <3>2. post'[p] = post[p]
      BY <1>0, <3>1 DEF Claimed
    <3> QED  BY <1>0, <3>2
  <2>4. ASSUME NEW e \in Executors, Save(e)
        PROVE  Left
    <3>1. post'[p] = post[p]
      BY <1>0, <2>4 DEF Save, Assigned
    <3> QED  BY <1>0, <3>1
  <2>5. ASSUME NEW q \in Posts, DeletePost(q)
        PROVE  Left
    BY <1>0, <2>5 DEF DeletePost
  <2>6. ASSUME DisconnectAccount
        PROVE  Left
    BY <1>0, <2>6 DEF DisconnectAccount
  <2>7. ASSUME NEW q \in Posts, NEW due \in When, NEW linked \in BOOLEAN,
               CreatePost(q, due, linked)
        PROVE  Left
    BY <1>0, <2>7 DEF CreatePost
  <2>8. ASSUME NEW q \in Posts, NEW status \in PostStatus, NEW due \in When,
               NEW linked \in BOOLEAN, PatchPost(q, status, due, linked)
        PROVE  Left
    BY <1>0, <2>8 DEF PatchPost
  <2>9. CASE UNCHANGED post
    BY <1>0, <2>9
  <2> HIDE DEF Left, TypeOK, PostRow
  <2> QED  BY <2>1, <2>2, <2>3, <2>4, <2>5, <2>6, <2>7, <2>8, <2>9, OthersLeavePost
<1>2. ASSUME NEW j \in JobIds, PostOf(j) = p
      PROVE  job'[j].status = "absent"
  <2> DEFINE NoRow == job'[j].status = "absent"
  <2> USE DEF JobRow
  <2>1. ASSUME NEW k \in JobIds, RetryDue(k)
        PROVE  NoRow
    BY <1>0, <1>2, <2>1 DEF RetryDue
  <2>2. ASSUME NEW i \in Instances, ReconcileClaim(i)
        PROVE  NoRow
    BY <1>0, <1>2, <2>2, NewJobsFresh DEF ReconcileClaim
  <2>3. ASSUME NEW i \in Instances, ReconcileMark(i)
        PROVE  NoRow
    BY <1>0, <1>2, <2>3 DEF ReconcileMark, RowsExist
  <2>4. ASSUME NEW s \in Slots, NEW k \in JobIds, WorkerStart(s, k)
        PROVE  NoRow
    BY <1>0, <1>2, <2>4 DEF WorkerStart
  <2>5. ASSUME NEW e \in Executors, Report(e)
        PROVE  NoRow
    <3>1. exec[e].job # j
      BY <1>0, <1>2, ConstantsAssumption DEF RowsExist, JobIds
    <3> QED  BY <1>0, <1>2, <2>5, <3>1 DEF Report
  <2>6. CASE UNCHANGED job
    BY <1>0, <1>2, <2>6
  <2> QED  BY <2>1, <2>2, <2>3, <2>4, <2>5, <2>6, OthersLeaveJob
<1>3. ASSUME NEW e \in Executors
      PROVE  exec'[e].post # p
  <2> DEFINE Away == exec'[e].post # p
  <2> USE DEF ExecState
  <2>0. p # None
    BY ConstantsAssumption
  <2>1. ASSUME NEW s \in Slots, NEW j \in JobIds, WorkerStart(s, j)
        PROVE  Away
    BY <1>0, <2>1 DEF WorkerStart, NoExec
  <2>2. ASSUME NEW d \in Executors, Load(d)
        PROVE  Away
    <3>1. exec'[d].post = exec[d].post /\ \A c \in Executors : c # d => exec'[c] = exec[c]
      BY <2>2 DEF Load
    <3> QED  BY <1>0, <3>1
  <2>3. ASSUME NEW d \in Executors,
               CallPublishes(d) \/ CallBlocked(d) \/ CallFails(d) \/ CallAnswerLost(d)
        PROVE  Away
    BY <1>0, <2>3, CallSteps
  <2>4. ASSUME NEW d \in Executors, Save(d) \/ Report(d)
        PROVE  Away
    BY <1>0, <2>0, <2>4 DEF Save, Report, NoExec
  <2>5. ASSUME NEW s \in Slots, WorkerCrash(s) \/ TaskDies(s)
        PROVE  Away
    BY <1>0, <2>0, <2>5 DEF WorkerCrash, TaskDies, NoExec
  <2>6. ASSUME NEW i \in Instances, InstanceCrash(i)
        PROVE  Away
    BY <1>0, <2>0, <2>6 DEF InstanceCrash, NoExec
  <2>7. ASSUME NEW i \in Instances, NEW q \in Posts, LegacyNext(i, q)
        PROVE  Away
    BY <1>0, <2>7 DEF LegacyNext, NoExec
  <2>8. CASE UNCHANGED exec
    BY <1>0, <2>8
  <2> QED  BY <2>1, <2>2, <2>3, <2>4, <2>5, <2>6, <2>7, <2>8, OthersLeaveExec
<1>4. /\ \A j \in JobIds : PostOf(j) = p => arq'[j] = 0
      /\ \A i \in Instances : p \notin todo'[i] /\ \A j \in rec'[i].items : PostOf(j) # p
  <2> DEFINE Quiet ==
        /\ \A j \in JobIds : PostOf(j) = p => arq'[j] = 0
        /\ \A i \in Instances : p \notin todo'[i] /\ \A j \in rec'[i].items : PostOf(j) # p
  <2> USE DEF RecState
  <2>1. ASSUME NEW i \in Instances, ReconcileClaim(i)
        PROVE  Quiet
    <3>1. \A j \in QueueItems : PostOf(j) # p
      <4> SUFFICES ASSUME NEW j \in QueueItems, PostOf(j) = p
                   PROVE  FALSE
        OBVIOUS
      <4>1. CASE j \in NewJobs
        BY <1>0, <4>1, NewJobsFresh
      <4>2. CASE j \in UNION {OpenJobs(q) : q \in DuePosts}
        BY <1>0, <4>2 DEF OpenJobs
      <4>3. CASE j \in RetryableJobs
        BY <1>0, <4>3 DEF RetryableJobs, IsRetryable
      <4> QED  BY <4>1, <4>2, <4>3 DEF QueueItems
    <3> QED  BY <1>0, <2>1, <3>1 DEF ReconcileClaim
  <2>2. ASSUME NEW i \in Instances,
               \/ ReconcileAcquire(i) \/ ReconcileAbort(i) \/ ReconcileMark(i)
               \/ ReconcileMarkFails(i) \/ ReconcileRelease(i)
        PROVE  Quiet
    <3>1. UNCHANGED <<arq, todo>>
      BY <2>2 DEF ReconcileAcquire, ReconcileAbort, ReconcileMark, ReconcileMarkFails,
           ReconcileRelease
    <3>2. \A k \in Instances : rec'[k].items \subseteq rec[k].items
      <4>1. CASE ReconcileAcquire(i)
        BY <4>1 DEF ReconcileAcquire
      <4>2. CASE ReconcileAbort(i) \/ ReconcileRelease(i)
        BY <4>2 DEF ReconcileAbort, ReconcileRelease, NoRun
      <4>3. CASE ReconcileMark(i) \/ ReconcileMarkFails(i)
        <5>1. rec' = [rec EXCEPT ![i] = [rec[i] EXCEPT !.pc = "loop", !.cur = None]]
          BY <4>3 DEF ReconcileMark, ReconcileMarkFails
        <5> QED  BY <5>1
      <4> QED  BY <2>2, <4>1, <4>2, <4>3
    <3> QED  BY <1>0, <3>1, <3>2
  <2>3. ASSUME NEW i \in Instances, NEW k \in JobIds,
               ReconcileEnqueue(i, k) \/ ReconcileEnqueueFails(i, k)
        PROVE  Quiet
    <3>1. UNCHANGED todo /\ k \in rec[i].items
      BY <2>3 DEF ReconcileEnqueue, ReconcileEnqueueFails
    <3>2. \A j \in JobIds : PostOf(j) = p => arq'[j] = arq[j]
      BY <1>0, <2>3, <3>1 DEF ReconcileEnqueue, ReconcileEnqueueFails
    <3>3. \A h \in Instances : rec'[h].items \subseteq rec[h].items
      BY <2>3 DEF ReconcileEnqueue, ReconcileEnqueueFails
    <3> QED  BY <1>0, <3>1, <3>2, <3>3
  <2>4. ASSUME NEW s \in Slots, NEW k \in JobIds, WorkerStart(s, k)
        PROVE  Quiet
    BY <1>0, <2>4 DEF WorkerStart
  <2>5. ASSUME NEW s \in Slots, WorkerCrash(s) \/ TaskDies(s)
        PROVE  Quiet
    <3>1. UNCHANGED <<rec, todo>>
      BY <2>5 DEF WorkerCrash, TaskDies
    <3>2. s \in Executors /\ exec[s].post = PostOf(exec[s].job)
      BY <2>5 DEF WorkerCrash, TaskDies, Assigned, Executors
    <3>3. \A j \in JobIds : PostOf(j) = p => arq'[j] = arq[j]
      BY <1>0, <2>5, <3>2 DEF WorkerCrash, TaskDies
    <3> QED  BY <1>0, <3>1, <3>3
  <2>6. ASSUME NEW i \in Instances, InstanceCrash(i)
        PROVE  Quiet
    BY <1>0, <2>6 DEF InstanceCrash, NoRun
  <2>7. ASSUME NEW i \in Instances, Legacy(i)
        PROVE  Quiet
    <3>1. CASE LegacyClaim(i)
      BY <1>0, <3>1 DEF LegacyClaim
    <3>2. ASSUME NEW q \in Posts, LegacyNext(i, q)
          PROVE  Quiet
      BY <1>0, <3>2 DEF LegacyNext
    <3> QED  BY <2>7, <3>1, <3>2 DEF Legacy
  <2>8. ASSUME NEW e \in Executors, Publishing(e) \/ CallAnswerLost(e)
        PROVE  UNCHANGED <<arq, rec, todo>>
    BY <2>8 DEF Publishing, Load, CallPublishes, CallBlocked, CallFails, Save, Report,
         CallAnswerLost
  <2>9. ASSUME \/ Time \/ RecoverStale \/ LockOvertaken \/ Users \/ UNCHANGED vars
               \/ \E q \in Posts : SlowPublish(q)
        PROVE  UNCHANGED <<arq, rec, todo>>
    BY <2>9 DEF Time, PostDue, GoStale, RetryDue, LockExpires, RecoverStale, LockOvertaken,
         Users, CreatePost, PatchPost, DeletePost, DisconnectAccount, SlowPublish, vars
  <2>10. CASE UNCHANGED <<arq, rec, todo>>
    BY <1>0, <2>10
  <2> QED  BY <2>1, <2>2, <2>3, <2>4, <2>5, <2>6, <2>7, <2>8, <2>9, <2>10
              DEF Next, ReconcilePass, Trouble
<1> QED  BY <1>1, <1>2, <1>3, <1>4 DEF Untouched, Orphaned

\* A post deleted before it has a job is out of reach for good: no claim,
\* recovery, retry or legacy pass gets hold of it again.
THEOREM DeletedStaysOutAlways == Spec => DeletedStaysOut
<1>1. Init => DeletedExist
  BY DEF Init, DeletedExist, NoPost
<1>2. TypeOK /\ Assigned /\ DeletedExist /\ [Next]_vars => DeletedExist'
  BY DeletedExistStep
<1>3. TypeOK /\ Assigned /\ RowsExist /\ DeletedExist /\ [Next]_vars
        => [\A p \in Posts : Untouched(p) => Untouched(p)']_vars
  BY UntouchedStep
<1> QED
  BY <1>1, <1>2, <1>3, TypeCorrect, RowsExistAlways, PTL DEF Spec, DeletedStaysOut

=============================================================================
