--------------------- MODULE PublishPipelineTokenProofs ---------------------
(***************************************************************************)
(* Why the pipeline does not multiply tweets: an argument with tokens.     *)
(*                                                                         *)
(* A post holds one token for every tweet it has, one for every task, call *)
(* and list entry that may still tweet it, one for every run that goes on  *)
(* without the lock, and one when a claim or a retry may take it up again. *)
(* A new post holds one token.  The lemma TokenStep says that a step only  *)
(* drops tokens or trades one for another, and that a fault adds one.      *)
(***************************************************************************)
EXTENDS PublishPipelineProofs, FiniteSets, FiniteSetTheorems

-----------------------------------------------------------------------------
(* Runs                                                                    *)

\* A run has no items before its claim, and a job in hand only to mark it.
RunsClean ==
    \A i \in Instances :
      /\ rec[i].pc \in {"idle", "claim"} => rec[i].items = {}
      /\ rec[i].pc # "mark" => rec[i].cur = None

LEMMA RunsCleanStep == TypeOK /\ RunsClean /\ [Next]_vars => RunsClean'
<1> SUFFICES ASSUME TypeOK, RunsClean, [Next]_vars
             PROVE  RunsClean'
  OBVIOUS
<1> USE DEF TypeOK, RunsClean, RecState
<1>1. ASSUME NEW i \in Instances,
             \/ ReconcileAcquire(i)
             \/ ReconcileClaim(i)
             \/ ReconcileAbort(i)
             \/ ReconcileMark(i)
             \/ ReconcileMarkFails(i)
             \/ ReconcileRelease(i)
             \/ InstanceCrash(i)
      PROVE  RunsClean'
  <2>1. CASE ReconcileAcquire(i)
    BY <2>1 DEF ReconcileAcquire
  <2>2. CASE ReconcileClaim(i)
    BY <2>2 DEF ReconcileClaim
  <2>3. CASE ReconcileAbort(i) \/ ReconcileRelease(i) \/ InstanceCrash(i)
    <3>1. rec' = [rec EXCEPT ![i] = NoRun]
      BY <2>3 DEF ReconcileAbort, ReconcileRelease, InstanceCrash
    <3> QED  BY <3>1 DEF NoRun
  <2>4. CASE ReconcileMark(i) \/ ReconcileMarkFails(i)
    <3>1. rec' = [rec EXCEPT ![i] = [@ EXCEPT !.pc = "loop", !.cur = None]]
      BY <2>4 DEF ReconcileMark, ReconcileMarkFails
    <3> QED  BY <3>1
  <2> QED  BY <1>1, <2>1, <2>2, <2>3, <2>4
<1>2. ASSUME NEW i \in Instances, NEW j \in JobIds,
             ReconcileEnqueue(i, j) \/ ReconcileEnqueueFails(i, j)
      PROVE  RunsClean'
  <2>1. CASE ReconcileEnqueue(i, j)
    BY <1>1, <2>1 DEF ReconcileEnqueue
  <2>2. CASE ReconcileEnqueueFails(i, j)
    BY <1>1, <2>2 DEF ReconcileEnqueueFails
  <2> QED  BY <1>2, <2>1, <2>2
<1>3. ASSUME UNCHANGED rec
      PROVE  RunsClean'
  BY <1>3
<1>4. ASSUME NEW e \in Executors, Publishing(e) \/ CallAnswerLost(e)
      PROVE  UNCHANGED rec
  BY <1>4 DEF Publishing, Load, CallPublishes, CallBlocked, CallFails, Save, Report,
       CallAnswerLost
<1>5. ASSUME NEW s \in Slots,
             WorkerCrash(s) \/ TaskDies(s) \/ \E j \in JobIds : WorkerStart(s, j)
      PROVE  UNCHANGED rec
  BY <1>5 DEF WorkerCrash, TaskDies, WorkerStart
<1>6. ASSUME Time \/ RecoverStale \/ Users \/ LockOvertaken \/ UNCHANGED vars
      PROVE  UNCHANGED rec
  BY <1>6 DEF Time, PostDue, GoStale, RetryDue, LockExpires, RecoverStale, Users, CreatePost,
       PatchPost, DeletePost, DisconnectAccount, LockOvertaken, vars
<1>7. ASSUME (\E p \in Posts : SlowPublish(p)) \/ \E i \in Instances : Legacy(i)
      PROVE  UNCHANGED rec
  BY <1>7 DEF SlowPublish, Legacy, LegacyClaim, LegacyNext
<1> QED
  BY <1>1, <1>2, <1>3, <1>4, <1>5, <1>6, <1>7 DEF Next, ReconcilePass, Trouble

LEMMA RunsCleanAlways == Spec => []RunsClean
<1>1. Init => RunsClean
  BY DEF Init, RunsClean, NoRun
<1>2. TypeOK /\ RunsClean /\ [Next]_vars => RunsClean'
  BY RunsCleanStep
<1> QED
  BY <1>1, <1>2, TypeCorrect, PTL DEF Spec

\* A call has no result before X or the database has given one.
CallsClean ==
    \A e \in Executors : exec[e].pc \in {"idle", "load", "call"} => exec[e].result = "none"

LEMMA CallsCleanStep == TypeOK /\ CallsClean /\ [Next]_vars => CallsClean'
<1> SUFFICES ASSUME TypeOK, CallsClean, [Next]_vars
             PROVE  CallsClean'
  OBVIOUS
<1> USE DEF TypeOK, CallsClean, ExecState
<1>1. ASSUME NEW s \in Slots, NEW j \in JobIds, WorkerStart(s, j)
      PROVE  CallsClean'
  BY <1>1 DEF WorkerStart, NoExec
<1>2. ASSUME NEW e \in Executors, Load(e)
      PROVE  CallsClean'
  <2>1. /\ exec'[e].pc = "save" \/ exec'[e].result = exec[e].result
        /\ exec[e].pc = "load"
        /\ \A d \in Executors : d # e => exec'[d] = exec[d]
    BY <1>2 DEF Load
  <2> QED  BY <2>1
<1>3. ASSUME NEW e \in Executors,
             CallPublishes(e) \/ CallBlocked(e) \/ CallFails(e) \/ CallAnswerLost(e)
      PROVE  CallsClean'
  BY <1>3, CallSteps
<1>4. ASSUME NEW e \in Executors, Save(e) \/ Report(e)
      PROVE  CallsClean'
  BY <1>4 DEF Save, Report, NoExec
<1>5. ASSUME NEW s \in Slots, WorkerCrash(s) \/ TaskDies(s)
      PROVE  CallsClean'
  BY <1>5 DEF WorkerCrash, TaskDies, NoExec
<1>6. ASSUME NEW i \in Instances, InstanceCrash(i)
      PROVE  CallsClean'
  BY <1>6 DEF InstanceCrash, NoExec
<1>7. ASSUME NEW i \in Instances, NEW p \in Posts, LegacyNext(i, p)
      PROVE  CallsClean'
  BY <1>7 DEF LegacyNext, NoExec
<1>8. CASE UNCHANGED exec
  BY <1>8
<1> QED
  BY <1>1, <1>2, <1>3, <1>4, <1>5, <1>6, <1>7, <1>8, OthersLeaveExec

LEMMA CallsCleanAlways == Spec => []CallsClean
<1>1. Init => CallsClean
  BY DEF Init, CallsClean, NoExec
<1>2. TypeOK /\ CallsClean /\ [Next]_vars => CallsClean'
  BY CallsCleanStep
<1> QED
  BY <1>1, <1>2, TypeCorrect, PTL DEF Spec

-----------------------------------------------------------------------------
(* Tokens                                                                  *)

\* The run that holds the lock takes care of j.
InHand(j) == lock # None /\ (j \in rec[lock].items \/ j = rec[lock].cur)

ToRetry(j) == job[j].status = "failed" /\ ~InHand(j)

\* A claim or a retry may take up p, now or after a wait that costs nothing.
Chance(p) ==
    \/ post[p].status \in {"absent", "draft", "scheduled"}
    \/ post[p].status = "publishing" /\ (post[p].stale \/ Orphaned(p))
    \/ \E j \in JobIds : PostOf(j) = p /\ ToRetry(j)

Tasks(p) == UNION {{j} \X (1 .. arq[j]) : j \in {k \in JobIds : PostOf(k) = p}}

Calls(p) == {e \in Executors : exec[e].post = p /\ exec[e].result # "published"}

Lists(p) == {i \in Instances : p \in todo[i]}

Items(p) == {h \in Instances \X JobIds : PostOf(h[2]) = p /\ h[2] \in rec[h[1]].items}

\* Runs about to claim that the lock does not protect any more.
Strays == {i \in Instances : rec[i].pc = "claim" /\ lock # i}

Kinds == {"tweet", "task", "call", "list", "item", "stray", "chance"}

Held(p, kind) ==
    CASE kind = "tweet"  -> 1 .. made[p]
      [] kind = "task"   -> Tasks(p)
      [] kind = "call"   -> Calls(p)
      [] kind = "list"   -> Lists(p)
      [] kind = "item"   -> Items(p)
      [] kind = "stray"  -> Strays
      [] kind = "chance" -> {q \in {p} : Chance(q)}

\* The tokens of p of some kinds, and all of them.
Share(p, kinds) == UNION {{kind} \X Held(p, kind) : kind \in kinds}

Tokens(p) == Share(p, Kinds)

\* What a step does to the tokens of p.
Keep(p) == \A kind \in Kinds : Held(p, kind)' \subseteq Held(p, kind)

Trade(p, from, to) ==
    \E x \in Held(p, from) : \E y :
      /\ Held(p, from)' \subseteq Held(p, from) \ {x}
      /\ Held(p, to)' \subseteq Held(p, to) \cup {y}
      /\ \A kind \in Kinds \ {from, to} : Held(p, kind)' \subseteq Held(p, kind)

Mint(p, to) ==
    \E y : /\ Held(p, to)' \subseteq Held(p, to) \cup {y}
           /\ \A kind \in Kinds \ {to} : Held(p, kind)' \subseteq Held(p, kind)

LEMMA KeepIntro ==
    ASSUME NEW p,
           1 .. made'[p] \subseteq 1 .. made[p],
           Tasks(p)' \subseteq Tasks(p),
           Calls(p)' \subseteq Calls(p),
           Lists(p)' \subseteq Lists(p),
           Items(p)' \subseteq Items(p),
           Strays' \subseteq Strays,
           Chance(p)' => Chance(p)
    PROVE  Keep(p)
<1> SUFFICES ASSUME NEW kind \in Kinds
             PROVE  Held(p, kind)' \subseteq Held(p, kind)
  BY DEF Keep
<1> QED  BY DEF Held, Kinds

\* What a step must leave alone to leave the tokens of a kind alone.
LEMMA Frames ==
    ASSUME NEW p \in Posts
    PROVE  /\ UNCHANGED made => 1 .. made'[p] = 1 .. made[p]
           /\ UNCHANGED arq => Tasks(p)' = Tasks(p)
           /\ UNCHANGED exec => Calls(p)' = Calls(p)
           /\ UNCHANGED todo => Lists(p)' = Lists(p)
           /\ UNCHANGED rec => Items(p)' = Items(p)
           /\ UNCHANGED <<lock, rec>> => Strays' = Strays
           /\ UNCHANGED <<arq, exec, todo, rec>> => Orphaned(p)' = Orphaned(p)
           /\ UNCHANGED <<lock, rec>> => \A j \in JobIds : InHand(j)' = InHand(j)
           /\ UNCHANGED <<job, lock, rec>> => \A j \in JobIds : ToRetry(j)' = ToRetry(j)
BY DEF Tasks, Calls, Lists, Items, Strays, Orphaned, InHand, ToRetry

LEMMA ChanceFrame ==
    ASSUME NEW p \in Posts, UNCHANGED <<post[p].status, post[p].stale>>,
           Orphaned(p)' => Orphaned(p),
           \A j \in JobIds : PostOf(j) = p /\ ToRetry(j)' => ToRetry(j)
    PROVE  Chance(p)' => Chance(p)
BY DEF Chance

-----------------------------------------------------------------------------
(* What a step does to the tokens of a post                                *)

\* What the argument rests on: the invariants proved so far.
Steady ==
    /\ TypeOK /\ Assigned /\ RowsExist
    /\ CallsFollowPosts /\ JobsOpen /\ OneJobPerPost
    /\ RunsClean /\ CallsClean

\* The passing of time and the recovery give no post a token.
LEMMA TimeKeeps ==
    ASSUME Steady, Time \/ RecoverStale, NEW p \in Posts
    PROVE  Keep(p)
<1> USE DEF Steady, TypeOK, PostRow
<1>1. ASSUME NEW q \in Posts, PostDue(q)
      PROVE  Keep(p)
  <2>1. UNCHANGED <<job, arq, lock, rec, todo, exec, made, post[p].status, post[p].stale>>
    BY <1>1 DEF PostDue
  <2> QED  BY <2>1, Frames, ChanceFrame, KeepIntro
<1>2. ASSUME NEW q \in Posts, GoStale(q)
      PROVE  Keep(p)
  <2>1. UNCHANGED <<job, arq, lock, rec, todo, exec, made, post[p].status>>
    BY <1>2 DEF GoStale
  <2>2. CASE p = q
    <3>1. Chance(p)
      BY <1>2, <2>2 DEF GoStale, Chance
    <3> QED  BY <2>1, <3>1, Frames, KeepIntro
  <2>3. CASE p # q
    <3>1. UNCHANGED post[p].stale
      BY <1>2, <2>3 DEF GoStale
    <3> QED  BY <2>1, <3>1, Frames, ChanceFrame, KeepIntro
  <2> QED  BY <2>2, <2>3
<1>3. ASSUME NEW k \in JobIds, RetryDue(k)
      PROVE  Keep(p)
  <2>1. UNCHANGED <<post, arq, lock, rec, todo, exec, made>>
    BY <1>3 DEF RetryDue
  <2>2. \A j \in JobIds : job'[j].status = job[j].status
    BY <1>3 DEF RetryDue, JobRow
  <2>3. \A j \in JobIds : ToRetry(j)' => ToRetry(j)
    BY <2>1, <2>2, Frames DEF ToRetry
  <2> QED  BY <2>1, <2>3, Frames, ChanceFrame, KeepIntro
<1>4. ASSUME LockExpires
      PROVE  Keep(p)
  <2>1. UNCHANGED <<post, job, arq, rec, todo, exec, made>> /\ lock' = None
    BY <1>4 DEF LockExpires
  <2>2. Strays' \subseteq Strays
    BY <1>4, <2>1 DEF LockExpires, Strays
  <2>3. \A j \in JobIds : ~InHand(j)
    BY <1>4, ConstantsAssumption DEF LockExpires, InHand, RunsClean, JobIds
  <2>4. \A j \in JobIds : ToRetry(j)' => ToRetry(j)
    BY <2>1, <2>3 DEF ToRetry
  <2> QED  BY <2>1, <2>2, <2>4, Frames, ChanceFrame, KeepIntro
<1>5. ASSUME RecoverStale
      PROVE  Keep(p)
  <2>1. UNCHANGED <<job, arq, lock, rec, todo, exec, made>>
    BY <1>5 DEF RecoverStale
  <2>2. CASE p \in StalePosts
    <3>1. Chance(p)
      BY <2>2 DEF StalePosts, Chance
    <3> QED  BY <2>1, <3>1, Frames, KeepIntro
  <2>3. CASE p \notin StalePosts
    <3>1. UNCHANGED <<post[p].status, post[p].stale>>
      BY <1>5, <2>3 DEF RecoverStale
    <3> QED  BY <2>1, <3>1, Frames, ChanceFrame, KeepIntro
  <2> QED  BY <2>2, <2>3
<1> QED  BY <1>1, <1>2, <1>3, <1>4, <1>5 DEF Time

\* A run lists at most one job of a post, and a post with a failed job has
\* no other job.
LEMMA FailedAlone ==
    ASSUME Steady, NEW p \in Posts, NEW j \in JobIds, PostOf(j) = p, job[j].status = "failed"
    PROVE  /\ post[p].status \in Finished
           /\ \A k \in JobIds : PostOf(k) = p /\ job[k].status # "absent" => k = j
<1>1. post[p].status \in Finished
  BY DEF Steady, JobsOpen
<1>2. \A k \in JobIds : PostOf(k) = p /\ job[k].status # "absent" => k = j
  BY DEF Steady, OneJobPerPost
<1> QED  BY <1>1, <1>2

\* The claim takes up every due post and every failed job that is due: each
\* for the chance the post had, or for the stray run that the claim ends.
LEMMA ClaimTrades ==
    ASSUME Steady, Steady', NEW i \in Instances, ReconcileClaim(i), NEW p \in Posts
    PROVE  Keep(p) \/ Trade(p, "chance", "item") \/ Trade(p, "stray", "item")
<1> USE DEF Steady, TypeOK, RecState
<1>1. /\ rec[i].pc = "claim" /\ rec[i].items = {} /\ rec[i].cur = None
      /\ UNCHANGED <<arq, lock, todo, exec, made>>
      /\ rec' = [rec EXCEPT ![i] = [pc |-> "loop", items |-> QueueItems, cur |-> None]]
      /\ post' = Claimed(DuePosts)
      /\ job' = [j \in JobIds |-> IF j \in NewJobs THEN CreateQueuedJob ELSE job[j]]
  BY DEF ReconcileClaim, RunsClean
<1>2. Strays' = Strays \ {i}
  BY <1>1 DEF Strays
<1>3. \A h : h \in Items(p)' <=>
        h \in Items(p) \/ (h \in Instances \X JobIds /\ h[1] = i /\ h[2] \in QueueItems
                            /\ PostOf(h[2]) = p)
  BY <1>1 DEF Items
<1>4. CASE p \in DuePosts
  <2>1. Chance(p)
    BY <1>4 DEF DuePosts, Chance
  <2>2. post'[p].status = "publishing" /\ post'[p].stale = FALSE
    <3>1. post'[p] = [post[p] EXCEPT !.status = "publishing", !.stale = FALSE]
      BY <1>1, <1>4 DEF Claimed
    <3>2. post[p] \in PostRow
      OBVIOUS
    <3> QED  BY <3>1, <3>2 DEF PostRow
  <2>3. PICK j \in JobIds : PostOf(j) = p /\ job'[j].status # "absent"
    BY <1>4, ClaimedHasJob
  <2>4. \A k \in QueueItems : PostOf(k) = p => k = j
    <3> SUFFICES ASSUME NEW k \in QueueItems, PostOf(k) = p
                 PROVE  k = j
      OBVIOUS
    <3>1. k \in JobIds /\ job'[k].status # "absent"
      BY <1>1, QueueItemsExist DEF CreateQueuedJob, NoJob
    <3> QED  BY <2>3, <3>1 DEF OneJobPerPost
  <2>5. \A k \in JobIds : PostOf(k) = p => job'[k].status # "failed"
    BY <2>2, <1>4 DEF JobsOpen, Finished
  <2>6. j \in QueueItems
    <3>1. CASE j \in NewJobs
      BY <3>1 DEF QueueItems
    <3>2. CASE j \notin NewJobs
      <4>1. job[j].status # "absent"
        BY <1>1, <2>3, <3>2
      <4>2. IsOpen(job[j])
        BY <4>1, <2>3, <1>4 DEF JobsOpen, DuePosts, Finished, IsOpen
      <4> QED  BY <4>2, <2>3, <1>4 DEF QueueItems, OpenJobs
    <3> QED  BY <3>1, <3>2
  <2>7. ~Orphaned(p)'
    BY <1>1, <2>3, <2>6 DEF Orphaned
  <2>8. ~Chance(p)'
    BY <2>2, <2>5, <2>7, <2>3 DEF Chance, ToRetry
  <2>9. Items(p)' \subseteq Items(p) \cup {<<i, j>>}
    BY <1>3, <2>4
  <2>10. /\ p \in Held(p, "chance")
         /\ Held(p, "chance")' \subseteq Held(p, "chance") \ {p}
         /\ Held(p, "item")' \subseteq Held(p, "item") \cup {<<i, j>>}
    BY <2>1, <2>8, <2>9 DEF Held
  <2>11. \A kind \in Kinds \ {"chance", "item"} : Held(p, kind)' \subseteq Held(p, kind)
    BY <1>1, <1>2, Frames DEF Held, Kinds
  <2> QED  BY <2>10, <2>11 DEF Trade
<1>5. CASE p \notin DuePosts
  <2>1. UNCHANGED post[p]
    BY <1>1, <1>5 DEF Claimed
  <2>2. \A k \in JobIds : PostOf(k) = p => UNCHANGED job[k]
    BY <1>1, <1>5, NewJobsFresh
  <2>3. \A k \in QueueItems : PostOf(k) = p => k \in RetryableJobs
    <3> SUFFICES ASSUME NEW k \in QueueItems, PostOf(k) = p, k \notin RetryableJobs
                 PROVE  FALSE
      OBVIOUS
    <3>1. CASE k \in NewJobs
      BY <3>1, <1>5, NewJobsFresh
    <3>2. CASE k \in UNION {OpenJobs(q) : q \in DuePosts}
      BY <3>2, <1>5 DEF OpenJobs
    <3> QED  BY <3>1, <3>2 DEF QueueItems
  <2>4. Orphaned(p)' => Orphaned(p)
    BY <1>1 DEF Orphaned
  <2>5. \A k \in JobIds : lock = i => ~InHand(k)
    BY <1>1, ConstantsAssumption DEF InHand, JobIds
  <2>6. \A k \in JobIds : PostOf(k) = p /\ ToRetry(k)' => ToRetry(k)
    BY <1>1, <2>2, <2>5 DEF ToRetry, InHand
  <2>7. Chance(p)' => Chance(p)
    BY <2>1, <2>4, <2>6, ChanceFrame
  <2>8. CASE \A k \in QueueItems : PostOf(k) # p
    <3>1. Items(p)' \subseteq Items(p)
      BY <1>3, <2>8
    <3> QED  BY <1>1, <1>2, <2>7, <3>1, Frames, KeepIntro
  <2>9. ASSUME NEW j \in QueueItems, PostOf(j) = p
        PROVE  Trade(p, "chance", "item") \/ Trade(p, "stray", "item")
    <3>1. j \in JobIds /\ job[j].status = "failed"
      BY <2>3, <2>9 DEF RetryableJobs, IsRetryable
    <3>2. /\ post[p].status \in Finished
          /\ \A k \in JobIds : PostOf(k) = p /\ job[k].status # "absent" => k = j
      BY <2>9, <3>1, FailedAlone
    <3>3. \A k \in QueueItems : PostOf(k) = p => k = j
      BY <2>3, <3>2 DEF RetryableJobs, IsRetryable
    <3>4. Held(p, "item")' \subseteq Held(p, "item") \cup {<<i, j>>}
      BY <1>3, <3>3 DEF Held
    <3>5. CASE lock = i
      <4>1. Chance(p)
        BY <2>5, <2>9, <3>1, <3>5 DEF Chance, ToRetry
      <4>2. InHand(j)'
        BY <1>1, <3>5, ConstantsAssumption DEF InHand
      <4>3. ~Chance(p)'
        BY <2>1, <2>2, <3>2, <4>2 DEF Chance, ToRetry, Finished
      <4>4. p \in Held(p, "chance") /\ Held(p, "chance")' \subseteq Held(p, "chance") \ {p}
        BY <4>1, <4>3 DEF Held
      <4>5. \A kind \in Kinds \ {"chance", "item"} : Held(p, kind)' \subseteq Held(p, kind)
        BY <1>1, <1>2, Frames DEF Held, Kinds
      <4> QED  BY <3>4, <4>4, <4>5 DEF Trade
    <3>6. CASE lock # i
      <4>1. i \in Held(p, "stray") /\ Held(p, "stray")' \subseteq Held(p, "stray") \ {i}
        BY <1>1, <1>2, <3>6 DEF Held, Strays
      <4>2. Held(p, "chance")' \subseteq Held(p, "chance")
        BY <2>7 DEF Held
      <4>3. \A kind \in Kinds \ {"stray", "item"} : Held(p, kind)' \subseteq Held(p, kind)
        BY <1>1, <4>2, Frames DEF Held, Kinds
      <4> QED  BY <3>4, <4>1, <4>3 DEF Trade
    <3> QED  BY <3>5, <3>6
  <2> QED  BY <2>8, <2>9
<1> QED  BY <1>4, <1>5

\* The rest of a reconciler run: an item becomes a task, nothing is added.
LEMMA RunTrades ==
    ASSUME Steady, NEW p \in Posts, NEW i \in Instances,
           \/ ReconcileAcquire(i) \/ ReconcileAbort(i) \/ ReconcileMark(i)
           \/ ReconcileRelease(i) \/ \E j \in JobIds : ReconcileEnqueue(i, j)
    PROVE  Keep(p) \/ Trade(p, "item", "task")
<1> USE DEF Steady, TypeOK, RecState
<1>1. CASE ReconcileAcquire(i)
  <2>1. /\ UNCHANGED <<post, job, arq, todo, exec, made>>
        /\ rec[i].pc = "idle" /\ lock = None /\ lock' = i
        /\ rec' = [rec EXCEPT ![i].pc = "claim"]
    BY <1>1 DEF ReconcileAcquire, LockIsFree
  <2>2. Items(p)' = Items(p) /\ Orphaned(p)' = Orphaned(p)
    BY <2>1 DEF Items, Orphaned
  <2>3. Strays' \subseteq Strays
    BY <2>1, ConstantsAssumption DEF Strays
  <2>4. \A j \in JobIds : ToRetry(j)' => ToRetry(j)
    BY <2>1 DEF ToRetry, InHand
  <2> QED  BY <2>1, <2>2, <2>3, <2>4, Frames, ChanceFrame, KeepIntro
<1>2. CASE ReconcileAbort(i) \/ ReconcileRelease(i)
  <2>1. /\ UNCHANGED <<post, job, arq, todo, exec, made>>
        /\ rec' = [rec EXCEPT ![i] = NoRun]
        /\ rec[i].items = {} /\ rec[i].cur = None
        /\ lock' = IF lock = i THEN None ELSE lock
    BY <1>2 DEF ReconcileAbort, ReconcileRelease, HoldsLock, RunsClean
  <2>2. Items(p)' = Items(p) /\ Orphaned(p)' = Orphaned(p)
    BY <2>1 DEF Items, Orphaned, NoRun
  <2>3. Strays' \subseteq Strays
    BY <2>1 DEF Strays, NoRun
  <2>4. \A j \in JobIds : ToRetry(j)' => ToRetry(j)
    BY <2>1, ConstantsAssumption DEF ToRetry, InHand, JobIds
  <2> QED  BY <2>1, <2>2, <2>3, <2>4, Frames, ChanceFrame, KeepIntro
<1>3. CASE ReconcileMark(i)
  <2>1. PICK c \in JobIds :
             /\ UNCHANGED <<post, arq, lock, todo, exec, made>>
             /\ rec[i].pc = "mark" /\ rec[i].cur = c
             /\ rec' = [rec EXCEPT ![i] = [rec[i] EXCEPT !.pc = "loop", !.cur = None]]
             /\ job' = [job EXCEPT ![c] = MarkEnqueued(job[c])]
    BY <1>3 DEF ReconcileMark, RowsExist
  <2>2. Items(p)' = Items(p) /\ Orphaned(p)' = Orphaned(p) /\ Strays' = Strays
    BY <2>1 DEF Items, Orphaned, Strays
  <2>3. ~ToRetry(c)'
    BY <2>1 DEF ToRetry, MarkEnqueued, JobRow
  <2>4. \A j \in JobIds : ToRetry(j)' => ToRetry(j)
    <3> SUFFICES ASSUME NEW j \in JobIds, ToRetry(j)', j # c
                 PROVE  ToRetry(j)
      BY <2>3
    <3>1. job'[j] = job[j]
      BY <2>1
    <3> QED  BY <2>1, <3>1 DEF ToRetry, InHand
  <2> QED  BY <2>1, <2>2, <2>4, Frames, ChanceFrame, KeepIntro
<1>4. ASSUME NEW j \in JobIds, ReconcileEnqueue(i, j)
      PROVE  Keep(p) \/ Trade(p, "item", "task")
  <2>1. /\ UNCHANGED <<post, job, lock, todo, exec, made>>
        /\ rec[i].pc = "loop" /\ j \in rec[i].items /\ rec[i].cur = None
        /\ arq' = [arq EXCEPT ![j] = arq[j] + 1]
        /\ rec' = [rec EXCEPT ![i] = [pc |-> "mark", items |-> rec[i].items \ {j}, cur |-> j]]
    BY <1>4 DEF ReconcileEnqueue, RunsClean
  <2>2. Strays' = Strays
    BY <2>1 DEF Strays
  <2>3. \A k \in JobIds : ToRetry(k)' => ToRetry(k)
    BY <2>1, ConstantsAssumption DEF ToRetry, InHand, JobIds
  <2>4. Orphaned(p)' => Orphaned(p)
    <3>1. CASE PostOf(j) = p
      BY <2>1, <3>1 DEF Orphaned
    <3>2. CASE PostOf(j) # p
      BY <2>1, <3>2 DEF Orphaned
    <3> QED  BY <3>1, <3>2
  <2>5. Chance(p)' => Chance(p)
    BY <2>1, <2>3, <2>4, ChanceFrame
  <2>6. CASE PostOf(j) # p
    <3>1. Items(p)' = Items(p)
      BY <2>1, <2>6 DEF Items
    <3>2. Tasks(p)' = Tasks(p)
      BY <2>1, <2>6 DEF Tasks
    <3> QED  BY <2>1, <2>2, <2>5, <3>1, <3>2, Frames, KeepIntro
  <2>7. CASE PostOf(j) = p
    <3>1. /\ <<i, j>> \in Held(p, "item")
          /\ Held(p, "item")' \subseteq Held(p, "item") \ {<<i, j>>}
      BY <2>1, <2>7 DEF Held, Items
    <3>2. Held(p, "task")' \subseteq Held(p, "task") \cup {<<j, arq[j] + 1>>}
      BY <2>1 DEF Held, Tasks
    <3>3. \A kind \in Kinds \ {"item", "task"} : Held(p, kind)' \subseteq Held(p, kind)
      BY <2>1, <2>2, <2>5, Frames DEF Held, Kinds
    <3> QED  BY <3>1, <3>2, <3>3 DEF Trade
  <2> QED  BY <2>6, <2>7
<1> QED  BY <1>1, <1>2, <1>3, <1>4

\* A worker takes a task: one token for the other, and one more attempt.
LEMMA StartTrades ==
    ASSUME Steady, NEW p \in Posts, NEW s \in Slots, NEW j \in JobIds, WorkerStart(s, j)
    PROVE  IF PostOf(j) = p THEN Trade(p, "task", "call") ELSE Keep(p)
<1> USE DEF Steady, TypeOK, ExecState
<1>1. /\ UNCHANGED <<post, lock, rec, todo, made>>
      /\ exec[s] = NoExec /\ arq[j] > 0
      /\ arq' = [arq EXCEPT ![j] = arq[j] - 1]
      /\ job' = [job EXCEPT ![j] = MarkRunning(job[j])]
      /\ exec' = [exec EXCEPT ![s] = [NoExec EXCEPT !.pc = "load", !.post = PostOf(j), !.job = j]]
      /\ s \in Executors
  BY DEF WorkerStart, Assigned, Executors
<1>2. \A k \in JobIds : ToRetry(k)' => ToRetry(k)
  BY <1>1 DEF ToRetry, InHand, MarkRunning, JobRow
<1>3. /\ exec'[s].post = PostOf(j) /\ exec'[s].result = "none" /\ exec[s].post = None
      /\ \A e \in Executors : e # s => exec'[e] = exec[e]
  BY <1>1 DEF NoExec
<1>4. p # None
  BY ConstantsAssumption
<1>5. CASE PostOf(j) # p
  <2>1. Calls(p)' = Calls(p)
    BY <1>3, <1>4, <1>5 DEF Calls
  <2>2. Tasks(p)' = Tasks(p)
    BY <1>1, <1>5 DEF Tasks
  <2>3. Orphaned(p)' => Orphaned(p)
    BY <1>1, <1>3, <1>4, <1>5 DEF Orphaned
  <2> QED  BY <1>1, <1>2, <1>5, <2>1, <2>2, <2>3, Frames, ChanceFrame, KeepIntro
<1>6. CASE PostOf(j) = p
  <2>1. ~Orphaned(p)'
    BY <1>1, <1>3, <1>6 DEF Orphaned
  <2>2. Held(p, "chance")' \subseteq Held(p, "chance")
    BY <1>1, <1>2, <2>1, ChanceFrame DEF Held
  <2>3. <<j, arq[j]>> \in Held(p, "task") /\ Held(p, "task")' \subseteq Held(p, "task") \ {<<j, arq[j]>>}
    BY <1>1, <1>6 DEF Held, Tasks
  <2>4. Held(p, "call")' \subseteq Held(p, "call") \cup {s}
    BY <1>3 DEF Held, Calls
  <2>5. \A kind \in Kinds \ {"task", "call"} : Held(p, kind)' \subseteq Held(p, kind)
    BY <1>1, <2>2, Frames DEF Held, Kinds
  <2> QED  BY <1>6, <2>3, <2>4, <2>5 DEF Trade
<1> QED  BY <1>5, <1>6

\* Until it reports, a call holds its token or has turned it into a tweet.
LEMMA CallTrades ==
    ASSUME Steady, NEW p \in Posts, NEW e \in Executors,
           Load(e) \/ CallPublishes(e) \/ CallBlocked(e) \/ CallFails(e)
    PROVE  Keep(p) \/ Trade(p, "call", "tweet")
<1> USE DEF Steady, TypeOK, ExecState
<1>1. UNCHANGED <<post, job, arq, lock, rec, todo>>
  BY DEF Load, CallPublishes, CallBlocked, CallFails
<1>2. /\ exec'[e].post = exec[e].post
      /\ \A d \in Executors : d # e => exec'[d] = exec[d]
  <2>1. CASE Load(e)
    BY <2>1 DEF Load
  <2>2. CASE ~Load(e)
    BY <2>2, CallSteps
  <2> QED  BY <2>1, <2>2
<1>3. Orphaned(p)' => Orphaned(p)
  BY <1>1, <1>2 DEF Orphaned
<1>4. Chance(p)' => Chance(p)
  BY <1>1, <1>3, Frames, ChanceFrame
<1>5. CASE ~CallPublishes(e)
  <2>1. UNCHANGED made
    BY <1>5 DEF Load, CallBlocked, CallFails
  <2>2. exec[e].result # "published"
    BY <1>5 DEF Load, CallBlocked, CallFails, CallsClean
  <2>3. Calls(p)' \subseteq Calls(p)
    BY <1>2, <2>2 DEF Calls
  <2> QED  BY <1>1, <1>4, <2>1, <2>3, Frames, KeepIntro
<1>6. CASE CallPublishes(e)
  <2>1. /\ exec[e].pc = "call" /\ exec'[e].result = "published"
        /\ made' = [made EXCEPT ![exec[e].post] = made[exec[e].post] + 1]
        /\ exec[e].post \in Posts
    BY <1>6 DEF CallPublishes, Assigned
  <2>2. CASE exec[e].post # p
    <3>1. Calls(p)' \subseteq Calls(p)
      BY <1>2, <2>1, <2>2 DEF Calls
    <3>2. made'[p] = made[p]
      BY <2>1, <2>2
    <3> QED  BY <1>1, <1>4, <3>1, <3>2, Frames, KeepIntro
  <2>3. CASE exec[e].post = p
    <3>1. e \in Held(p, "call") /\ Held(p, "call")' \subseteq Held(p, "call") \ {e}
      BY <1>2, <2>1, <2>3 DEF Held, Calls, CallsClean
    <3>2. Held(p, "tweet")' \subseteq Held(p, "tweet") \cup {made[p] + 1}
      BY <2>1, <2>3 DEF Held
    <3>3. \A kind \in Kinds \ {"call", "tweet"} : Held(p, kind)' \subseteq Held(p, kind)
      BY <1>1, <1>4, Frames DEF Held, Kinds
    <3> QED  BY <3>1, <3>2, <3>3 DEF Trade
  <2> QED  BY <2>2, <2>3
<1> QED  BY <1>5, <1>6

\* The commit of a call finishes the post, whatever happened to it meanwhile.
LEMMA SaveFinishes ==
    ASSUME Steady, NEW e \in Executors, Save(e)
    PROVE  /\ exec[e].post \in Posts
           /\ post'[exec[e].post].status \in Finished
           /\ \A q \in Posts \ {exec[e].post} : post'[q] = post[q]
           /\ exec'[e] = NoExec \/ exec'[e] = [exec[e] EXCEPT !.pc = "report"]
           /\ \A d \in Executors : d # e => exec'[d] = exec[d]
<1> USE DEF Steady, TypeOK
<1>1. exec[e].post \in Posts /\ exec[e] \in ExecState /\ post[exec[e].post] \in PostRow
  BY DEF Save, Assigned
<1>2. SavedRow(post[exec[e].post], exec[e]).status \in Finished
  BY <1>1 DEF CallsFollowPosts, SavedRow, OrmWrite, Finished, ExecState, PostRow
<1> QED  BY <1>1, <1>2 DEF Save

LEMMA SaveKeeps ==
    ASSUME Steady, NEW p \in Posts, NEW e \in Executors, Save(e)
    PROVE  Keep(p)
<1> USE DEF Steady, TypeOK, ExecState
<1>1. UNCHANGED <<job, arq, lock, rec, todo, made>>
  BY DEF Save
<1>2. \A d \in Executors : \/ exec'[d] = NoExec
                           \/ exec'[d].post = exec[d].post /\ exec'[d].result = exec[d].result
  <2>1. \/ exec'[e] = NoExec
        \/ exec'[e] = [exec[e] EXCEPT !.pc = "report"]
    BY SaveFinishes
  <2>2. exec[e] \in ExecState
    OBVIOUS
  <2>3. \/ exec'[e] = NoExec
        \/ exec'[e].post = exec[e].post /\ exec'[e].result = exec[e].result
    BY <2>1, <2>2
  <2> QED  BY <2>3, SaveFinishes
<1>3. Calls(p)' \subseteq Calls(p)
  <2>1. NoExec.post # p
    BY ConstantsAssumption DEF NoExec
  <2> QED  BY <1>2, <2>1 DEF Calls
<1>4. CASE exec[e].post = p
  <2>1. Chance(p)' => Chance(p)
    BY <1>1, <1>4, SaveFinishes, Frames DEF Chance, Finished
  <2> QED  BY <1>1, <1>3, <2>1, Frames, KeepIntro
<1>5. CASE exec[e].post # p
  <2>1. post'[p] = post[p]
    BY <1>5, SaveFinishes
  <2>2. Orphaned(p)' => Orphaned(p)
    BY <1>1, <1>5, SaveFinishes DEF Orphaned
  <2>3. Chance(p)' => Chance(p)
    BY <1>1, <2>1, <2>2, Frames, ChanceFrame
  <2> QED  BY <1>1, <1>3, <2>3, Frames, KeepIntro
<1> QED  BY <1>4, <1>5

\* The report of a call that failed leaves the post the chance of a retry.
LEMMA ReportTrades ==
    ASSUME Steady, NEW p \in Posts, NEW e \in Executors, Report(e)
    PROVE  \/ Keep(p)
           \/ /\ Trade(p, "call", "chance")
              /\ \E j \in JobIds : /\ PostOf(j) = p /\ job'[j].status = "failed"
                                   /\ job'[j].attempts < MaxAttempts
<1> USE DEF Steady, TypeOK, ExecState
<1>1. /\ UNCHANGED <<post, arq, lock, rec, todo, made>>
      /\ exec[e].pc = "report" /\ exec' = [exec EXCEPT ![e] = NoExec]
  BY DEF Report
<1>2. \A d \in Executors : exec'[d] = NoExec \/ exec'[d] = exec[d]
  BY <1>1
<1>3. Calls(p)' \subseteq Calls(p)
  <2>1. NoExec.post # p
    BY ConstantsAssumption DEF NoExec
  <2> QED  BY <1>2, <2>1 DEF Calls
<1>4. PICK j \in JobIds \cup {None} : j = exec[e].job
  OBVIOUS
<1>5. /\ job' = [job EXCEPT ![j] = IF exec[e].result = "published" THEN MarkCompleted(job[j])
                                   ELSE MarkFailed(job[j], exec[e].result = "transient")]
  BY <1>4 DEF Report
<1>6. CASE j = None \/ (j \in JobIds /\ PostOf(j) # p)
  <2>1. \A k \in JobIds : PostOf(k) = p => job'[k] = job[k]
    BY <1>5, <1>6, ConstantsAssumption DEF JobIds
  <2>2. \A k \in JobIds : PostOf(k) = p /\ ToRetry(k)' => ToRetry(k)
    BY <1>1, <2>1 DEF ToRetry, InHand
  <2>3. exec[e].post = p => post[p].status \in Finished
    BY <1>1 DEF CallsFollowPosts
  <2>4. exec[e].post # p => (Orphaned(p)' => Orphaned(p))
    BY <1>1 DEF Orphaned
  <2>5. Chance(p)' => Chance(p)
    BY <1>1, <2>2, <2>3, <2>4 DEF Chance, Finished
  <2> QED  BY <1>1, <1>3, <2>5, Frames, KeepIntro
<1>7. CASE j \in JobIds /\ PostOf(j) = p
  <2>1. exec[e].post = p /\ post[p].status \in Finished
    BY <1>1, <1>4, <1>7, ConstantsAssumption DEF Assigned, Executors, CallsFollowPosts, JobIds
  <2>2. CASE job'[j].status # "failed"
    <3>1. \A k \in JobIds : PostOf(k) = p /\ ToRetry(k)' => ToRetry(k)
      BY <1>1, <1>5, <2>2 DEF ToRetry, InHand
    <3>2. Chance(p)' => Chance(p)
      BY <1>1, <2>1, <3>1 DEF Chance, Finished
    <3> QED  BY <1>1, <1>3, <3>2, Frames, KeepIntro
  <2>3. CASE job'[j].status = "failed"
    <3>1. exec[e].result # "published" /\ job'[j].attempts < MaxAttempts
      BY <1>5, <1>7, <2>3 DEF MarkCompleted, MarkFailed, JobRow
    <3>2. e \in Held(p, "call") /\ Held(p, "call")' \subseteq Held(p, "call") \ {e}
      BY <1>1, <1>3, <2>1, <3>1, ConstantsAssumption DEF Held, Calls, NoExec
    <3>3. Held(p, "chance")' \subseteq Held(p, "chance") \cup {p}
      BY DEF Held
    <3>4. \A kind \in Kinds \ {"call", "chance"} : Held(p, kind)' \subseteq Held(p, kind)
      BY <1>1, Frames DEF Held, Kinds
    <3>5. Trade(p, "call", "chance")
      BY <3>2, <3>3, <3>4 DEF Trade
    <3> QED  BY <1>7, <2>3, <3>1, <3>5
  <2> QED  BY <2>2, <2>3
<1> QED  BY <1>6, <1>7

\* The legacy publisher trades the chance for a list entry, and that for a call.
LEMMA LegacyTrades ==
    ASSUME Steady, NEW p \in Posts, NEW i \in Instances, Legacy(i)
    PROVE  Keep(p) \/ Trade(p, "chance", "list") \/ Trade(p, "list", "call")
<1> USE DEF Steady, TypeOK
<1>1. CASE LegacyClaim(i)
  <2>1. /\ UNCHANGED <<job, arq, lock, rec, exec, made>>
        /\ todo[i] = {} /\ todo' = [todo EXCEPT ![i] = DuePosts]
        /\ post' = Claimed(DuePosts)
    BY <1>1 DEF LegacyClaim
  <2>2. CASE p \in DuePosts
    <3>1. post'[p] = [post[p] EXCEPT !.status = "publishing", !.stale = FALSE]
      BY <2>1, <2>2 DEF Claimed
    <3>2. post'[p].status = "publishing" /\ post'[p].stale = FALSE
      BY <3>1 DEF PostRow
    <3>3. ~Orphaned(p)'
      BY <2>1, <2>2 DEF Orphaned
    <3>4. \A k \in JobIds : PostOf(k) = p => job'[k].status # "failed"
      BY <2>1, <2>2 DEF JobsOpen, DuePosts, Finished
    <3>5. ~Chance(p)'
      BY <3>2, <3>3, <3>4 DEF Chance, ToRetry
    <3>6. p \in Held(p, "chance") /\ Held(p, "chance")' \subseteq Held(p, "chance") \ {p}
      BY <2>2, <3>5 DEF Held, Chance, DuePosts
    <3>7. Held(p, "list")' \subseteq Held(p, "list") \cup {i}
      BY <2>1 DEF Held, Lists
    <3>8. \A kind \in Kinds \ {"chance", "list"} : Held(p, kind)' \subseteq Held(p, kind)
      BY <2>1, Frames DEF Held, Kinds
    <3> QED  BY <3>6, <3>7, <3>8 DEF Trade
  <2>3. CASE p \notin DuePosts
    <3>1. post'[p] = post[p]
      BY <2>1, <2>3 DEF Claimed
    <3>2. Lists(p)' \subseteq Lists(p)
      BY <2>1, <2>3 DEF Lists
    <3>3. Orphaned(p)' => Orphaned(p)
      BY <2>1 DEF Orphaned
    <3> QED  BY <2>1, <3>1, <3>2, <3>3, Frames, ChanceFrame, KeepIntro
  <2> QED  BY <2>2, <2>3
<1>2. ASSUME NEW q \in Posts, LegacyNext(i, q)
      PROVE  Keep(p) \/ Trade(p, "list", "call")
  <2>1. /\ UNCHANGED <<post, job, arq, lock, rec, made>>
        /\ q \in todo[i] /\ todo' = [todo EXCEPT ![i] = todo[i] \ {q}]
        /\ exec[i] = NoExec
        /\ exec' = [exec EXCEPT ![i] = [NoExec EXCEPT !.pc = "load", !.post = q]]
        /\ i \in Executors
    BY <1>2 DEF LegacyNext, Assigned, Executors
  <2>2. /\ exec'[i].post = q /\ exec[i].post = None
        /\ \A d \in Executors : d # i => exec'[d] = exec[d]
    BY <2>1 DEF NoExec
  <2>3. Orphaned(p)' => Orphaned(p)
    <3>1. CASE p = q
      BY <2>1, <2>2, <3>1 DEF Orphaned
    <3>2. CASE p # q
      BY <2>1, <2>2, <3>2, ConstantsAssumption DEF Orphaned
    <3> QED  BY <3>1, <3>2
  <2>4. Chance(p)' => Chance(p)
    BY <2>1, <2>3, Frames, ChanceFrame
  <2>5. CASE p # q
    <3>1. Calls(p)' \subseteq Calls(p)
      BY <2>2, <2>5 DEF Calls
    <3>2. Lists(p)' \subseteq Lists(p)
      BY <2>1 DEF Lists
    <3> QED  BY <2>1, <2>4, <3>1, <3>2, Frames, KeepIntro
  <2>6. CASE p = q
    <3>1. i \in Held(p, "list") /\ Held(p, "list")' \subseteq Held(p, "list") \ {i}
      BY <2>1, <2>6 DEF Held, Lists
    <3>2. Held(p, "call")' \subseteq Held(p, "call") \cup {i}
      BY <2>2 DEF Held, Calls
    <3>3. \A kind \in Kinds \ {"list", "call"} : Held(p, kind)' \subseteq Held(p, kind)
      BY <2>1, <2>4, Frames DEF Held, Kinds
    <3> QED  BY <3>1, <3>2, <3>3 DEF Trade
  <2> QED  BY <2>5, <2>6
<1> QED  BY <1>1, <1>2 DEF Legacy

\* A new post has the chance it had before it was created.
LEMMA UsersKeep ==
    ASSUME "user_edit" \notin Faults, Steady, NEW p \in Posts, Users
    PROVE  Keep(p)
<1> USE DEF Steady, TypeOK, PostRow
<1>1. PICK q \in Posts : \E due \in When, linked \in BOOLEAN : CreatePost(q, due, linked)
  BY DEF Users, PatchPost, DeletePost, DisconnectAccount, Spend
<1>2. /\ UNCHANGED <<job, arq, lock, rec, todo, exec, made>>
      /\ post[q].status = "absent"
      /\ \A r \in Posts \ {q} : post'[r] = post[r]
  BY <1>1 DEF CreatePost
<1>3. CASE p = q
  <2>1. Chance(p)
    BY <1>2, <1>3 DEF Chance
  <2> QED  BY <1>2, <2>1, Frames, KeepIntro
<1>4. CASE p # q
  BY <1>2, <1>4, Frames, ChanceFrame, KeepIntro
<1> QED  BY <1>3, <1>4

-----------------------------------------------------------------------------
(* Trouble                                                                 *)

\* What a fault adds: at most one token, and Redis refusing a task adds none.
LEMMA EnqueueFailureTrades ==
    ASSUME Steady, NEW p \in Posts, NEW i \in Instances, NEW j \in JobIds,
           ReconcileEnqueueFails(i, j)
    PROVE  Keep(p) \/ Trade(p, "item", "chance")
<1> USE DEF Steady, TypeOK, RecState
<1>1. /\ UNCHANGED <<post, job, arq, lock, todo, exec, made>>
      /\ rec[i].pc = "loop" /\ j \in rec[i].items
      /\ rec'[i].pc = "loop" /\ rec'[i].items = rec[i].items \ {j} /\ rec'[i].cur = rec[i].cur
      /\ \A k \in Instances : k # i => rec'[k] = rec[k]
  BY DEF ReconcileEnqueueFails
<1>2. Strays' = Strays
  BY <1>1 DEF Strays
<1>3. CASE PostOf(j) # p
  <2>1. Items(p)' \subseteq Items(p)
    BY <1>1 DEF Items
  <2>2. Orphaned(p)' => Orphaned(p)
    BY <1>1, <1>3 DEF Orphaned
  <2>3. \A k \in JobIds : PostOf(k) = p /\ ToRetry(k)' => ToRetry(k)
    BY <1>1, <1>3 DEF ToRetry, InHand
  <2> QED  BY <1>1, <1>2, <2>1, <2>2, <2>3, Frames, ChanceFrame, KeepIntro
<1>4. CASE PostOf(j) = p
  <2>1. <<i, j>> \in Held(p, "item") /\ Held(p, "item")' \subseteq Held(p, "item") \ {<<i, j>>}
    BY <1>1, <1>4 DEF Held, Items
  <2>2. Held(p, "chance")' \subseteq Held(p, "chance") \cup {p}
    BY DEF Held
  <2>3. \A kind \in Kinds \ {"item", "chance"} : Held(p, kind)' \subseteq Held(p, kind)
    BY <1>1, <1>2, Frames DEF Held, Kinds
  <2> QED  BY <2>1, <2>2, <2>3 DEF Trade
<1> QED  BY <1>3, <1>4

\* A waiting post that looks stale, or a process that dies: a chance more.
LEMMA ProcessFaultMints ==
    ASSUME Steady, NEW p \in Posts,
           \/ \E q \in Posts : SlowPublish(q)
           \/ \E i \in Instances : InstanceCrash(i)
    PROVE  Mint(p, "chance")
<1> USE DEF Steady, TypeOK, RecState
<1>1. Held(p, "chance")' \subseteq Held(p, "chance") \cup {p}
  BY DEF Held
<1>2. ASSUME NEW q \in Posts, SlowPublish(q)
      PROVE  Mint(p, "chance")
  <2>1. UNCHANGED <<job, arq, lock, rec, todo, exec, made>>
    BY <1>2 DEF SlowPublish
  <2>2. \A kind \in Kinds \ {"chance"} : Held(p, kind)' \subseteq Held(p, kind)
    BY <2>1, Frames DEF Held, Kinds
  <2> QED  BY <1>1, <2>2 DEF Mint
<1>3. ASSUME NEW i \in Instances, InstanceCrash(i)
      PROVE  Mint(p, "chance")
  <2>1. /\ UNCHANGED <<post, job, arq, lock, made>>
        /\ rec' = [rec EXCEPT ![i] = NoRun] /\ todo' = [todo EXCEPT ![i] = {}]
        /\ \A d \in Executors : exec'[d] = NoExec \/ exec'[d] = exec[d]
    BY <1>3 DEF InstanceCrash
  <2>2. Items(p)' \subseteq Items(p) /\ Lists(p)' \subseteq Lists(p) /\ Strays' \subseteq Strays
    BY <2>1 DEF Items, Lists, Strays, NoRun
  <2>3. Calls(p)' \subseteq Calls(p)
    BY <2>1, ConstantsAssumption DEF Calls, NoExec
  <2>4. \A kind \in Kinds \ {"chance"} : Held(p, kind)' \subseteq Held(p, kind)
    BY <2>1, <2>2, <2>3, Frames DEF Held, Kinds
  <2> QED  BY <1>1, <2>4 DEF Mint
<1> QED  BY <1>2, <1>3

\* A run that outlives its lock: it may claim besides the next one, or the
\* next one may list the failed job it has in hand.
LEMMA OvertakenMints ==
    ASSUME Steady, NEW p \in Posts, LockOvertaken
    PROVE  Mint(p, "stray") \/ Mint(p, "chance")
<1> USE DEF Steady, TypeOK, RecState
<1>1. /\ UNCHANGED <<post, job, arq, rec, todo, exec, made>>
      /\ lock \in Instances /\ lock' = None
  BY DEF LockOvertaken
<1>2. CASE rec[lock].pc = "claim"
  <2>1. \A j \in JobIds : ~InHand(j)
    BY <1>2, ConstantsAssumption DEF InHand, RunsClean, JobIds
  <2>2. \A j \in JobIds : ToRetry(j)' => ToRetry(j)
    BY <1>1, <2>1 DEF ToRetry
  <2>3. Chance(p)' => Chance(p)
    BY <1>1, <2>2, Frames, ChanceFrame
  <2>4. Held(p, "stray")' \subseteq Held(p, "stray") \cup {lock}
    BY <1>1 DEF Held, Strays
  <2>5. \A kind \in Kinds \ {"stray"} : Held(p, kind)' \subseteq Held(p, kind)
    BY <1>1, <2>3, Frames DEF Held, Kinds
  <2> QED  BY <2>4, <2>5 DEF Mint
<1>3. CASE rec[lock].pc # "claim"
  <2>1. Strays' \subseteq Strays
    BY <1>1, <1>3, ConstantsAssumption DEF Strays
  <2>2. Held(p, "chance")' \subseteq Held(p, "chance") \cup {p}
    BY DEF Held
  <2>3. \A kind \in Kinds \ {"chance"} : Held(p, kind)' \subseteq Held(p, kind)
    BY <1>1, <2>1, Frames DEF Held, Kinds
  <2> QED  BY <2>2, <2>3 DEF Mint
<1> QED  BY <1>2, <1>3

\* The task is queued and the failed job still looks due: a chance more.
LEMMA MarkFailureMints ==
    ASSUME Steady, NEW p \in Posts, NEW i \in Instances, ReconcileMarkFails(i)
    PROVE  Mint(p, "chance")
<1> USE DEF Steady, TypeOK, RecState
<1>1. /\ UNCHANGED <<post, job, arq, lock, todo, exec, made>>
      /\ rec' = [rec EXCEPT ![i] = [rec[i] EXCEPT !.pc = "loop", !.cur = None]]
      /\ rec[i].pc = "mark"
  BY DEF ReconcileMarkFails
<1>2. Items(p)' = Items(p) /\ Strays' = Strays
  BY <1>1 DEF Items, Strays
<1>3. Held(p, "chance")' \subseteq Held(p, "chance") \cup {p}
  BY DEF Held
<1>4. \A kind \in Kinds \ {"chance"} : Held(p, kind)' \subseteq Held(p, kind)
  BY <1>1, <1>2, Frames DEF Held, Kinds
<1> QED  BY <1>3, <1>4 DEF Mint

\* ARQ redelivers the task of a worker that died: a task more, a call less at
\* best.  A task nobody redelivers leaves a chance more.
LEMMA WorkerFaultMints ==
    ASSUME Steady, NEW p \in Posts, NEW s \in Slots, WorkerCrash(s) \/ TaskDies(s)
    PROVE  Mint(p, "task") \/ Mint(p, "chance")
<1> USE DEF Steady, TypeOK, ExecState
<1>1. UNCHANGED <<post, job, lock, rec, todo, made>> /\ exec' = [exec EXCEPT ![s] = NoExec]
  BY DEF WorkerCrash, TaskDies
<1>2. \A d \in Executors : exec'[d] = NoExec \/ exec'[d] = exec[d]
  BY <1>1
<1>3. Calls(p)' \subseteq Calls(p)
  <2>1. NoExec.post # p
    BY ConstantsAssumption DEF NoExec
  <2> QED  BY <1>2, <2>1 DEF Calls
<1>4. Held(p, "chance")' \subseteq Held(p, "chance") \cup {p}
  BY DEF Held
<1>5. CASE TaskDies(s)
  <2>1. \A kind \in Kinds \ {"chance"} : Held(p, kind)' \subseteq Held(p, kind)
    BY <1>1, <1>3, <1>5, Frames DEF Held, Kinds, TaskDies
  <2> QED  BY <1>4, <2>1 DEF Mint
<1>6. CASE WorkerCrash(s)
  <2>1. PICK j \in JobIds : /\ exec[s].job = j /\ exec[s].post = PostOf(j)
                            /\ arq' = [arq EXCEPT ![j] = arq[j] + 1]
    BY <1>6 DEF WorkerCrash, Assigned, Executors
  <2>2. CASE PostOf(j) # p
    <3>1. Tasks(p)' = Tasks(p)
      BY <2>1, <2>2 DEF Tasks
    <3>2. \A kind \in Kinds \ {"chance"} : Held(p, kind)' \subseteq Held(p, kind)
      BY <1>1, <1>3, <3>1, Frames DEF Held, Kinds
    <3> QED  BY <1>4, <3>2 DEF Mint
  <2>3. CASE PostOf(j) = p
    <3>1. Orphaned(p)' => Orphaned(p)
      BY <2>1, <2>3 DEF Orphaned
    <3>2. Held(p, "chance")' \subseteq Held(p, "chance")
      BY <1>1, <3>1, Frames, ChanceFrame DEF Held
    <3>3. Held(p, "task")' \subseteq Held(p, "task") \cup {<<j, arq[j] + 1>>}
      BY <2>1 DEF Held, Tasks
    <3>4. \A kind \in Kinds \ {"task"} : Held(p, kind)' \subseteq Held(p, kind)
      BY <1>1, <1>3, <3>2, Frames DEF Held, Kinds
    <3> QED  BY <3>3, <3>4 DEF Mint
  <2> QED  BY <2>2, <2>3
<1> QED  BY <1>5, <1>6

\* The tweet nobody was told of: it is there, and the call goes on as failed.
LEMMA LostAnswerMints ==
    ASSUME Steady, NEW p \in Posts, NEW e \in Executors, CallAnswerLost(e)
    PROVE  Mint(p, "tweet")
<1> USE DEF Steady, TypeOK, ExecState
<1>1. /\ UNCHANGED <<post, job, arq, lock, rec, todo>>
      /\ exec[e].pc = "call" /\ exec[e].post \in Posts
      /\ made' = [made EXCEPT ![exec[e].post] = made[exec[e].post] + 1]
  BY DEF CallAnswerLost, Assigned
<1>2. /\ exec'[e].post = exec[e].post /\ exec[e].result # "published"
      /\ \A d \in Executors : d # e => exec'[d] = exec[d]
  BY <1>1, CallSteps DEF CallsClean
<1>3. Calls(p)' \subseteq Calls(p)
  BY <1>2 DEF Calls
<1>4. Orphaned(p)' => Orphaned(p)
  BY <1>1, <1>2 DEF Orphaned
<1>5. Chance(p)' => Chance(p)
  BY <1>1, <1>4, Frames, ChanceFrame
<1>6. Held(p, "tweet")' \subseteq Held(p, "tweet") \cup {made[p] + 1}
  BY <1>1 DEF Held
<1>7. \A kind \in Kinds \ {"tweet"} : Held(p, kind)' \subseteq Held(p, kind)
  BY <1>1, <1>3, <1>5, Frames DEF Held, Kinds
<1> QED  BY <1>6, <1>7 DEF Mint

-----------------------------------------------------------------------------
(* Every step                                                              *)

\* The trades that need nothing else.
Ways == { <<"chance", "item">>, <<"stray", "item">>, <<"item", "task">>, <<"task", "call">>,
          <<"call", "tweet">>, <<"chance", "list">>, <<"list", "call">>, <<"item", "chance">> }

\* A call failed and left its job an attempt.
Retried(p) ==
    /\ Trade(p, "call", "chance")
    /\ \E j \in JobIds : /\ PostOf(j) = p /\ job'[j].status = "failed"
                         /\ job'[j].attempts < MaxAttempts

\* What a step may do to the tokens of p: nothing, drop some, trade one for
\* another, or, as a fault other than a refused task, add one.
LEMMA TokenStep ==
    ASSUME "user_edit" \notin Faults, Steady, Steady', [Next]_vars, NEW p \in Posts
    PROVE  \/ Keep(p)
           \/ \E way \in Ways : Trade(p, way[1], way[2])
           \/ Retried(p)
           \/ \E k \in Faults \ {"enqueue_fails"}, kind \in Kinds : Spend(k) /\ Mint(p, kind)
<1> DEFINE Paid == \E k \in Faults \ {"enqueue_fails"}, kind \in Kinds :
                      Spend(k) /\ Mint(p, kind)
           Moved == \E way \in Ways : Trade(p, way[1], way[2])
<1>0. \A from, to : <<from, to>> \in Ways /\ Trade(p, from, to) => Moved
  OBVIOUS
<1>1. CASE Time \/ RecoverStale
  BY <1>1, TimeKeeps
<1>2. CASE Users
  BY <1>2, UsersKeep
<1>3. ASSUME NEW i \in Instances, ReconcileAcquire(i) \/ ReconcilePass(i) \/ Legacy(i)
      PROVE  Keep(p) \/ Moved
  <2>1. CASE ReconcileClaim(i)
    BY <1>0, <2>1, ClaimTrades DEF Ways
  <2>2. CASE Legacy(i)
    BY <1>0, <2>2, LegacyTrades DEF Ways
  <2>3. CASE \/ ReconcileAcquire(i) \/ ReconcileAbort(i) \/ ReconcileMark(i)
             \/ ReconcileRelease(i) \/ \E j \in JobIds : ReconcileEnqueue(i, j)
    BY <1>0, <2>3, RunTrades DEF Ways
  <2> QED  BY <1>3, <2>1, <2>2, <2>3 DEF ReconcilePass
<1>4. ASSUME NEW s \in Slots, NEW j \in JobIds, WorkerStart(s, j)
      PROVE  Keep(p) \/ Moved
  BY <1>0, <1>4, StartTrades DEF Ways
<1>5. ASSUME NEW e \in Executors, Publishing(e)
      PROVE  Keep(p) \/ Moved \/ Retried(p)
  <2>1. CASE Load(e) \/ CallPublishes(e) \/ CallBlocked(e) \/ CallFails(e)
    BY <1>0, <2>1, CallTrades DEF Ways
  <2>2. CASE Save(e)
    BY <2>2, SaveKeeps
  <2>3. CASE Report(e)
    BY <2>3, ReportTrades DEF Retried
  <2> QED  BY <1>5, <2>1, <2>2, <2>3 DEF Publishing
<1>6. CASE Trouble
  <2>1. CASE \E q \in Posts : SlowPublish(q)
    <3>1. \E k \in Faults \ {"enqueue_fails"} : Spend(k)
      BY <2>1 DEF SlowPublish, Spend
    <3>2. Mint(p, "chance")
      BY <2>1, ProcessFaultMints
    <3> QED  BY <3>1, <3>2 DEF Kinds
  <2>2. CASE \E i \in Instances : InstanceCrash(i)
    <3>1. \E k \in Faults \ {"enqueue_fails"} : Spend(k)
      BY <2>2 DEF InstanceCrash, Spend
    <3>2. Mint(p, "chance")
      BY <2>2, ProcessFaultMints
    <3> QED  BY <3>1, <3>2 DEF Kinds
  <2>3. CASE LockOvertaken
    <3>1. \E k \in Faults \ {"enqueue_fails"} : Spend(k)
      BY <2>3 DEF LockOvertaken, Spend
    <3>2. Mint(p, "stray") \/ Mint(p, "chance")
      BY <2>3, OvertakenMints
    <3> QED  BY <3>1, <3>2 DEF Kinds
  <2>4. ASSUME NEW i \in Instances, ReconcileMarkFails(i)
        PROVE  Paid
    <3>1. \E k \in Faults \ {"enqueue_fails"} : Spend(k)
      BY <2>4 DEF ReconcileMarkFails, Spend
    <3>2. Mint(p, "chance")
      BY <2>4, MarkFailureMints
    <3> QED  BY <3>1, <3>2 DEF Kinds
  <2>5. ASSUME NEW i \in Instances, NEW j \in JobIds, ReconcileEnqueueFails(i, j)
        PROVE  Keep(p) \/ Moved
    BY <1>0, <2>5, EnqueueFailureTrades DEF Ways
  <2>6. ASSUME NEW s \in Slots, WorkerCrash(s) \/ TaskDies(s)
        PROVE  Paid
    <3>1. \E k \in Faults \ {"enqueue_fails"} : Spend(k)
      BY <2>6 DEF WorkerCrash, TaskDies, Spend
    <3>2. Mint(p, "task") \/ Mint(p, "chance")
      BY <2>6, WorkerFaultMints
    <3> QED  BY <3>1, <3>2 DEF Kinds
  <2>7. ASSUME NEW e \in Executors, CallAnswerLost(e)
        PROVE  Paid
    <3>1. \E k \in Faults \ {"enqueue_fails"} : Spend(k)
      BY <2>7 DEF CallAnswerLost, Spend
    <3>2. Mint(p, "tweet")
      BY <2>7, LostAnswerMints
    <3> QED  BY <3>1, <3>2 DEF Kinds
  <2> QED  BY <1>6, <2>1, <2>2, <2>3, <2>4, <2>5, <2>6, <2>7 DEF Trouble
<1>7. CASE UNCHANGED vars
  <2>1. UNCHANGED <<post, job, arq, lock, rec, todo, exec, made>>
    BY <1>7 DEF vars
  <2> QED  BY <2>1, Frames, ChanceFrame, KeepIntro
<1> QED  BY <1>1, <1>2, <1>3, <1>4, <1>5, <1>6, <1>7 DEF Next

LEMMA SteadyAlways ==
    ASSUME "user_edit" \notin Faults
    PROVE  Spec => []Steady
<1>1. /\ TypeOK /\ Assigned /\ RowsExist /\ CallsFollowPosts /\ JobsOpen /\ OneJobPerPost
      /\ RunsClean /\ CallsClean
      => Steady
  BY DEF Steady
<1> QED
  BY <1>1, TypeCorrect, RowsExistAlways, JobInvariant, RunsCleanAlways, CallsCleanAlways, PTL

-----------------------------------------------------------------------------
(* Counting tokens                                                         *)

LEMMA OneMore ==
    ASSUME NEW S, IsFiniteSet(S), NEW x
    PROVE  IsFiniteSet(S \cup {x}) /\ Cardinality(S \cup {x}) <= Cardinality(S) + 1
<1>1. Cardinality(S) \in Nat
  BY FS_CardinalityType
<1>2. /\ IsFiniteSet(S \cup {x})
      /\ \/ Cardinality(S \cup {x}) = Cardinality(S)
         \/ Cardinality(S \cup {x}) = Cardinality(S) + 1
  BY FS_AddElement
<1> QED  BY <1>1, <1>2

LEMMA KeptShare ==
    ASSUME NEW p, NEW kinds \in SUBSET Kinds, IsFiniteSet(Share(p, kinds)),
           \A kind \in kinds : Held(p, kind)' \subseteq Held(p, kind)
    PROVE  /\ IsFiniteSet(Share(p, kinds)')
           /\ Cardinality(Share(p, kinds)') <= Cardinality(Share(p, kinds))
<1>1. Share(p, kinds)' \subseteq Share(p, kinds)
  BY DEF Share
<1> QED  BY <1>1, FS_Subset

LEMMA TradedShare ==
    ASSUME NEW p, NEW kinds \in SUBSET Kinds, IsFiniteSet(Share(p, kinds)),
           NEW from \in kinds, NEW to \in Kinds, Trade(p, from, to)
    PROVE  /\ IsFiniteSet(Share(p, kinds)')
           /\ Cardinality(Share(p, kinds)') <= Cardinality(Share(p, kinds))
           /\ to \notin kinds => Cardinality(Share(p, kinds)') < Cardinality(Share(p, kinds))
<1> DEFINE S == Share(p, kinds)
<1>0. PICK x \in Held(p, from) : \E y :
             /\ Held(p, from)' \subseteq Held(p, from) \ {x}
             /\ Held(p, to)' \subseteq Held(p, to) \cup {y}
             /\ \A kind \in Kinds \ {from, to} : Held(p, kind)' \subseteq Held(p, kind)
  BY DEF Trade
<1>1. PICK y :
        /\ Held(p, from)' \subseteq Held(p, from) \ {x}
        /\ Held(p, to)' \subseteq Held(p, to) \cup {y}
        /\ \A kind \in Kinds \ {from, to} : Held(p, kind)' \subseteq Held(p, kind)
  BY <1>0
<1>2. <<from, x>> \in S
  BY DEF Share
<1>3. PICK rest : rest = S \ {<<from, x>>}
  OBVIOUS
<1>4. IsFiniteSet(rest) /\ Cardinality(rest) = Cardinality(S) - 1 /\ Cardinality(S) \in Nat
  BY <1>2, <1>3, FS_RemoveElement, FS_CardinalityType
<1>5. S' \subseteq rest \cup {<<to, y>>}
  <2> SUFFICES ASSUME NEW kind \in kinds, NEW z \in Held(p, kind)', <<kind, z>> # <<to, y>>
               PROVE  <<kind, z>> \in rest
    BY DEF Share
  <2>1. <<kind, z>> \in S
    BY <1>1 DEF Share
  <2>2. <<kind, z>> # <<from, x>>
    BY <1>1
  <2> QED  BY <1>3, <2>1, <2>2
<1>6. to \notin kinds => S' \subseteq rest
  BY <1>5 DEF Share
<1>7. /\ IsFiniteSet(rest \cup {<<to, y>>})
      /\ Cardinality(rest \cup {<<to, y>>}) <= Cardinality(rest) + 1
  BY <1>4, OneMore
<1>8. IsFiniteSet(S') /\ Cardinality(S') <= Cardinality(rest \cup {<<to, y>>})
  BY <1>5, <1>7, FS_Subset
<1>9. to \notin kinds => Cardinality(S') <= Cardinality(rest)
  BY <1>6, <1>4, FS_Subset
<1> QED  BY <1>4, <1>7, <1>8, <1>9, FS_CardinalityType

LEMMA MintedShare ==
    ASSUME NEW p, NEW kinds \in SUBSET Kinds, IsFiniteSet(Share(p, kinds)),
           NEW to \in Kinds, Mint(p, to)
    PROVE  /\ IsFiniteSet(Share(p, kinds)')
           /\ Cardinality(Share(p, kinds)') <= Cardinality(Share(p, kinds)) + 1
<1> DEFINE S == Share(p, kinds)
<1>1. PICK y : /\ Held(p, to)' \subseteq Held(p, to) \cup {y}
               /\ \A kind \in Kinds \ {to} : Held(p, kind)' \subseteq Held(p, kind)
  BY DEF Mint
<1>2. S' \subseteq S \cup {<<to, y>>}
  BY <1>1 DEF Share
<1>3. /\ IsFiniteSet(S \cup {<<to, y>>})
      /\ Cardinality(S \cup {<<to, y>>}) <= Cardinality(S) + 1
  BY OneMore
<1>4. IsFiniteSet(S') /\ Cardinality(S') <= Cardinality(S \cup {<<to, y>>})
  BY <1>2, <1>3, FS_Subset
<1> QED  BY <1>3, <1>4, FS_CardinalityType

-----------------------------------------------------------------------------
(* Tweets are paid for                                                     *)

LEMMA FaultsGrow ==
    ASSUME TypeOK, TypeOK', [Next]_vars
    PROVE  /\ faults \in Nat /\ faults' \in Nat /\ faults <= faults'
           /\ \A k \in Faults : Spend(k) => faults' = faults + 1
<1>1. faults \in Nat /\ faults' \in Nat
  BY ConstantsAssumption DEF TypeOK
<1>2. faults' = faults \/ faults' = faults + 1
  <2> USE DEF Spend
  <2>1. CASE Time \/ RecoverStale \/ UNCHANGED vars
    BY <2>1 DEF Time, PostDue, GoStale, RetryDue, LockExpires, RecoverStale, vars
  <2>2. CASE Users
    BY <2>2 DEF Users, CreatePost, PatchPost, DeletePost, DisconnectAccount
  <2>3. ASSUME NEW i \in Instances, ReconcileAcquire(i) \/ ReconcilePass(i)
        PROVE  faults' = faults
    BY <2>3 DEF ReconcileAcquire, ReconcilePass, ReconcileClaim, ReconcileAbort,
         ReconcileEnqueue, ReconcileMark, ReconcileRelease
  <2>4. ASSUME NEW i \in Instances, Legacy(i)
        PROVE  faults' = faults
    BY <2>4 DEF Legacy, LegacyClaim, LegacyNext
  <2>5. ASSUME NEW s \in Slots, NEW j \in JobIds, WorkerStart(s, j)
        PROVE  faults' = faults
    BY <2>5 DEF WorkerStart
  <2>6. ASSUME NEW e \in Executors, Publishing(e)
        PROVE  faults' = faults
    BY <2>6 DEF Publishing, Load, CallPublishes, CallBlocked, CallFails, Save, Report
  <2>7. CASE Trouble
    BY <2>7 DEF Trouble, SlowPublish, LockOvertaken, InstanceCrash, ReconcileMarkFails,
         ReconcileEnqueueFails, WorkerCrash, TaskDies, CallAnswerLost
  <2> QED  BY <2>1, <2>2, <2>3, <2>4, <2>5, <2>6, <2>7 DEF Next
<1> QED  BY <1>1, <1>2 DEF Spend

\* A post has at most one token that no fault has added.
Counted ==
    \A p \in Posts : IsFiniteSet(Tokens(p)) /\ Cardinality(Tokens(p)) <= 1 + faults

LEMMA FirstToken ==
    ASSUME Init, NEW p \in Posts
    PROVE  IsFiniteSet(Tokens(p)) /\ Cardinality(Tokens(p)) = 1
<1>1. post[p].status = "absent"
  BY DEF Init, NoPost
<1>2. /\ 1 .. made[p] = {} /\ Tasks(p) = {} /\ Calls(p) = {} /\ Lists(p) = {} /\ Items(p) = {}
      /\ Strays = {}
  <2>1. p # None
    BY ConstantsAssumption
  <2> QED  BY <2>1 DEF Init, Tasks, Calls, Lists, Items, Strays, NoExec, NoRun
<1>3. {q \in {p} : Chance(q)} = {p}
  BY <1>1 DEF Chance
<1>4. Tokens(p) = {<<"chance", p>>}
  BY <1>2, <1>3 DEF Tokens, Share, Held, Kinds
<1> QED  BY <1>4, FS_Singleton

LEMMA CountedStep ==
    ASSUME "user_edit" \notin Faults, Steady, Steady', Counted, [Next]_vars
    PROVE  Counted'
<1> SUFFICES ASSUME NEW p \in Posts
             PROVE  /\ IsFiniteSet(Share(p, Kinds)')
                    /\ Cardinality(Share(p, Kinds)') <= 1 + faults'
  BY DEF Counted, Tokens
<1>1. IsFiniteSet(Share(p, Kinds)) /\ Cardinality(Share(p, Kinds)) <= 1 + faults
  BY DEF Counted, Tokens
<1>2. /\ faults \in Nat /\ faults' \in Nat /\ faults <= faults'
      /\ \A k \in Faults : Spend(k) => faults' = faults + 1
  BY FaultsGrow DEF Steady
<1>3. IsFiniteSet(Share(p, Kinds)') => Cardinality(Share(p, Kinds)') \in Nat
  BY FS_CardinalityType
<1>4. Cardinality(Share(p, Kinds)) \in Nat
  BY <1>1, FS_CardinalityType
<1>5. CASE Keep(p)
  BY <1>1, <1>2, <1>3, <1>4, <1>5, KeptShare DEF Keep
<1>6. ASSUME NEW from \in Kinds, NEW to \in Kinds, Trade(p, from, to)
      PROVE  /\ IsFiniteSet(Share(p, Kinds)')
             /\ Cardinality(Share(p, Kinds)') <= 1 + faults'
  BY <1>1, <1>2, <1>3, <1>4, <1>6, TradedShare
<1>7. ASSUME NEW k \in Faults, NEW kind \in Kinds, Spend(k), Mint(p, kind)
      PROVE  /\ IsFiniteSet(Share(p, Kinds)')
             /\ Cardinality(Share(p, Kinds)') <= 1 + faults'
  BY <1>1, <1>2, <1>3, <1>4, <1>7, MintedShare
<1>8. \A way \in Ways : way[1] \in Kinds /\ way[2] \in Kinds
  BY DEF Ways, Kinds
<1>9. "call" \in Kinds /\ "chance" \in Kinds
  BY DEF Kinds
<1> QED  BY <1>5, <1>6, <1>7, <1>8, <1>9, TokenStep DEF Retried

LEMMA CountedAlways ==
    ASSUME "user_edit" \notin Faults
    PROVE  Spec => []Counted
<1>1. Init => Counted
  <2> SUFFICES ASSUME Init
               PROVE  Counted
    OBVIOUS
  <2>1. faults = 0
    BY DEF Init
  <2> QED  BY <2>1, FirstToken DEF Counted
<1>2. Steady /\ Steady' /\ Counted /\ [Next]_vars => Counted'
  BY CountedStep
<1> QED
  BY <1>1, <1>2, SteadyAlways, PTL DEF Spec

LEMMA TweetsAreTokens ==
    ASSUME TypeOK, NEW p \in Posts, IsFiniteSet(Tokens(p))
    PROVE  made[p] <= Cardinality(Tokens(p))
<1>1. made[p] \in Nat
  BY DEF TypeOK
<1>2. IsFiniteSet(1 .. made[p]) /\ Cardinality(1 .. made[p]) = made[p]
  <2>1. PICK n \in Nat : n = made[p]
    BY <1>1
  <2>2. /\ IsFiniteSet(1 .. n)
        /\ Cardinality(1 .. n) = IF 1 > n THEN 0 ELSE n - 1 + 1
    BY FS_Interval
  <2> QED  BY <2>1, <2>2
<1>3. IsFiniteSet({"tweet"}) /\ Cardinality({"tweet"}) = 1
  BY FS_Singleton
<1>4. Cardinality({"tweet"} \X (1 .. made[p])) = 1 * made[p]
  <2>1. PICK S : S = 1 .. made[p]
    OBVIOUS
  <2>2. Cardinality({"tweet"} \X S) = Cardinality({"tweet"}) * Cardinality(S)
    BY <1>2, <1>3, <2>1, FS_Product
  <2> QED  BY <1>2, <1>3, <2>1, <2>2
<1>5. {"tweet"} \X (1 .. made[p]) \subseteq Tokens(p)
  <2>1. Held(p, "tweet") = 1 .. made[p] /\ "tweet" \in Kinds
    BY DEF Held, Kinds
  <2> QED  BY <2>1 DEF Tokens, Share
<1>6. Cardinality({"tweet"} \X (1 .. made[p])) <= Cardinality(Tokens(p))
  BY <1>5, FS_Subset
<1> QED  BY <1>1, <1>4, <1>6

\* While no user edits posts, every tweet of a post beyond the first has a
\* fault of its own behind it, whatever the workers, passes, recoveries and
\* retries do with it afterwards.
THEOREM DuplicatesPaidForAlways ==
    ASSUME "user_edit" \notin Faults
    PROVE  Spec => []DuplicatesPaidFor
<1>1. TypeOK /\ Counted => DuplicatesPaidFor
  <2> SUFFICES ASSUME TypeOK, Counted, NEW p \in Posts
               PROVE  made[p] <= 1 + faults
    BY DEF DuplicatesPaidFor
  <2>1. IsFiniteSet(Tokens(p)) /\ Cardinality(Tokens(p)) <= 1 + faults
    BY DEF Counted
  <2>2. made[p] <= Cardinality(Tokens(p)) /\ Cardinality(Tokens(p)) \in Nat
    BY <2>1, TweetsAreTokens, FS_CardinalityType
  <2>3. made[p] \in Nat /\ faults \in Nat
    BY ConstantsAssumption DEF TypeOK
  <2> QED  BY <2>1, <2>2, <2>3
<1> QED
  BY <1>1, TypeCorrect, CountedAlways, PTL

-----------------------------------------------------------------------------
(* Attempts are paid for                                                   *)

\* Only the wrapper's first transaction counts an attempt.
LEMMA AttemptSteps ==
    ASSUME TypeOK, Assigned, RowsExist, [Next]_vars, NEW j \in JobIds
    PROVE  \/ /\ job'[j].attempts = job[j].attempts
              /\ job[j].status = "absent" <=> job'[j].status = "absent"
           \/ job[j].status = "absent" /\ job'[j] = CreateQueuedJob
           \/ /\ job'[j].attempts = job[j].attempts + 1
              /\ job[j].status # "absent" /\ job'[j].status # "absent"
              /\ \E s \in Slots : WorkerStart(s, j)
<1> DEFINE Same == /\ job'[j].attempts = job[j].attempts
                   /\ job[j].status = "absent" <=> job'[j].status = "absent"
<1> USE DEF TypeOK, JobRow
<1>1. ASSUME NEW i \in Instances, ReconcileClaim(i)
      PROVE  Same \/ (job[j].status = "absent" /\ job'[j] = CreateQueuedJob)
  <2>1. job' = [k \in JobIds |-> IF k \in NewJobs THEN CreateQueuedJob ELSE job[k]]
    BY <1>1 DEF ReconcileClaim
  <2> QED  BY <2>1, NewJobsFresh DEF FreshJobs
<1>2. ASSUME NEW i \in Instances, ReconcileMark(i)
      PROVE  Same
  <2>1. PICK c \in JobIds : /\ job' = [job EXCEPT ![c] = MarkEnqueued(job[c])]
                            /\ job[c].status # "absent"
    BY <1>2 DEF ReconcileMark, RowsExist
  <2> QED  BY <2>1 DEF MarkEnqueued
<1>3. ASSUME NEW k \in JobIds, RetryDue(k)
      PROVE  Same
  BY <1>3 DEF RetryDue
<1>4. ASSUME NEW s \in Slots, NEW k \in JobIds, WorkerStart(s, k)
      PROVE  \/ Same
             \/ /\ job'[j].attempts = job[j].attempts + 1
                /\ job[j].status # "absent" /\ job'[j].status # "absent"
                /\ WorkerStart(s, j)
  <2>1. CASE k = j
    BY <1>4, <2>1 DEF WorkerStart, MarkRunning, RowsExist
  <2>2. CASE k # j
    BY <1>4, <2>2 DEF WorkerStart, MarkRunning
  <2> QED  BY <2>1, <2>2
<1>5. ASSUME NEW e \in Executors, Report(e)
      PROVE  Same
  <2>1. PICK k \in JobIds \cup {None} : k = exec[e].job
    BY DEF ExecState
  <2>2. k # None => job[k].status # "absent"
    BY <2>1 DEF RowsExist
  <2>3. PICK row : /\ job' = [job EXCEPT ![k] = row]
                   /\ row \in {MarkCompleted(job[k]), MarkFailed(job[k], TRUE),
                               MarkFailed(job[k], FALSE)}
    BY <1>5, <2>1 DEF Report
  <2>4. CASE j # k
    BY <2>3, <2>4
  <2>5. CASE j = k
    <3>1. job'[j].attempts = job[j].attempts /\ job'[j].status # "absent"
      BY <2>3, <2>5 DEF MarkCompleted, MarkFailed
    <3> QED  BY <2>2, <2>5, <3>1, ConstantsAssumption DEF JobIds
  <2> QED  BY <2>4, <2>5
<1> QED  BY <1>1, <1>2, <1>3, <1>4, <1>5, OthersLeaveJob

\* The tokens that an attempt may still come from.
Waiting == {"chance", "stray", "item", "task"}

\* What a job may still be attempted is in its bound, the way the tokens of
\* its post are.
Allowed ==
    \A j \in JobIds :
      IF job[j].status = "absent"
      THEN job[j].attempts = 0
      ELSE job[j].attempts + Cardinality(Share(PostOf(j), Waiting)) <= MaxAttempts + faults

LEMMA WaitingFinite ==
    ASSUME NEW p, IsFiniteSet(Tokens(p))
    PROVE  /\ IsFiniteSet(Share(p, Waiting))
           /\ Cardinality(Share(p, Waiting)) \in Nat
           /\ Cardinality(Share(p, Waiting)) <= Cardinality(Tokens(p))
<1>1. Share(p, Waiting) \subseteq Tokens(p)
  BY DEF Share, Tokens, Waiting, Kinds
<1> QED  BY <1>1, FS_Subset, FS_CardinalityType

\* The same in the next state.
LEMMA WaitingThen ==
    ASSUME NEW p \in Posts, Counted', TypeOK'
    PROVE  /\ Cardinality(Share(p, Waiting)') \in Nat
           /\ Cardinality(Share(p, Waiting)') <= 1 + faults'
<1>1. IsFiniteSet(Tokens(p)') /\ Cardinality(Tokens(p)') <= 1 + faults'
  BY DEF Counted
<1>2. Share(p, Waiting)' \subseteq Tokens(p)'
  BY DEF Share, Tokens, Waiting, Kinds
<1>3. /\ IsFiniteSet(Share(p, Waiting)')
      /\ Cardinality(Share(p, Waiting)') <= Cardinality(Tokens(p)')
  BY <1>1, <1>2, FS_Subset
<1>4. /\ Cardinality(Share(p, Waiting)') \in Nat /\ Cardinality(Tokens(p)') \in Nat
      /\ faults' \in Nat
  BY <1>1, <1>3, FS_CardinalityType, ConstantsAssumption DEF TypeOK
<1> QED  BY <1>1, <1>3, <1>4

\* No trade but the retry of a failed call adds to what waits.
LEMMA WaitingStep ==
    ASSUME "user_edit" \notin Faults, Steady, Steady', Counted, [Next]_vars, NEW p \in Posts
    PROVE  \/ Cardinality(Share(p, Waiting)') <= Cardinality(Share(p, Waiting)) + faults' - faults
           \/ Retried(p)
<1>1. IsFiniteSet(Share(p, Waiting)) /\ Cardinality(Share(p, Waiting)) \in Nat
  BY WaitingFinite DEF Counted
<1>2. /\ faults \in Nat /\ faults' \in Nat /\ faults <= faults'
      /\ \A k \in Faults : Spend(k) => faults' = faults + 1
  BY FaultsGrow DEF Steady
<1>3. IsFiniteSet(Share(p, Waiting)') => Cardinality(Share(p, Waiting)') \in Nat
  BY FS_CardinalityType
<1>4. Waiting \in SUBSET Kinds
  BY DEF Waiting, Kinds
<1>5. ASSUME \A kind \in Waiting : Held(p, kind)' \subseteq Held(p, kind)
      PROVE  Cardinality(Share(p, Waiting)') <= Cardinality(Share(p, Waiting)) + faults' - faults
  BY <1>1, <1>2, <1>3, <1>4, <1>5, KeptShare
<1>6. ASSUME NEW from \in Waiting, NEW to \in Kinds, Trade(p, from, to)
      PROVE  Cardinality(Share(p, Waiting)') <= Cardinality(Share(p, Waiting)) + faults' - faults
  BY <1>1, <1>2, <1>3, <1>4, <1>6, TradedShare
<1>7. ASSUME NEW k \in Faults, NEW kind \in Kinds, Spend(k), Mint(p, kind)
      PROVE  Cardinality(Share(p, Waiting)') <= Cardinality(Share(p, Waiting)) + faults' - faults
  BY <1>1, <1>2, <1>3, <1>4, <1>7, MintedShare
<1>8. Keep(p) => \A kind \in Waiting : Held(p, kind)' \subseteq Held(p, kind)
  BY <1>4 DEF Keep
<1>9. Trade(p, "call", "tweet") \/ Trade(p, "list", "call")
        => \A kind \in Waiting : Held(p, kind)' \subseteq Held(p, kind)
  BY DEF Trade, Waiting, Kinds
<1>10. \A way \in Ways : \/ way[1] \in Waiting /\ way[2] \in Kinds
                         \/ way \in {<<"call", "tweet">>, <<"list", "call">>}
  BY DEF Ways, Waiting, Kinds
<1> QED  BY <1>5, <1>6, <1>7, <1>8, <1>9, <1>10, TokenStep

\* An attempt takes a task from what waits.
LEMMA StartTakes ==
    ASSUME Steady, Counted, NEW s \in Slots, NEW j \in JobIds, WorkerStart(s, j)
    PROVE  /\ Cardinality(Share(PostOf(j), Waiting)') < Cardinality(Share(PostOf(j), Waiting))
           /\ faults' = faults
<1>1. PostOf(j) \in Posts
  BY DEF JobIds, PostOf
<1>2. Trade(PostOf(j), "task", "call")
  BY <1>1, StartTrades
<1>3. IsFiniteSet(Share(PostOf(j), Waiting))
  BY <1>1, WaitingFinite DEF Counted
<1>4. "task" \in Waiting /\ "call" \in Kinds /\ "call" \notin Waiting /\ Waiting \in SUBSET Kinds
  BY DEF Waiting, Kinds
<1>5. Cardinality(Share(PostOf(j), Waiting)') < Cardinality(Share(PostOf(j), Waiting))
  BY <1>2, <1>3, <1>4, TradedShare
<1> QED  BY <1>5 DEF WorkerStart

LEMMA AllowedStep ==
    ASSUME "user_edit" \notin Faults, Steady, Steady', Counted, Counted', Allowed, [Next]_vars
    PROVE  Allowed'
<1> SUFFICES ASSUME NEW j \in JobIds
             PROVE  IF job'[j].status = "absent"
                    THEN job'[j].attempts = 0
                    ELSE job'[j].attempts + Cardinality(Share(PostOf(j), Waiting)')
                           <= MaxAttempts + faults'
  BY DEF Allowed
<1>1. PICK p \in Posts : p = PostOf(j)
  BY DEF JobIds, PostOf
<1>2. /\ Cardinality(Share(p, Waiting)) \in Nat
      /\ Cardinality(Share(p, Waiting)') \in Nat
      /\ Cardinality(Share(p, Waiting)') <= 1 + faults'
  BY WaitingFinite, WaitingThen DEF Counted, Steady
<1>3. /\ faults \in Nat /\ faults' \in Nat /\ faults <= faults'
      /\ job[j].attempts \in Nat /\ MaxAttempts \in Nat \ {0}
  BY FaultsGrow, MaxAttemptsAssumption DEF Steady, TypeOK, JobRow
<1>4. IF job[j].status = "absent"
      THEN job[j].attempts = 0
      ELSE job[j].attempts + Cardinality(Share(p, Waiting)) <= MaxAttempts + faults
  BY <1>1 DEF Allowed
<1>5. CASE /\ job'[j].attempts = job[j].attempts
           /\ job[j].status = "absent" <=> job'[j].status = "absent"
  <2>1. CASE job'[j].status = "absent"
    BY <1>4, <1>5, <2>1
  <2>2. CASE /\ job'[j].status # "absent"
             /\ Cardinality(Share(p, Waiting)')
                  <= Cardinality(Share(p, Waiting)) + faults' - faults
    BY <1>1, <1>2, <1>3, <1>4, <1>5, <2>2
  <2>3. CASE job'[j].status # "absent" /\ Retried(p)
    <3>1. PICK k \in JobIds : /\ PostOf(k) = p /\ job'[k].status = "failed"
                              /\ job'[k].attempts < MaxAttempts
      BY <2>3 DEF Retried
    <3>2. k = j
      BY <1>1, <2>3, <3>1 DEF Steady, OneJobPerPost
    <3> QED  BY <1>1, <1>2, <1>3, <1>5, <2>3, <3>1, <3>2
  <2> QED  BY <2>1, <2>2, <2>3, WaitingStep
<1>6. CASE job[j].status = "absent" /\ job'[j] = CreateQueuedJob
  <2>1. job'[j].attempts = 0 /\ job'[j].status # "absent"
    BY <1>6 DEF CreateQueuedJob, NoJob
  <2> QED  BY <1>1, <1>2, <1>3, <2>1
<1>7. CASE /\ job'[j].attempts = job[j].attempts + 1
           /\ job[j].status # "absent" /\ job'[j].status # "absent"
           /\ \E s \in Slots : WorkerStart(s, j)
  <2>1. /\ Cardinality(Share(p, Waiting)') < Cardinality(Share(p, Waiting))
        /\ faults' = faults
    BY <1>1, <1>7, StartTakes
  <2> QED  BY <1>1, <1>2, <1>3, <1>4, <1>7, <2>1
<1> QED  BY <1>5, <1>6, <1>7, AttemptSteps DEF Steady

\* While no user edits posts, no job is attempted more often than max_attempts
\* but for one attempt a fault: a task ARQ has redelivered, one a second pass
\* has queued for the same job, or one of a job whose task had died.
THEOREM AttemptsBoundedAlways ==
    ASSUME "user_edit" \notin Faults
    PROVE  Spec => []AttemptsBounded
<1>1. Init => Allowed
  BY DEF Init, Allowed, NoJob
<1>2. Steady /\ Steady' /\ Counted /\ Counted' /\ Allowed /\ [Next]_vars => Allowed'
  BY AllowedStep
<1>3. Steady /\ Counted /\ Allowed => AttemptsBounded
  <2> SUFFICES ASSUME Steady, Counted, Allowed, NEW j \in JobIds
               PROVE  job[j].attempts <= MaxAttempts + faults
    BY DEF AttemptsBounded
  <2>1. PostOf(j) \in Posts
    BY DEF JobIds, PostOf
  <2>2. Cardinality(Share(PostOf(j), Waiting)) \in Nat
    BY <2>1, WaitingFinite DEF Counted
  <2>3. job[j].attempts \in Nat /\ MaxAttempts \in Nat /\ faults \in Nat
    BY MaxAttemptsAssumption, ConstantsAssumption DEF Steady, TypeOK, JobRow
  <2> QED  BY <2>2, <2>3 DEF Allowed
<1> QED
  BY <1>1, <1>2, <1>3, SteadyAlways, CountedAlways, PTL DEF Spec

=============================================================================
