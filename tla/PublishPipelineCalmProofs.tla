---------------------- MODULE PublishPipelineCalmProofs ----------------------
(***************************************************************************)
(* The pipeline when nothing worse happens than Redis refusing a task: the *)
(* reconciler, the legacy publisher, the recovery and the worker together  *)
(* tweet a post once, show it published exactly then, and implement        *)
(* PostLifecycle.                                                          *)
(*                                                                         *)
(* The hypothesis is as weak as it can be: with any other fault the code   *)
(* does tweet a post twice or loses track of a tweet.                      *)
(*                                                                         *)
(* The argument counts tokens.  No step of the calm system adds one, so a  *)
(* post has one at most, and a post with a tweet has no task, call, list   *)
(* entry, item or chance of another.                                       *)
(***************************************************************************)
EXTENDS PublishPipelineTokenProofs

Calm == Faults \subseteq {"enqueue_fails"}

-----------------------------------------------------------------------------
(* One token                                                               *)

OneToken == \A p \in Posts : IsFiniteSet(Tokens(p)) /\ Cardinality(Tokens(p)) <= 1

LEMMA OneTokenStep ==
    ASSUME Calm, Steady, Steady', OneToken, [Next]_vars
    PROVE  OneToken'
<1> SUFFICES ASSUME NEW p \in Posts
             PROVE  /\ IsFiniteSet(Share(p, Kinds)')
                    /\ Cardinality(Share(p, Kinds)') <= 1
  BY DEF OneToken, Tokens
<1>1. IsFiniteSet(Share(p, Kinds)) /\ Cardinality(Share(p, Kinds)) <= 1
  BY DEF OneToken, Tokens
<1>2. IsFiniteSet(Share(p, Kinds)') => Cardinality(Share(p, Kinds)') \in Nat
  BY FS_CardinalityType
<1>3. Cardinality(Share(p, Kinds)) \in Nat
  BY <1>1, FS_CardinalityType
<1>4. CASE Keep(p)
  BY <1>1, <1>2, <1>3, <1>4, KeptShare DEF Keep
<1>5. ASSUME NEW from \in Kinds, NEW to \in Kinds, Trade(p, from, to)
      PROVE  /\ IsFiniteSet(Share(p, Kinds)')
             /\ Cardinality(Share(p, Kinds)') <= 1
  BY <1>1, <1>2, <1>3, <1>5, TradedShare
<1>6. \A way \in Ways : way[1] \in Kinds /\ way[2] \in Kinds
  BY DEF Ways, Kinds
<1>7. "call" \in Kinds /\ "chance" \in Kinds
  BY DEF Kinds
<1>8. "user_edit" \notin Faults /\ Faults \ {"enqueue_fails"} = {}
  BY DEF Calm
<1> QED  BY <1>4, <1>5, <1>6, <1>7, <1>8, TokenStep DEF Retried

LEMMA OneTokenAlways ==
    ASSUME Calm
    PROVE  Spec => [](Steady /\ OneToken)
<1>1. Init => OneToken
  BY FirstToken DEF OneToken
<1>2. Steady /\ Steady' /\ OneToken /\ [Next]_vars => OneToken'
  BY OneTokenStep
<1>3. Spec => []Steady
  BY SteadyAlways DEF Calm
<1> QED
  BY <1>1, <1>2, <1>3, PTL DEF Spec

LEMMA TokensEqual ==
    ASSUME OneToken, NEW p \in Posts, NEW x \in Tokens(p), NEW y \in Tokens(p)
    PROVE  x = y
<1>1. PICK S : S = Tokens(p) \ {x}
  OBVIOUS
<1>2. IsFiniteSet(Tokens(p)) /\ Cardinality(Tokens(p)) <= 1 /\ Cardinality(Tokens(p)) \in Nat
  BY FS_CardinalityType DEF OneToken
<1>3. IsFiniteSet(S) /\ Cardinality(S) = Cardinality(Tokens(p)) - 1 /\ Cardinality(S) \in Nat
  BY <1>1, <1>2, FS_RemoveElement, FS_CardinalityType
<1>4. S = {}
  BY <1>2, <1>3, FS_EmptySet
<1> QED  BY <1>1, <1>4

\* Tokens of two kinds, or two tokens of one kind, are too many.
LEMMA HeldOnce ==
    ASSUME OneToken, NEW p \in Posts, NEW k \in Kinds, NEW l \in Kinds,
           NEW x \in Held(p, k), NEW y \in Held(p, l)
    PROVE  k = l /\ x = y
<1>1. <<k, x>> \in Tokens(p) /\ <<l, y>> \in Tokens(p)
  BY DEF Tokens, Share
<1> QED  BY <1>1, TokensEqual

\* A second tweet would be a second token.
LEMMA MadeOnce ==
    ASSUME TypeOK, OneToken, NEW p \in Posts
    PROVE  made[p] \in {0, 1}
<1>1. made[p] \in Nat
  BY DEF TypeOK
<1>2. made[p] > 1 => 1 \in Held(p, "tweet") /\ 2 \in Held(p, "tweet")
  BY <1>1 DEF Held
<1>3. ~(made[p] > 1)
  BY <1>2, HeldOnce DEF Kinds
<1> QED  BY <1>1, <1>3

\* Whatever may still tweet a post tells that it has no tweet, and that no
\* claim or retry may take it up.
LEMMA NoTweetYet ==
    ASSUME TypeOK, OneToken, NEW p \in Posts,
           \/ \E e \in Executors : exec[e].post = p /\ exec[e].result # "published"
           \/ Chance(p)
    PROVE  made[p] = 0
<1>1. made[p] \in Nat
  BY DEF TypeOK
<1>2. CASE Chance(p)
  <2>1. p \in Held(p, "chance") /\ (made[p] # 0 => 1 \in Held(p, "tweet"))
    BY <1>1, <1>2 DEF Held
  <2> QED  BY <2>1, HeldOnce DEF Kinds
<1>3. ASSUME NEW e \in Executors, exec[e].post = p, exec[e].result # "published"
      PROVE  made[p] = 0
  <2>1. e \in Held(p, "call") /\ (made[p] # 0 => 1 \in Held(p, "tweet"))
    BY <1>1, <1>3 DEF Held, Calls
  <2> QED  BY <2>1, HeldOnce DEF Kinds
<1> QED  BY <1>2, <1>3

LEMMA CalledPosts ==
    ASSUME TypeOK, OneToken, NEW p \in Posts,
           \/ \E e \in Executors : exec[e].post = p /\ exec[e].result # "published"
           \/ made[p] # 0
    PROVE  post[p].status \in {"publishing", "published", "failed"}
<1> SUFFICES ASSUME post[p].status \in {"absent", "draft", "scheduled"}
             PROVE  FALSE
  BY DEF TypeOK, PostRow, PostStatus
<1>1. Chance(p)
  BY DEF Chance
<1>2. made[p] = 0
  BY <1>1, NoTweetYet
<1>3. PICK e \in Executors : exec[e].post = p /\ exec[e].result # "published"
  BY <1>2
<1>4. e \in Held(p, "call") /\ p \in Held(p, "chance")
  BY <1>1, <1>3 DEF Held, Calls
<1> QED  BY <1>4, HeldOnce DEF Kinds

-----------------------------------------------------------------------------
(* At most one tweet                                                       *)

\* When nothing worse happens than a refused task, X gets a post once, though
\* claims, recoveries, retries and the legacy publisher interleave freely.
THEOREM AtMostOneTweetAlways ==
    ASSUME Calm
    PROVE  Spec => []AtMostOneTweet
<1>1. Steady /\ OneToken => AtMostOneTweet
  <2> SUFFICES ASSUME Steady, OneToken, NEW p \in Posts
               PROVE  made[p] <= 1
    BY DEF AtMostOneTweet
  <2>1. made[p] \in {0, 1}
    BY MadeOnce DEF Steady
  <2> QED  BY <2>1
<1> QED
  BY <1>1, OneTokenAlways, PTL

-----------------------------------------------------------------------------
(* Rows and results                                                        *)

\* What a step may do to the status and the id of a row nobody edits.
LEMMA RowSteps ==
    ASSUME "user_edit" \notin Faults, TypeOK, Assigned, [Next]_vars, NEW p \in Posts
    PROVE  \/ post'[p].status = post[p].status /\ post'[p].pid = post[p].pid
           \/ /\ post[p].status = "absent" /\ post'[p].status \in {"draft", "scheduled"}
              /\ post'[p].pid = 0
           \/ /\ post[p].status = "scheduled" /\ post'[p].status = "publishing"
              /\ post'[p].pid = post[p].pid
           \/ /\ p \in StalePosts /\ post'[p].status = "scheduled"
              /\ post'[p].pid = post[p].pid
           \/ \E e \in Executors : /\ Save(e) /\ exec[e].post = p
                                   /\ post'[p] = SavedRow(post[p], exec[e])
<1> DEFINE Same == post'[p].status = post[p].status /\ post'[p].pid = post[p].pid
<1> USE DEF TypeOK, PostRow
<1>1. ASSUME NEW q \in Posts, PostDue(q) \/ GoStale(q) \/ SlowPublish(q)
      PROVE  Same
  <2>1. CASE PostDue(q)
    BY <2>1 DEF PostDue
  <2>2. CASE GoStale(q) \/ SlowPublish(q)
    BY <2>2 DEF GoStale, SlowPublish
  <2> QED  BY <1>1, <2>1, <2>2
<1>2. ASSUME RecoverStale
      PROVE  \/ Same
             \/ /\ p \in StalePosts /\ post'[p].status = "scheduled"
                /\ post'[p].pid = post[p].pid
  <2>1. CASE p \in StalePosts
    BY <1>2, <2>1 DEF RecoverStale
  <2>2. CASE p \notin StalePosts
    BY <1>2, <2>2 DEF RecoverStale
  <2> QED  BY <2>1, <2>2
<1>3. ASSUME NEW i \in Instances, ReconcileClaim(i) \/ LegacyClaim(i)
      PROVE  \/ Same
             \/ /\ post[p].status = "scheduled" /\ post'[p].status = "publishing"
                /\ post'[p].pid = post[p].pid
  <2>1. post' = Claimed(DuePosts)
    BY <1>3 DEF ReconcileClaim, LegacyClaim
  <2>2. CASE p \in DuePosts
    <3>1. post'[p] = [post[p] EXCEPT !.status = "publishing", !.stale = FALSE]
      BY <2>1, <2>2 DEF Claimed
    <3> QED  BY <2>2, <3>1 DEF DuePosts
  <2>3. CASE p \notin DuePosts
    BY <2>1, <2>3 DEF Claimed
  <2> QED  BY <2>2, <2>3
<1>4. ASSUME NEW e \in Executors, Save(e)
      PROVE  \/ Same
             \/ exec[e].post = p /\ post'[p] = SavedRow(post[p], exec[e])
  BY <1>4 DEF Save, Assigned
<1>5. ASSUME NEW q \in Posts, NEW due \in When, NEW linked \in BOOLEAN, CreatePost(q, due, linked)
      PROVE  \/ Same
             \/ /\ post[p].status = "absent" /\ post'[p].status \in {"draft", "scheduled"}
                /\ post'[p].pid = 0
  BY <1>5 DEF CreatePost, NoPost
<1>6. ~ \/ \E q \in Posts : DeletePost(q)
        \/ DisconnectAccount
        \/ \E q \in Posts, status \in PostStatus, due \in When, linked \in BOOLEAN :
             PatchPost(q, status, due, linked)
  BY DEF DeletePost, DisconnectAccount, PatchPost, Spend
<1> QED  BY <1>1, <1>2, <1>3, <1>4, <1>5, <1>6, OthersLeavePost

\* A call has published its post because X just told so, or since before.
LEMMA ResultSteps ==
    ASSUME TypeOK, CallsClean, [Next]_vars, NEW e \in Executors,
           exec'[e].result = "published"
    PROVE  \/ CallPublishes(e)
           \/ /\ exec[e].result = "published"
              /\ exec'[e].post = exec[e].post /\ exec'[e].tweet = exec[e].tweet
              /\ exec'[e].pc = exec[e].pc \/ Save(e)
<1> DEFINE Before == /\ exec[e].result = "published"
                     /\ exec'[e].post = exec[e].post /\ exec'[e].tweet = exec[e].tweet
                     /\ exec'[e].pc = exec[e].pc \/ Save(e)
<1> USE DEF TypeOK, ExecState
<1>1. ASSUME NEW d \in Executors, CallPublishes(d)
      PROVE  CallPublishes(e) \/ Before
  BY <1>1, CallSteps
<1>2. ASSUME NEW d \in Executors,
             CallBlocked(d) \/ CallFails(d) \/ CallAnswerLost(d) \/ Load(d)
      PROVE  Before
  <2>1. \A c \in Executors : c # d => exec'[c] = exec[c]
    BY <1>2, CallSteps DEF Load
  <2>2. exec'[d].result # "published"
    <3> USE ClassifyTyped
    <3>1. CASE CallBlocked(d)
      BY <3>1 DEF CallBlocked
    <3>2. CASE CallFails(d)
      BY <3>2 DEF CallFails
    <3>3. CASE CallAnswerLost(d)
      BY <3>3 DEF CallAnswerLost
    <3>4. CASE Load(d)
      BY <3>4 DEF Load, CallsClean
    <3> QED  BY <1>2, <3>1, <3>2, <3>3, <3>4
  <2> QED  BY <2>1, <2>2
<1>3. ASSUME NEW d \in Executors, Save(d)
      PROVE  Before
  <2>1. /\ exec'[d] = NoExec \/ exec'[d] = [exec[d] EXCEPT !.pc = "report"]
        /\ \A c \in Executors : c # d => exec'[c] = exec[c]
    BY <1>3 DEF Save
  <2> QED  BY <1>3, <2>1 DEF NoExec
<1>4. ASSUME NEW d \in Executors, Report(d)
      PROVE  Before
  BY <1>4 DEF Report, NoExec
<1>5. ASSUME NEW s \in Slots, WorkerCrash(s) \/ TaskDies(s)
      PROVE  Before
  BY <1>5 DEF WorkerCrash, TaskDies, NoExec
<1>6. ASSUME NEW i \in Instances, InstanceCrash(i)
      PROVE  Before
  BY <1>6 DEF InstanceCrash, NoExec
<1>7. ASSUME NEW i \in Instances, NEW p \in Posts, LegacyNext(i, p)
      PROVE  Before
  BY <1>7 DEF LegacyNext, NoExec
<1>8. ASSUME NEW s \in Slots, NEW j \in JobIds, WorkerStart(s, j)
      PROVE  Before
  BY <1>8 DEF WorkerStart, NoExec
<1>9. CASE UNCHANGED exec
  BY <1>9
<1> QED  BY <1>1, <1>2, <1>3, <1>4, <1>5, <1>6, <1>7, <1>8, <1>9, OthersLeaveExec

\* Ids and results refer to tweets X has created, results to different ones.
TweetsOwned ==
    /\ \A p \in Posts : post[p].pid <= made[p]
    /\ \A e \in Executors : exec[e].result = "published" =>
         exec[e].tweet > 0 /\ exec[e].tweet <= made[exec[e].post]
    /\ \A d, e \in Executors :
         /\ exec[d].result = "published" /\ exec[e].result = "published"
         /\ exec[d].post = exec[e].post /\ exec[d].tweet = exec[e].tweet
         => d = e

LEMMA MadeGrows ==
    ASSUME TypeOK, Assigned, [Next]_vars, NEW p \in Posts
    PROVE  made[p] \in Nat /\ made'[p] \in Nat /\ made[p] <= made'[p]
<1> USE DEF TypeOK
<1>1. ASSUME NEW e \in Executors, CallPublishes(e) \/ CallAnswerLost(e)
      PROVE  made'[p] = made[p] \/ made'[p] = made[p] + 1
  BY <1>1 DEF CallPublishes, CallAnswerLost
<1> QED  BY <1>1, OthersLeaveMade

LEMMA TweetsOwnedStep ==
    ASSUME "user_edit" \notin Faults, TypeOK, Assigned, CallsClean, TweetsOwned, [Next]_vars
    PROVE  TweetsOwned'
<1> USE DEF TypeOK
<1>0. \A e \in Executors :
        exec[e].result = "published" => exec[e].post \in Posts /\ exec[e].tweet \in Nat
  BY DEF Assigned, NoExec, ExecState
<1>1. ASSUME NEW p \in Posts
      PROVE  post'[p].pid <= made'[p]
  <2>1. post[p].pid \in Nat /\ post[p].pid <= made[p]
    BY DEF PostRow, TweetsOwned
  <2>2. made[p] \in Nat /\ made'[p] \in Nat /\ made[p] <= made'[p]
    BY MadeGrows
  <2>3. CASE post'[p].pid = post[p].pid \/ post'[p].pid = 0
    BY <2>1, <2>2, <2>3
  <2>4. ASSUME NEW e \in Executors, exec[e].post = p, post'[p] = SavedRow(post[p], exec[e])
        PROVE  post'[p].pid <= made'[p]
    <3>1. CASE exec[e].result = "published"
      <4>1. post'[p].pid = exec[e].tweet
        BY <2>4, <3>1 DEF SavedRow, PostRow
      <4> QED  BY <1>0, <2>2, <2>4, <3>1, <4>1 DEF TweetsOwned
    <3>2. CASE exec[e].result # "published"
      <4>1. post'[p].pid = post[p].pid
        BY <2>4, <3>2 DEF SavedRow, PostRow
      <4> QED  BY <2>3, <4>1
    <3> QED  BY <3>1, <3>2
  <2> QED  BY <2>3, <2>4, RowSteps
<1>2. ASSUME NEW e \in Executors, exec'[e].result = "published"
      PROVE  exec'[e].tweet > 0 /\ exec'[e].tweet <= made'[exec'[e].post]
  <2>1. CASE CallPublishes(e)
    <3>1. /\ exec[e].post \in Posts /\ exec'[e].post = exec[e].post
          /\ exec'[e].tweet = made[exec[e].post] + 1
          /\ made'[exec[e].post] = made[exec[e].post] + 1
      BY <2>1 DEF CallPublishes, Assigned, ExecState
    <3> QED  BY <3>1
  <2>2. CASE /\ exec[e].result = "published"
             /\ exec'[e].post = exec[e].post /\ exec'[e].tweet = exec[e].tweet
    <3>1. /\ exec[e].post \in Posts /\ exec[e].tweet \in Nat
          /\ exec[e].tweet > 0 /\ exec[e].tweet <= made[exec[e].post]
      BY <1>0, <2>2 DEF TweetsOwned
    <3> QED  BY <2>2, <3>1, MadeGrows
  <2> QED  BY <1>2, <2>1, <2>2, ResultSteps
<1>3. ASSUME NEW d \in Executors, NEW e \in Executors,
             exec'[d].result = "published", exec'[e].result = "published",
             exec'[d].post = exec'[e].post, exec'[d].tweet = exec'[e].tweet
      PROVE  d = e
  <2>1. ASSUME NEW c \in Executors, NEW b \in Executors, b # c, CallPublishes(c),
               exec'[b].result = "published", exec'[b].post = exec'[c].post
        PROVE  exec'[b].tweet # exec'[c].tweet
    <3>1. /\ exec[c].post \in Posts /\ exec'[c].post = exec[c].post
          /\ exec'[c].tweet = made[exec[c].post] + 1
          /\ exec'[b] = exec[b]
      BY <2>1 DEF CallPublishes, Assigned, ExecState
    <3>2. exec[b].tweet \in Nat /\ exec[b].tweet <= made[exec[c].post]
      BY <1>0, <2>1, <3>1 DEF TweetsOwned
    <3> QED  BY <3>1, <3>2
  <2>2. CASE CallPublishes(d) \/ CallPublishes(e)
    BY <1>3, <2>1, <2>2
  <2>3. CASE ~CallPublishes(d) /\ ~CallPublishes(e)
    <3>1. /\ exec[d].result = "published" /\ exec[e].result = "published"
          /\ exec'[d].post = exec[d].post /\ exec'[d].tweet = exec[d].tweet
          /\ exec'[e].post = exec[e].post /\ exec'[e].tweet = exec[e].tweet
      BY <1>3, <2>3, ResultSteps
    <3> QED  BY <1>3, <3>1 DEF TweetsOwned
  <2> QED  BY <2>2, <2>3
<1> QED  BY <1>1, <1>2, <1>3 DEF TweetsOwned

-----------------------------------------------------------------------------
(* What the row tells                                                      *)

\* No call has seen its post published: it would have had nothing to do.
SeenUnpublished == \A e \in Executors : exec[e].seen # "published"

\* A call reports a tweet after the row shows it.
ReportedPublished ==
    \A e \in Executors :
      exec[e].pc = "report" /\ exec[e].result = "published"
        => post[exec[e].post].status = "published"

Told ==
    /\ TweetsOwned /\ StatusTellsTweet
    /\ SeenUnpublished /\ ReportedPublished /\ CompletedMeansPublished

\* The commit of a call shows what the call did: the row did not show it yet,
\* or shows the same already.
LEMMA SaveTells ==
    ASSUME Steady, OneToken, Told, NEW e \in Executors, Save(e), NEW p \in Posts,
           exec[e].post = p
    PROVE  /\ post[p].status \in {"publishing", "published", "failed"}
           /\ IF exec[e].result = "published"
              THEN /\ post'[p].status = "published" /\ post'[p].pid # 0
                   /\ made[p] # 0
              ELSE /\ post'[p].status = "failed" /\ post'[p].pid = 0
                   /\ post[p].status # "published" /\ made[p] = 0
<1> USE DEF Steady, TypeOK, PostRow, ExecState
<1>1. post'[p] = SavedRow(post[p], exec[e]) /\ exec[e].seen # "published"
  BY DEF Save, Told, SeenUnpublished
<1>2. CASE exec[e].result = "published"
  <2>1. post'[p].status = "published" /\ post'[p].pid = exec[e].tweet
    BY <1>1, <1>2 DEF SavedRow, OrmWrite
  <2>2. exec[e].tweet > 0 /\ exec[e].tweet <= made[p]
    BY <1>2 DEF Told, TweetsOwned
  <2>3. made[p] # 0 /\ exec[e].tweet # 0
    BY <2>2
  <2>4. post[p].status \in {"publishing", "published", "failed"}
    BY <2>3, CalledPosts
  <2> QED  BY <1>2, <2>1, <2>3, <2>4
<1>3. CASE exec[e].result # "published"
  <2>1. made[p] = 0
    BY <1>3, NoTweetYet
  <2>2. post[p].pid = 0 /\ post[p].status # "published"
    BY <2>1 DEF Told, StatusTellsTweet
  <2>3. post[p].status \in {"publishing", "published", "failed"}
    BY <1>3, CalledPosts
  <2>4. post'[p].pid = post[p].pid
    BY <1>1, <1>3 DEF SavedRow
  <2>5. exec[e].seen = "failed" => post[p].status \in Finished
    BY DEF CallsFollowPosts, Finished
  <2>6. post'[p].status = "failed"
    BY <1>1, <1>3, <2>2, <2>5 DEF SavedRow, OrmWrite, Finished
  <2> QED  BY <1>3, <2>1, <2>2, <2>3, <2>4, <2>6
<1> QED  BY <1>2, <1>3

LEMMA PublishedStays ==
    ASSUME Calm, Steady, OneToken, Told, [Next]_vars, NEW p \in Posts,
           post[p].status = "published"
    PROVE  post'[p].status = "published"
<1>1. post[p].pid # 0 /\ made[p] # 0
  BY DEF Told, StatusTellsTweet, Steady, TypeOK, PostRow
<1>2. ASSUME NEW e \in Executors, Save(e), exec[e].post = p
      PROVE  post'[p].status = "published"
  BY <1>1, <1>2, SaveTells
<1>3. p \notin StalePosts
  BY DEF StalePosts
<1> QED  BY <1>2, <1>3, RowSteps DEF Calm, Steady

LEMMA ToldStep ==
    ASSUME Calm, Steady, Steady', OneToken, Told, [Next]_vars
    PROVE  Told'
<1>0. "user_edit" \notin Faults
  BY DEF Calm
<1>1. TweetsOwned'
  BY <1>0, TweetsOwnedStep DEF Steady, Told
<1>2. StatusTellsTweet'
  <2> SUFFICES ASSUME NEW p \in Posts
               PROVE  (post'[p].status = "published") <=> (post'[p].pid # 0)
    BY <1>1 DEF StatusTellsTweet, TweetsOwned
  <2>1. (post[p].status = "published") <=> (post[p].pid # 0)
    BY DEF Told, StatusTellsTweet
  <2>2. ASSUME NEW e \in Executors, Save(e), exec[e].post = p
        PROVE  (post'[p].status = "published") <=> (post'[p].pid # 0)
    BY <2>2, SaveTells
  <2>3. p \in StalePosts => post[p].status = "publishing"
    BY DEF StalePosts
  <2> QED  BY <1>0, <2>1, <2>2, <2>3, RowSteps DEF Steady
<1>3. SeenUnpublished'
  <2> USE DEF Steady, TypeOK, ExecState
  <2>0. SeenUnpublished
    BY DEF Told
  <2>1. ASSUME NEW e \in Executors, Load(e)
        PROVE  SeenUnpublished'
    <3>1. /\ exec[e].post \in Posts /\ exec[e].result # "published"
      BY <2>1 DEF Load, Assigned, CallsClean
    <3>2. made[exec[e].post] = 0
      BY <3>1, NoTweetYet
    <3>3. post[exec[e].post].status # "published"
      BY <3>1, <3>2 DEF Told, StatusTellsTweet, PostRow
    <3>4. /\ exec'[e].seen = post[exec[e].post].status
          /\ \A d \in Executors : d # e => exec'[d] = exec[d]
      BY <2>1 DEF Load
    <3> QED  BY <2>0, <3>3, <3>4 DEF SeenUnpublished
  <2>2. ASSUME NEW e \in Executors,
               CallPublishes(e) \/ CallBlocked(e) \/ CallFails(e) \/ CallAnswerLost(e)
        PROVE  SeenUnpublished'
    BY <2>0, <2>2, CallSteps DEF SeenUnpublished
  <2>3. ASSUME NEW e \in Executors, Save(e) \/ Report(e)
        PROVE  SeenUnpublished'
    BY <2>0, <2>3 DEF Save, Report, NoExec, SeenUnpublished
  <2>4. ASSUME NEW s \in Slots, WorkerCrash(s) \/ TaskDies(s)
        PROVE  SeenUnpublished'
    BY <2>0, <2>4 DEF WorkerCrash, TaskDies, NoExec, SeenUnpublished
  <2>5. ASSUME NEW i \in Instances, InstanceCrash(i) \/ \E p \in Posts : LegacyNext(i, p)
        PROVE  SeenUnpublished'
    <3>1. \A d \in Executors : exec'[d] = exec[d] \/ exec'[d].seen = "absent"
      <4>1. CASE InstanceCrash(i)
        BY <4>1 DEF InstanceCrash, NoExec
      <4>2. ASSUME NEW p \in Posts, LegacyNext(i, p)
            PROVE  \A d \in Executors : exec'[d] = exec[d] \/ exec'[d].seen = "absent"
        BY <4>2 DEF LegacyNext, NoExec
      <4> QED  BY <2>5, <4>1, <4>2
    <3> QED  BY <2>0, <3>1 DEF SeenUnpublished
  <2>6. ASSUME NEW s \in Slots, NEW j \in JobIds, WorkerStart(s, j)
        PROVE  SeenUnpublished'
    BY <2>0, <2>6 DEF WorkerStart, NoExec, SeenUnpublished
  <2>7. CASE UNCHANGED exec
    BY <2>0, <2>7 DEF SeenUnpublished
  <2> QED  BY <2>1, <2>2, <2>3, <2>4, <2>5, <2>6, <2>7, OthersLeaveExec
<1>4. ReportedPublished'
  <2> SUFFICES ASSUME NEW e \in Executors,
                      exec'[e].pc = "report", exec'[e].result = "published"
               PROVE  post'[exec'[e].post].status = "published"
    BY DEF ReportedPublished
  <2>1. ~CallPublishes(e)
    BY CallSteps DEF Steady
  <2>2. /\ exec[e].result = "published" /\ exec'[e].post = exec[e].post
        /\ exec'[e].pc = exec[e].pc \/ Save(e)
    BY <2>1, ResultSteps DEF Steady
  <2>3. exec[e].post \in Posts
    BY <2>2 DEF Steady, Assigned, NoExec
  <2>4. CASE Save(e)
    BY <2>2, <2>3, <2>4, SaveTells
  <2>5. CASE exec'[e].pc = exec[e].pc
    BY <2>2, <2>3, <2>5, PublishedStays DEF Told, ReportedPublished
  <2> QED  BY <2>2, <2>4, <2>5
<1>5. CompletedMeansPublished'
  <2> USE DEF Steady, TypeOK, JobRow
  <2> SUFFICES ASSUME NEW j \in JobIds, job'[j].status = "completed"
               PROVE  post'[PostOf(j)].status = "published"
    BY DEF CompletedMeansPublished
  <2>1. PostOf(j) \in Posts
    BY DEF JobIds, PostOf
  <2>2. CASE job[j].status = "completed"
    BY <2>1, <2>2, PublishedStays DEF Told, CompletedMeansPublished
  <2>3. CASE job[j].status # "completed"
    <3>1. \E e \in Executors : Report(e) /\ exec[e].job = j
      <4>1. ASSUME NEW i \in Instances, ReconcileClaim(i)
            PROVE  FALSE
        BY <2>3, <4>1 DEF ReconcileClaim, CreateQueuedJob, NoJob
      <4>2. ASSUME NEW i \in Instances, ReconcileMark(i)
            PROVE  FALSE
        BY <2>3, <4>2 DEF ReconcileMark, MarkEnqueued, RowsExist
      <4>3. ASSUME NEW k \in JobIds, RetryDue(k)
            PROVE  FALSE
        BY <2>3, <4>3 DEF RetryDue
      <4>4. ASSUME NEW s \in Slots, NEW k \in JobIds, WorkerStart(s, k)
            PROVE  FALSE
        BY <2>3, <4>4 DEF WorkerStart, MarkRunning
      <4>5. ASSUME NEW e \in Executors, Report(e), exec[e].job # j
            PROVE  FALSE
        BY <2>3, <4>5 DEF Report
      <4> QED  BY <2>3, <4>1, <4>2, <4>3, <4>4, <4>5, OthersLeaveJob
    <3>2. PICK e \in Executors : Report(e) /\ exec[e].job = j
      BY <3>1
    <3>3. exec[e].result = "published"
      BY <2>3, <3>2 DEF Report, MarkFailed
    <3>4. exec[e].pc = "report" /\ exec[e].post = PostOf(j)
      BY <3>2, ConstantsAssumption DEF Report, Assigned, Executors, JobIds
    <3>5. post[PostOf(j)].status = "published"
      BY <3>3, <3>4 DEF Told, ReportedPublished
    <3> QED  BY <2>1, <3>5, PublishedStays
  <2> QED  BY <2>2, <2>3
<1> QED  BY <1>1, <1>2, <1>3, <1>4, <1>5 DEF Told

LEMMA ToldAlways ==
    ASSUME Calm
    PROVE  Spec => []Told
<1>1. Init => Told
  BY DEF Init, Told, TweetsOwned, StatusTellsTweet, SeenUnpublished, ReportedPublished,
         CompletedMeansPublished, NoPost, NoExec, NoJob
<1>2. Steady /\ OneToken /\ (Steady /\ OneToken)' /\ Told /\ [Next]_vars => Told'
  BY ToldStep
<1> QED
  BY <1>1, <1>2, OneTokenAlways, PTL DEF Spec

\* When nothing worse happens than a refused task, the row tells whether X has
\* the tweet: published with its id, or neither.
THEOREM StatusTellsTweetAlways ==
    ASSUME Calm
    PROVE  Spec => []StatusTellsTweet
<1>1. Told => StatusTellsTweet
  BY DEF Told
<1> QED
  BY <1>1, ToldAlways, PTL

\* When nothing worse happens than a refused task, no job is completed before
\* its post shows published.
THEOREM CompletedMeansPublishedAlways ==
    ASSUME Calm
    PROVE  Spec => []CompletedMeansPublished
<1>1. Told => CompletedMeansPublished
  BY DEF Told
<1> QED
  BY <1>1, ToldAlways, PTL

-----------------------------------------------------------------------------
(* One call at a time                                                      *)

\* Whatever is going to publish a post, or is doing it, is alone.
LEMMA FlightsAlone ==
    ASSUME Steady, OneToken, Told
    PROVE  SingleFlight
<1> USE DEF Steady, TypeOK
<1> SUFFICES ASSUME NEW p \in Posts
             PROVE  LET queued == {j \in JobIds : PostOf(j) = p /\ arq[j] > 0}
                        calls  == {e \in Executors : exec[e].post = p}
                        listed == {i \in Instances : p \in todo[i]}
                    IN /\ \A j \in queued : arq[j] = 1
                       /\ \A x, y \in queued \cup calls \cup listed : x = y
  BY DEF SingleFlight
<1> DEFINE queued == {j \in JobIds : PostOf(j) = p /\ arq[j] > 0}
           calls  == {e \in Executors : exec[e].post = p}
           listed == {i \in Instances : p \in todo[i]}
<1>1. \A j \in queued : <<j, 1>> \in Held(p, "task") /\ (arq[j] > 1 => <<j, 2>> \in Held(p, "task"))
  <2> SUFFICES ASSUME NEW j \in queued
               PROVE  <<j, 1>> \in Tasks(p) /\ (arq[j] > 1 => <<j, 2>> \in Tasks(p))
    BY DEF Held
  <2>1. j \in JobIds /\ PostOf(j) = p /\ arq[j] \in Nat /\ arq[j] > 0
    OBVIOUS
  <2>2. 1 \in 1 .. arq[j] /\ (arq[j] > 1 => 2 \in 1 .. arq[j])
    BY <2>1
  <2> QED  BY <2>1, <2>2 DEF Tasks
<1>2. \A i \in listed : i \in Held(p, "list")
  BY DEF Held, Lists
<1>3. \A e \in calls : \/ e \in Held(p, "call") /\ exec[e].result # "published"
                       \/ /\ 1 \in Held(p, "tweet") /\ exec[e].result = "published"
                          /\ exec[e].tweet = 1
  <2> SUFFICES ASSUME NEW e \in calls, exec[e].result = "published"
               PROVE  1 \in 1 .. made[p] /\ exec[e].tweet = 1
    BY DEF Held, Calls
  <2>1. exec[e].tweet > 0 /\ exec[e].tweet <= made[p]
    BY DEF Told, TweetsOwned
  <2>2. exec[e].tweet \in Nat /\ made[p] \in Nat
    BY DEF ExecState
  <2>3. made[p] \in {0, 1}
    BY MadeOnce
  <2> QED  BY <2>1, <2>2, <2>3
<1>4. \A j \in queued : arq[j] = 1
  <2> SUFFICES ASSUME NEW j \in queued, arq[j] # 1
               PROVE  FALSE
    OBVIOUS
  <2>1. arq[j] > 1
    OBVIOUS
  <2>2. <<j, 1>> \in Held(p, "task") /\ <<j, 2>> \in Held(p, "task")
    BY <1>1, <2>1
  <2>3. <<j, 1>> = <<j, 2>>
    BY <2>2, HeldOnce DEF Kinds
  <2> QED  BY <2>3
<1>5. {"tweet", "task", "call", "list"} \subseteq Kinds
  BY DEF Kinds
<1>6. \A k, l \in Kinds : \A x \in Held(p, k), y \in Held(p, l) : k = l /\ x = y
  BY HeldOnce
<1>7. \A x \in queued, y \in queued : x = y
  <2> SUFFICES ASSUME NEW x \in queued, NEW y \in queued
               PROVE  x = y
    OBVIOUS
  <2>1. <<x, 1>> = <<y, 1>>
    BY <1>1, <1>5, <1>6
  <2> QED  BY <2>1
<1>8. \A x \in calls, y \in calls : x = y
  <2> SUFFICES ASSUME NEW x \in calls, NEW y \in calls
               PROVE  x = y
    OBVIOUS
  <2>1. CASE exec[x].result = "published" /\ exec[y].result = "published"
    BY <1>3, <2>1 DEF Told, TweetsOwned
  <2>2. CASE exec[x].result # "published" \/ exec[y].result # "published"
    BY <1>3, <1>5, <1>6, <2>2
  <2> QED  BY <2>1, <2>2
<1>9. \A x \in listed, y \in listed : x = y
  BY <1>2, <1>5, <1>6
<1>10. \A x \in queued, y \in calls : FALSE
  BY <1>1, <1>3, <1>5, <1>6
<1>11. \A x \in queued, y \in listed : FALSE
  BY <1>1, <1>2, <1>5, <1>6
<1>12. \A x \in calls, y \in listed : FALSE
  BY <1>2, <1>3, <1>5, <1>6
<1>13. \A x, y \in queued \cup calls \cup listed : x = y
  BY <1>7, <1>8, <1>9, <1>10, <1>11, <1>12
<1> QED  BY <1>4, <1>13

\* When nothing worse happens than a refused task, at most one task, call or
\* list entry is there at any time to publish a post.
THEOREM SingleFlightAlways ==
    ASSUME Calm
    PROVE  Spec => []SingleFlight
<1>1. Steady /\ OneToken /\ Told => SingleFlight
  BY FlightsAlone
<1> QED
  BY <1>1, OneTokenAlways, ToldAlways, PTL

-----------------------------------------------------------------------------
(* The legacy publisher and the queue                                      *)

\* A post on a list is in nobody's call.
LEMMA ListedAlone ==
    ASSUME Steady, OneToken, Told, NEW p \in Posts, NEW i \in Instances, p \in todo[i],
           NEW e \in Executors, exec[e].post = p
    PROVE  FALSE
<1>1. i \in Held(p, "list")
  BY DEF Held, Lists
<1>2. CASE exec[e].result # "published"
  <2>1. e \in Held(p, "call")
    BY <1>2 DEF Held, Calls
  <2> QED  BY <1>1, <2>1, HeldOnce DEF Kinds
<1>3. CASE exec[e].result = "published"
  <2>1. exec[e].tweet > 0 /\ exec[e].tweet <= made[p]
    BY <1>3 DEF Told, TweetsOwned
  <2>2. 1 \in Held(p, "tweet")
    BY <2>1 DEF Held, Steady, TypeOK, ExecState
  <2> QED  BY <1>1, <2>2, HeldOnce DEF Kinds
<1> QED  BY <1>2, <1>3

\* What a legacy pass has in hand is a token of the post, and one of its own.
LEMMA LegacyTokens ==
    ASSUME Steady, OneToken, Told, NEW p \in Posts, LegacyHolds(p)
    PROVE  \E kind \in {"tweet", "call", "list"} : Held(p, kind) # {}
<1>1. PICK i \in Instances : p \in todo[i] \/ exec[i].post = p
  BY DEF LegacyHolds
<1>2. i \in Executors
  BY DEF Executors
<1>3. CASE p \in todo[i]
  BY <1>3 DEF Held, Lists
<1>4. CASE exec[i].post = p /\ exec[i].result # "published"
  BY <1>2, <1>4 DEF Held, Calls
<1>5. CASE exec[i].post = p /\ exec[i].result = "published"
  <2>1. exec[i].tweet > 0 /\ exec[i].tweet <= made[p]
    BY <1>2, <1>5 DEF Told, TweetsOwned
  <2>2. 1 \in Held(p, "tweet")
    BY <1>2, <2>1 DEF Held, Steady, TypeOK, ExecState
  <2> QED  BY <2>2
<1> QED  BY <1>1, <1>3, <1>4, <1>5

\* The post is not finished before the pass lets go of it.
LegacyOpen == \A p \in Posts : LegacyHolds(p) => post[p].status \notin Finished

\* The steps that write the lists of the legacy passes.
LEMMA OthersLeaveTodo ==
    ASSUME [Next]_vars
    PROVE  \/ UNCHANGED todo
           \/ \E i \in Instances : LegacyClaim(i)
           \/ \E i \in Instances, p \in Posts : LegacyNext(i, p)
           \/ \E i \in Instances : InstanceCrash(i)
<1>1. Time \/ RecoverStale \/ UNCHANGED vars => UNCHANGED todo
  BY DEF Time, PostDue, GoStale, RetryDue, LockExpires, RecoverStale, vars
<1>2. (\E i \in Instances : ReconcileAcquire(i) \/ ReconcilePass(i)) => UNCHANGED todo
  BY DEF ReconcileAcquire, ReconcilePass, ReconcileClaim, ReconcileAbort, ReconcileEnqueue,
         ReconcileMark, ReconcileRelease
<1>3. Users => UNCHANGED todo
  BY DEF Users, CreatePost, PatchPost, DeletePost, DisconnectAccount
<1>4. (\E s \in Slots, j \in JobIds : WorkerStart(s, j)) => UNCHANGED todo
  BY DEF WorkerStart
<1>5. (\E e \in Executors : Publishing(e)) => UNCHANGED todo
  BY DEF Publishing, Load, CallPublishes, CallBlocked, CallFails, Save, Report
<1>6. Trouble => UNCHANGED todo \/ \E i \in Instances : InstanceCrash(i)
  <2>1. (\E p \in Posts : SlowPublish(p)) \/ LockOvertaken => UNCHANGED todo
    BY DEF SlowPublish, LockOvertaken
  <2>2. \A i \in Instances :
          ReconcileMarkFails(i) \/ (\E j \in JobIds : ReconcileEnqueueFails(i, j)) => UNCHANGED todo
    BY DEF ReconcileMarkFails, ReconcileEnqueueFails
  <2>3. (\E s \in Slots : WorkerCrash(s) \/ TaskDies(s)) => UNCHANGED todo
    BY DEF WorkerCrash, TaskDies
  <2>4. (\E e \in Executors : CallAnswerLost(e)) => UNCHANGED todo
    BY DEF CallAnswerLost
  <2> QED  BY <2>1, <2>2, <2>3, <2>4 DEF Trouble
<1> QED  BY <1>1, <1>2, <1>3, <1>4, <1>5, <1>6 DEF Next, Legacy

\* A pass calls what was on its list, and the list grows by a claim alone.
LEMMA LegacySteps ==
    ASSUME TypeOK, [Next]_vars, NEW p \in Posts, NEW i \in Instances
    PROVE  /\ exec'[i].post = p => exec[i].post = p \/ p \in todo[i]
           /\ p \in todo'[i] => p \in todo[i] \/ (LegacyClaim(i) /\ p \in DuePosts)
<1> USE DEF TypeOK, ExecState
<1>0. i \in Executors /\ NoExec.post \notin Posts /\ i \notin Slots
  BY ConstantsAssumption DEF Executors, NoExec
<1>1. ASSUME exec'[i].post = p
      PROVE  exec[i].post = p \/ p \in todo[i]
  <2>1. ASSUME NEW e \in Executors,
               \/ Load(e) \/ CallPublishes(e) \/ CallBlocked(e) \/ CallFails(e)
               \/ CallAnswerLost(e)
        PROVE  exec'[i].post = exec[i].post
    <3>1. CASE Load(e)
      BY <1>0, <3>1 DEF Load
    <3>2. CASE CallPublishes(e) \/ CallBlocked(e) \/ CallFails(e) \/ CallAnswerLost(e)
      BY <1>0, <3>2, CallSteps
    <3> QED  BY <2>1, <3>1, <3>2
  <2>2. ASSUME NEW e \in Executors, Save(e) \/ Report(e)
        PROVE  exec[i].post = p
    <3>1. exec'[e] = NoExec \/ exec'[e] = [exec[e] EXCEPT !.pc = "report"]
      BY <2>2 DEF Save, Report
    <3>2. \A d \in Executors : d # e => exec'[d] = exec[d]
      BY <2>2 DEF Save, Report
    <3> QED  BY <1>0, <1>1, <3>1, <3>2
  <2>3. ASSUME NEW s \in Slots, WorkerCrash(s) \/ TaskDies(s) \/ \E j \in JobIds : WorkerStart(s, j)
        PROVE  exec'[i] = exec[i]
    BY <1>0, <2>3 DEF WorkerCrash, TaskDies, WorkerStart
  <2>4. ASSUME NEW k \in Instances, NEW q \in Posts, LegacyNext(k, q)
        PROVE  exec[i].post = p \/ p \in todo[i]
    BY <1>0, <1>1, <2>4 DEF LegacyNext, NoExec
  <2>5. ASSUME NEW k \in Instances, InstanceCrash(k)
        PROVE  exec[i].post = p
    BY <1>0, <1>1, <2>5 DEF InstanceCrash
  <2> QED  BY <1>1, <2>1, <2>2, <2>3, <2>4, <2>5, OthersLeaveExec
<1>2. ASSUME p \in todo'[i]
      PROVE  p \in todo[i] \/ (LegacyClaim(i) /\ p \in DuePosts)
  <2>1. ASSUME NEW k \in Instances, LegacyClaim(k)
        PROVE  p \in todo[i] \/ (LegacyClaim(i) /\ p \in DuePosts)
    BY <1>2, <2>1 DEF LegacyClaim
  <2>2. ASSUME NEW k \in Instances, InstanceCrash(k) \/ \E q \in Posts : LegacyNext(k, q)
        PROVE  p \in todo[i]
    <3>1. CASE InstanceCrash(k)
      <4>1. todo' = [todo EXCEPT ![k] = {}]
        BY <3>1 DEF InstanceCrash
      <4> QED  BY <1>2, <4>1
    <3>2. ASSUME NEW q \in Posts, LegacyNext(k, q)
          PROVE  p \in todo[i]
      <4>1. todo' = [todo EXCEPT ![k] = todo[k] \ {q}]
        BY <3>2 DEF LegacyNext
      <4> QED  BY <1>2, <4>1
    <3> QED  BY <2>2, <3>1, <3>2
  <2> QED  BY <1>2, <2>1, <2>2, OthersLeaveTodo
<1> QED  BY <1>1, <1>2

LEMMA LegacyOpenStep ==
    ASSUME Calm, Steady, OneToken, Told, LegacyOpen, [Next]_vars
    PROVE  LegacyOpen'
<1> SUFFICES ASSUME NEW p \in Posts, NEW i \in Instances, p \in todo'[i] \/ exec'[i].post = p
             PROVE  post'[p].status \notin Finished
  BY DEF LegacyOpen, LegacyHolds
<1> USE DEF Steady
<1>1. CASE LegacyClaim(i) /\ p \in DuePosts
  BY <1>1 DEF LegacyClaim, Claimed, Finished, TypeOK, PostRow
<1>2. CASE p \in todo[i] \/ exec[i].post = p
  <2>1. post[p].status \notin Finished
    BY <1>2 DEF LegacyOpen, LegacyHolds
  <2>2. ASSUME NEW e \in Executors, Save(e), exec[e].post = p
        PROVE  FALSE
    <3>0. i \in Executors /\ NoExec.post # p
      BY ConstantsAssumption DEF Executors, NoExec
    <3>1. exec[i].post = p /\ p \notin todo[i]
      BY <1>2, <2>2, ListedAlone
    <3>2. e = i
      BY <2>2, <3>0, <3>1, FlightsAlone DEF SingleFlight
    <3>3. exec'[i] = NoExec /\ UNCHANGED todo
      BY <2>2, <3>0, <3>2 DEF Save, TypeOK, Assigned
    <3> QED  BY <3>0, <3>1, <3>3
  <2>3. post'[p].status = post[p].status \/ post'[p].status \in {"draft", "scheduled", "publishing"}
    BY <2>2, RowSteps DEF Calm
  <2> QED  BY <2>1, <2>3 DEF Finished
<1> QED  BY <1>1, <1>2, LegacySteps

\* Tokens of two kinds are too many, and a failed job has a finished post.
LEMMA ApartNow ==
    ASSUME Steady, OneToken, Told, LegacyOpen
    PROVE  LegacyExclusive
<1> SUFFICES ASSUME NEW p \in Posts, LegacyHolds(p), QueueHolds(p)
             PROVE  FALSE
  BY DEF LegacyExclusive
<1>1. PICK kind \in {"tweet", "call", "list"} : Held(p, kind) # {}
  BY LegacyTokens
<1>2. CASE \E s \in Slots : exec[s].post = p
  <2>1. PICK s \in Slots : exec[s].post = p
    BY <1>2
  <2>2. PICK i \in Instances : p \in todo[i] \/ exec[i].post = p
    BY DEF LegacyHolds
  <2>3. s \in Executors /\ i \in Executors /\ s # i
    BY ConstantsAssumption DEF Executors
  <2>4. exec[i].post = p
    BY <2>1, <2>2, <2>3, ListedAlone
  <2> QED  BY <2>1, <2>3, <2>4, FlightsAlone DEF SingleFlight
<1>3. ASSUME NEW j \in JobIds, PostOf(j) = p, arq[j] > 0
      PROVE  FALSE
  <2>1. arq[j] \in Nat /\ 1 \in 1 .. arq[j]
    BY <1>3 DEF Steady, TypeOK
  <2>2. <<j, 1>> \in Held(p, "task")
    BY <1>3, <2>1 DEF Held, Tasks
  <2> QED  BY <1>1, <2>2, HeldOnce DEF Kinds
<1>4. ASSUME NEW j \in JobIds, PostOf(j) = p, NEW i \in Instances, j \in rec[i].items
      PROVE  FALSE
  <2>1. <<i, j>> \in Held(p, "item")
    BY <1>4 DEF Held, Items
  <2> QED  BY <1>1, <2>1, HeldOnce DEF Kinds
<1>5. ASSUME NEW j \in JobIds, PostOf(j) = p, job[j].status = "failed"
      PROVE  FALSE
  BY <1>5, FailedAlone DEF LegacyOpen
<1> QED  BY <1>2, <1>3, <1>4, <1>5 DEF QueueHolds

\* When nothing worse happens than a refused task, a post a legacy pass has
\* claimed is in no run's list, task or worker and waits for no retry, and the
\* other way round (LegacyExclusive).
THEOREM LegacyExclusiveAlways ==
    ASSUME Calm
    PROVE  Spec => []LegacyExclusive
<1>1. Init => LegacyOpen
  BY ConstantsAssumption DEF Init, LegacyOpen, LegacyHolds, NoExec, NoPost, Finished
<1>2. Steady /\ OneToken /\ Told /\ LegacyOpen /\ [Next]_vars => LegacyOpen'
  BY LegacyOpenStep
<1>3. Steady /\ OneToken /\ Told /\ LegacyOpen => LegacyExclusive
  BY ApartNow
<1> QED
  BY <1>1, <1>2, <1>3, OneTokenAlways, ToldAlways, PTL DEF Spec

-----------------------------------------------------------------------------
(* The pipeline implements PostLifecycle                                   *)

LEMMA LifecycleInit == Init => Lifecycle!Init
BY DEF Init, Lifecycle!Init, NoPost

\* The steps that move a set of posts from one status to another.
LEMMA LifecycleClaim ==
    ASSUME TypeOK, post' = Claimed(DuePosts), UNCHANGED made, NEW S, S = DuePosts, S # {}
    PROVE  S \in SUBSET Posts /\ Lifecycle!Claim(S)
<1> USE DEF TypeOK, PostRow
<1>1. \A p \in S : p \in Posts /\ post[p].status = "scheduled"
  BY DEF DuePosts
<1>2. \A p \in Posts : post'[p].status = IF p \in S THEN "publishing" ELSE post[p].status
  BY DEF Claimed
<1> QED  BY <1>1, <1>2 DEF Lifecycle!Claim, Lifecycle!Move

LEMMA LifecycleRecover ==
    ASSUME Steady, OneToken, RecoverStale, NEW S, S = StalePosts
    PROVE  S \in SUBSET Posts /\ Lifecycle!Recover(S)
<1> USE DEF Steady, TypeOK, PostRow
<1>1. \A p \in S : p \in Posts /\ post[p].status = "publishing" /\ made[p] = 0
  BY NoTweetYet DEF StalePosts, Chance
<1>2. \A p \in Posts : post'[p].status = IF p \in S THEN "scheduled" ELSE post[p].status
  BY DEF RecoverStale
<1>3. S # {} /\ UNCHANGED made
  BY DEF RecoverStale
<1> QED  BY <1>1, <1>2, <1>3 DEF Lifecycle!Recover, Lifecycle!Move

LEMMA LifecycleTweet ==
    ASSUME Steady, OneToken, Told, NEW e \in Executors, CallPublishes(e)
    PROVE  \E p \in Posts : Lifecycle!Tweet(p)
<1> USE DEF Steady, TypeOK, PostRow
<1>1. PICK p \in Posts : p = exec[e].post
  BY DEF CallPublishes, Assigned
<1>2. /\ PredReady(p) /\ UNCHANGED post
      /\ made' = [made EXCEPT ![p] = made[p] + 1]
      /\ exec[e].result # "published"
  BY <1>1 DEF CallPublishes, CallsClean
<1>3. made[p] = 0
  BY <1>1, <1>2, NoTweetYet
<1>4. post[p].status \in {"publishing", "failed"}
  BY <1>1, <1>2, <1>3, CalledPosts DEF Told, StatusTellsTweet
<1>5. Pred[p] # None => Pred[p] \in Posts /\ post[Pred[p]].status = "published"
  BY <1>2, ConstantsAssumption DEF PredReady, Told, StatusTellsTweet
<1>6. made' = [made EXCEPT ![p] = 1]
  BY <1>2, <1>3
<1> QED  BY <1>2, <1>3, <1>4, <1>5, <1>6 DEF Lifecycle!Tweet

LEMMA LifecycleSave ==
    ASSUME Steady, OneToken, Told, NEW e \in Executors, Save(e)
    PROVE  \/ \E p \in Posts, status \in {"published", "failed"} : Lifecycle!Settle(p, status)
           \/ \A p \in Posts : post'[p].status = post[p].status
<1> USE DEF Steady, TypeOK, PostRow
<1>1. PICK p \in Posts : p = exec[e].post
  BY SaveFinishes
<1>2. UNCHANGED made /\ \A q \in Posts \ {p} : post'[q] = post[q]
  BY <1>1, SaveFinishes DEF Save
<1>3. /\ post[p].status \in {"publishing", "published", "failed"}
      /\ IF exec[e].result = "published"
         THEN post'[p].status = "published" /\ made[p] # 0
         ELSE post'[p].status = "failed" /\ post[p].status # "published" /\ made[p] = 0
  BY <1>1, SaveTells
<1>4. made[p] # 0 => made[p] = 1
  BY MadeOnce
<1>5. PICK status \in {"published", "failed"} :
             post'[p].status = status /\ status = IF made[p] = 1 THEN "published" ELSE "failed"
  BY <1>3, <1>4
<1>6. CASE post[p].status = "published"
  BY <1>2, <1>3, <1>6
<1>7. CASE post[p].status # "published"
  <2>1. post[p].status \in {"publishing", "failed"}
    BY <1>3, <1>7
  <2>2. [q \in Posts |-> post'[q].status]
          = [[q \in Posts |-> post[q].status] EXCEPT ![p] = status]
    BY <1>2, <1>5
  <2>3. Lifecycle!Settle(p, status)
    BY <1>2, <1>5, <2>1, <2>2 DEF Lifecycle!Settle
  <2> QED  BY <2>3
<1> QED  BY <1>6, <1>7

LEMMA LifecycleCreate ==
    ASSUME TypeOK, NEW p \in Posts, NEW due \in When, NEW linked \in BOOLEAN,
           CreatePost(p, due, linked)
    PROVE  Lifecycle!Create(p)
<1> USE DEF TypeOK, PostRow
<1>1. PICK status \in {"draft", "scheduled"} :
             post'[p].status = status /\ \A q \in Posts \ {p} : post'[q] = post[q]
  BY DEF CreatePost, NoPost
<1>2. post[p].status = "absent" /\ UNCHANGED made
  BY DEF CreatePost
<1>3. [q \in Posts |-> post'[q].status] = [[q \in Posts |-> post[q].status] EXCEPT ![p] = status]
  BY <1>1
<1> QED  BY <1>2, <1>3 DEF Lifecycle!Create

LEMMA LifecycleStep ==
    ASSUME Calm, Steady, OneToken, Told, [Next]_vars
    PROVE  [Lifecycle!Next]_(Lifecycle!vars)
<1> USE DEF Steady, TypeOK, PostRow
<1> DEFINE Same == UNCHANGED made /\ \A p \in Posts : post'[p].status = post[p].status
<1>1. Same => UNCHANGED Lifecycle!vars
  BY DEF Lifecycle!vars
<1>2. ASSUME NEW e \in Executors, CallPublishes(e)
      PROVE  Lifecycle!Next
  BY <1>2, LifecycleTweet DEF Lifecycle!Next
<1>3. \A e \in Executors : ~CallAnswerLost(e)
  BY DEF CallAnswerLost, Spend, Calm
<1>4. ASSUME NEW e \in Executors, Save(e)
      PROVE  Same \/ Lifecycle!Next
  <2>1. UNCHANGED made
    BY <1>4 DEF Save
  <2> QED  BY <1>4, <2>1, LifecycleSave DEF Lifecycle!Next
<1>5. ASSUME NEW i \in Instances, ReconcileClaim(i) \/ LegacyClaim(i)
      PROVE  Same \/ Lifecycle!Next
  <2>1. post' = Claimed(DuePosts) /\ UNCHANGED made
    BY <1>5 DEF ReconcileClaim, LegacyClaim
  <2>2. PICK S : S = DuePosts
    OBVIOUS
  <2>3. CASE S = {}
    BY <2>1, <2>2, <2>3 DEF Claimed
  <2>4. CASE S # {}
    <3>1. S \in SUBSET Posts /\ Lifecycle!Claim(S)
      BY <2>1, <2>2, <2>4, LifecycleClaim
    <3> QED  BY <3>1 DEF Lifecycle!Next
  <2> QED  BY <2>3, <2>4
<1>6. ASSUME RecoverStale
      PROVE  Lifecycle!Next
  <2>1. PICK S : S = StalePosts
    OBVIOUS
  <2>2. S \in SUBSET Posts /\ Lifecycle!Recover(S)
    BY <1>6, <2>1, LifecycleRecover
  <2> QED  BY <2>2 DEF Lifecycle!Next
<1>7. ASSUME NEW p \in Posts, NEW due \in When, NEW linked \in BOOLEAN,
             CreatePost(p, due, linked)
      PROVE  Lifecycle!Next
  BY <1>7, LifecycleCreate DEF Lifecycle!Next
<1>8. ASSUME NEW p \in Posts, PostDue(p) \/ GoStale(p) \/ SlowPublish(p)
      PROVE  Same
  BY <1>8 DEF PostDue, GoStale, SlowPublish
<1>9. ~ \/ \E q \in Posts : DeletePost(q)
        \/ DisconnectAccount
        \/ \E q \in Posts, status \in PostStatus, due \in When, linked \in BOOLEAN :
             PatchPost(q, status, due, linked)
  BY DEF DeletePost, DisconnectAccount, PatchPost, Spend, Calm
<1>10. CASE UNCHANGED post
  BY <1>1, <1>2, <1>3, <1>10, OthersLeaveMade
<1> QED
  BY <1>1, <1>4, <1>5, <1>6, <1>7, <1>8, <1>9, <1>10, OthersLeavePost

\* The pipeline implements PostLifecycle while nothing worse happens than a
\* refused task: seen from outside, a post is claimed, tweeted once after its
\* predecessor and settled, and taken back only while it has no tweet.
THEOREM LifecycleImplemented ==
    ASSUME Calm
    PROVE  Spec => ImplementsLifecycle
<1>1. Init => Lifecycle!Init
  BY LifecycleInit
<1>2. Steady /\ OneToken /\ Told /\ [Next]_vars => [Lifecycle!Next]_(Lifecycle!vars)
  BY LifecycleStep
<1> QED
  BY <1>1, <1>2, OneTokenAlways, ToldAlways, PTL DEF Spec, ImplementsLifecycle, Lifecycle!Spec

=============================================================================
