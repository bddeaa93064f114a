---------------------------- MODULE MediaUpload ----------------------------
(***************************************************************************)
(* A tweet with media: every stored file is fetched, uploaded to X and     *)
(* waited for until X has processed it; then the tweet is created with the *)
(* media ids.  publish_single_post does this in an ARQ task, which is      *)
(* cancelled when it takes too long and is attempted again after a         *)
(* failure, or in the legacy publisher; quote_post does it in a request.   *)
(*                                                                         *)
(* X processes media in its own time, while the client sleeps.             *)
(***************************************************************************)
EXTENDS Naturals, Sequences

CONSTANTS
    Items,        \* how many media the post has
    MaxPolls,     \* _MAX_STATUS_POLLS
    MaxWait,      \* bound: the longest check_after_secs X asks for
    JobTimeout,   \* arq_job_timeout_seconds, in the same unit
    MaxAttempts,  \* arq_max_tries
    None

ASSUME MediaAssumption ==
    {Items, MaxPolls, MaxWait, JobTimeout, MaxAttempts} \subseteq Nat \ {0}

VARIABLES
    caller,    \* who does it: "task", "legacy" or "quote"
    scope,     \* the account's grant has media.write
    file,      \* file[n]: what the row says of medium n
    media,     \* media[<<a, n>>]: on X, the upload of medium n in attempt a
    attempt,   \* the number of the attempt
    pc,        \* where the attempt is
    ids,       \* media_ids
    polls,     \* status polls of the current upload
    told,      \* the state X told last: "ready" also when it told none
    elapsed,   \* how long the attempt has waited, up to JobTimeout
    tweet      \* the media of the tweet on X, None: no tweet

inputs == <<caller, scope, file>>
vars == <<inputs, media, attempt, pc, ids, polls, told, elapsed, tweet>>

-----------------------------------------------------------------------------

\* A medium has a storage key, only a public URL, or neither; its content
\* type is stored or comes with the download, or not at all.
File == [source : {"key", "url", "none"}, typed : BOOLEAN]

MediaIds == (1 .. MaxAttempts) \X (1 .. Items)

Processing == {"pending", "ready", "broken"}

Running == {"start", "fetch", "upload", "wait", "create"}

\* failed: an error the classifier calls retryable; rejected: a permanent one.
Ended == {"done", "failed", "rejected", "cancelled"}
Refusals == {"failed", "rejected"}

TypeOK ==
    /\ caller \in {"task", "legacy", "quote"}
    /\ scope \in BOOLEAN
    /\ file \in [1 .. Items -> File]
    /\ media \in [MediaIds -> Processing \cup {"absent"}]
    /\ attempt \in 1 .. MaxAttempts
    /\ pc \in Running \cup Ended
    /\ ids \in Seq(MediaIds)
    /\ polls \in 0 .. MaxPolls
    /\ told \in Processing
    /\ elapsed \in 0 .. JobTimeout
    /\ tweet = None \/ tweet \in Seq(MediaIds)

Init ==
    /\ caller \in {"task", "legacy", "quote"}
    /\ scope \in BOOLEAN
    /\ file \in [1 .. Items -> File]
    /\ media = [m \in MediaIds |-> "absent"]
    /\ attempt = 1
    /\ pc = "start"
    /\ ids = <<>>
    /\ polls = 0
    /\ told = "ready"
    /\ elapsed = 0
    /\ tweet = None

-----------------------------------------------------------------------------

Current == Len(ids) + 1
CurrentId == <<attempt, Current>>

\* After an upload: the next medium, or the tweet.
AfterUpload(s) == IF Len(s) = Items THEN "create" ELSE "fetch"

\* The publisher alone checks the scope before it touches X.
Start ==
    /\ pc = "start"
    /\ pc' = IF caller # "quote" /\ ~scope THEN "rejected" ELSE "fetch"
    /\ UNCHANGED <<inputs, media, attempt, ids, polls, told, elapsed, tweet>>

\* Only the publisher falls back to the public URL.
HasSource(n) == file[n].source = "key" \/ (file[n].source = "url" /\ caller # "quote")

\* The download.  headerTyped: the response has a Content-Type.
Fetch(headerTyped) ==
    /\ pc = "fetch"
    /\ pc' = IF HasSource(Current) /\ (file[Current].typed \/ headerTyped)
             THEN "upload" ELSE "failed"
    /\ UNCHANGED <<inputs, media, attempt, ids, polls, told, elapsed, tweet>>

\* upload_media: without processing_info the medium is ready.
Upload(state) ==
    /\ pc = "upload"
    /\ media' = [media EXCEPT ![CurrentId] = state]
    /\ told' = state
    /\ polls' = 0
    /\ pc' = "wait"
    /\ UNCHANGED <<inputs, attempt, ids, elapsed, tweet>>

\* Mutant: one poll too many.
PollsLeftPlus == polls <= MaxPolls

PollsLeft == polls < MaxPolls

\* The storage or X answers any of the calls with an error status, or an upload
\* without a media id.
Refused(outcome) ==
    /\ \/ pc \in {"fetch", "upload", "create"}
       \/ pc = "wait" /\ told = "pending" /\ PollsLeft
    /\ pc' = outcome
    /\ UNCHANGED <<inputs, media, attempt, ids, polls, told, elapsed, tweet>>

\* X finishes with a medium.
Process(m, state) ==
    /\ media[m] = "pending"
    /\ media' = [media EXCEPT ![m] = state]
    /\ UNCHANGED <<inputs, attempt, pc, ids, polls, told, elapsed, tweet>>

\* Mutant: whatever is not a failure is good enough.
AcceptsPending(state, n) == state # "broken"

\* The loop looks at a state only while it has polls left: what the last poll
\* told is not looked at, "succeeded" included.
Accepts(state, n) == state = "ready" /\ n < MaxPolls

WaitEnds ==
    /\ pc = "wait"
    /\ Accepts(told, polls)
    /\ ids' = Append(ids, CurrentId)
    /\ pc' = AfterUpload(ids')
    /\ UNCHANGED <<inputs, media, attempt, polls, told, elapsed, tweet>>

\* RuntimeError: X failed, or the polls are used up.
WaitFails ==
    /\ pc = "wait"
    /\ told = "broken" \/ polls = MaxPolls
    /\ ~Accepts(told, polls)
    /\ pc' = "failed"
    /\ UNCHANGED <<inputs, media, attempt, ids, polls, told, elapsed, tweet>>

InTime == caller # "task" \/ elapsed < JobTimeout

\* Mutant: the loop has no counter.
CountsNone(n) == 0

Counts(n) == n + 1

\* Sleep and ask; X answers with the state the medium has by then.
Poll(wait) ==
    LET longer == elapsed + wait IN
    /\ pc = "wait" /\ told = "pending" /\ PollsLeft /\ InTime
    /\ elapsed' = CASE caller # "task" -> elapsed
                    [] longer > JobTimeout -> JobTimeout
                    [] OTHER -> longer
    /\ told' = media[CurrentId]
    /\ polls' = Counts(polls)
    /\ UNCHANGED <<inputs, media, attempt, pc, ids, tweet>>

\* ARQ cancels the task: nothing catches that, nothing reports it.
Cancel ==
    /\ caller = "task" /\ pc \in Running
    /\ elapsed = JobTimeout
    /\ pc' = "cancelled"
    /\ UNCHANGED <<inputs, media, attempt, ids, polls, told, elapsed, tweet>>

\* create_post, create_reply or create_quote.
Create ==
    /\ pc = "create"
    /\ tweet' = ids
    /\ pc' = "done"
    /\ UNCHANGED <<inputs, media, attempt, ids, polls, told, elapsed>>

\* Mutant: the list outlives the attempt.
KeptIds == ids

NoIds == <<>>

\* The next attempt, from the queue or after the recovery, starts over with
\* uploads of its own.
Retry ==
    /\ caller = "task"
    /\ pc \in {"failed", "cancelled"}
    /\ attempt < MaxAttempts
    /\ attempt' = attempt + 1
    /\ ids' = NoIds
    /\ pc' = "start"
    /\ polls' = 0 /\ told' = "ready" /\ elapsed' = 0
    /\ UNCHANGED <<inputs, media, tweet>>

Over == pc \in Ended /\ (pc \in {"done", "rejected"} \/ caller # "task" \/ attempt = MaxAttempts)

Step ==
    \/ Start
    \/ \E headerTyped \in BOOLEAN : Fetch(headerTyped)
    \/ \E state \in Processing : Upload(state)
    \/ WaitEnds
    \/ WaitFails
    \/ \E wait \in 1 .. MaxWait : Poll(wait)
    \/ Cancel
    \/ Create

Next ==
    \/ Step
    \/ \E outcome \in Refusals : Refused(outcome)
    \/ Retry
    \/ \E m \in MediaIds, state \in {"ready", "broken"} : Process(m, state)
    \/ Over /\ UNCHANGED vars

Spec == Init /\ [][Next]_vars

\* The attempt goes on; X owes nothing, not even a refusal.
FairSpec == Spec /\ WF_vars(Step)

-----------------------------------------------------------------------------

\* A tweet has all the media of its post, in order, from one attempt, and X
\* had finished every one of them before the tweet was created.
TweetComplete ==
    tweet # None =>
      /\ \E a \in 1 .. MaxAttempts : tweet = [n \in 1 .. Items |-> <<a, n>>]
      /\ \A n \in DOMAIN tweet : media[tweet[n]] = "ready"

\* A publication or quote comes to an end even if X never finishes a medium
\* and never refuses to answer: by the count of polls or by the job timeout.
AttemptEnds == pc \in Running ~> pc \in Ended

=============================================================================
