------------------------- MODULE MediaUploadProofs -------------------------
(***************************************************************************)
(* Theorems about MediaUpload, for any number of media, polls, attempts    *)
(* and for any job timeout: its types, and that a tweet has all the media  *)
(* of its post, each finished by X.                                        *)
(***************************************************************************)
EXTENDS MediaUpload, TLAPS

-----------------------------------------------------------------------------
(* The list of media ids and the upload that is under way                  *)

\* media_ids is the uploads of the current attempt so far, in the order of the
\* media, and X had finished each of them when it got there.
IdsInOrder ==
    /\ Len(ids) <= Items
    /\ \A n \in 1 .. Len(ids) : ids[n] = <<attempt, n>> /\ media[<<attempt, n>>] = "ready"

\* Where the attempt is fits the length of the list.
IdsSoFar ==
    /\ pc = "start" => ids = <<>>
    /\ pc \in {"fetch", "upload", "wait"} => Len(ids) < Items
    /\ pc = "create" => Len(ids) = Items

\* X knows the upload the client waits for, and a medium X has called ready
\* stays ready: what the client was told last is still so.
ToldIsSo ==
    pc = "wait" => /\ media[CurrentId] # "absent"
                   /\ told = "ready" => media[CurrentId] = "ready"

\* Nothing is attempted any more once there is a tweet.
TweetEnds == tweet # None => pc = "done"

UploadInv == TypeOK /\ IdsInOrder /\ IdsSoFar /\ ToldIsSo /\ TweetEnds

LEMMA CurrentMedium ==
    ASSUME UploadInv, pc \in {"fetch", "upload", "wait"}
    PROVE  /\ Current \in 1 .. Items
           /\ CurrentId \in MediaIds
           /\ Len(ids) \in Nat
<1>1. Len(ids) \in Nat /\ Len(ids) < Items
  BY DEF UploadInv, TypeOK, IdsSoFar
<1>2. Items \in Nat /\ attempt \in 1 .. MaxAttempts
  BY MediaAssumption DEF UploadInv, TypeOK
<1>3. Current \in 1 .. Items
  BY <1>1, <1>2 DEF Current
<1> QED  BY <1>1, <1>2, <1>3 DEF CurrentId, MediaIds

\* A step that leaves the list, the attempt and what is on X alone and does not
\* start to wait keeps the invariant if it ends or goes where the list allows.
LEMMA Quiet ==
    ASSUME UploadInv, UNCHANGED <<inputs, media, attempt, ids, polls, told, elapsed, tweet>>,
           pc # "done", pc' \in Running \cup Ended,
           pc' \notin {"start", "wait", "create"},
           pc' \in {"fetch", "upload"} => Len(ids) < Items
    PROVE  UploadInv'
<1>1. TypeOK'
  BY DEF UploadInv, TypeOK, inputs
<1>2. IdsInOrder'
  BY DEF UploadInv, IdsInOrder
<1>3. IdsSoFar'
  BY DEF IdsSoFar
<1>4. ToldIsSo' /\ TweetEnds'
  BY DEF UploadInv, ToldIsSo, TweetEnds
<1> QED  BY <1>1, <1>2, <1>3, <1>4 DEF UploadInv

LEMMA StartKeeps == ASSUME UploadInv, Start PROVE UploadInv'
<1>1. ids = <<>> /\ Items \in Nat \ {0}
  BY MediaAssumption DEF Start, UploadInv, IdsSoFar
<1>2. Len(ids) < Items
  BY <1>1
<1>3. pc' \in {"rejected", "fetch"}
  BY DEF Start
<1> QED  BY <1>2, <1>3, Quiet DEF Start, Running, Ended

LEMMA FetchKeeps ==
    ASSUME UploadInv, NEW headerTyped \in BOOLEAN, Fetch(headerTyped) PROVE UploadInv'
<1>1. Len(ids) < Items
  BY DEF Fetch, UploadInv, IdsSoFar
<1>2. pc' \in {"upload", "failed"}
  BY DEF Fetch
<1> QED  BY <1>1, <1>2, Quiet DEF Fetch, Running, Ended

LEMMA EndingKeeps ==
    ASSUME UploadInv, \/ \E outcome \in Refusals : Refused(outcome)
                      \/ WaitFails
                      \/ Cancel
    PROVE  UploadInv'
<1>1. pc' \in {"failed", "rejected", "cancelled"} /\ pc # "done"
  BY DEF Refused, Refusals, WaitFails, Cancel, Running
<1>2. UNCHANGED <<inputs, media, attempt, ids, polls, told, elapsed, tweet>>
  BY DEF Refused, WaitFails, Cancel
<1> QED  BY <1>1, <1>2, Quiet DEF Running, Ended

LEMMA UploadKeeps == ASSUME UploadInv, NEW state \in Processing, Upload(state) PROVE UploadInv'
<1>1. CurrentId \in MediaIds /\ Len(ids) \in Nat /\ Len(ids) < Items
  BY CurrentMedium DEF Upload, UploadInv, IdsSoFar
<1>2. media' = [media EXCEPT ![CurrentId] = state]
  BY DEF Upload
<1>3. media[CurrentId]' = state
  BY <1>1, <1>2 DEF UploadInv, TypeOK, Upload, CurrentId, Current
<1>4. TypeOK'
  BY <1>1, MediaAssumption DEF Upload, UploadInv, TypeOK, Running, inputs
<1>5. IdsInOrder'
  <2> SUFFICES ASSUME NEW n \in 1 .. Len(ids) PROVE media'[<<attempt, n>>] = "ready"
    BY DEF Upload, UploadInv, IdsInOrder
  <2>1. <<attempt, n>> \in MediaIds
    <3>1. attempt \in 1 .. MaxAttempts /\ Items \in Nat
      BY MediaAssumption DEF UploadInv, TypeOK
    <3>2. n \in 1 .. Items
      BY <1>1, <3>1
    <3> QED  BY <3>1, <3>2 DEF MediaIds
  <2>2. <<attempt, n>> # CurrentId
    BY <1>1 DEF CurrentId, Current
  <2> QED  BY <1>2, <2>1, <2>2 DEF UploadInv, TypeOK, IdsInOrder
<1>6. IdsSoFar'
  BY <1>1 DEF Upload, IdsSoFar
<1>7. ToldIsSo'
  BY <1>3 DEF Upload, ToldIsSo, Processing
<1>8. TweetEnds'
  BY DEF Upload, UploadInv, TweetEnds
<1> QED  BY <1>4, <1>5, <1>6, <1>7, <1>8 DEF UploadInv

LEMMA WaitEndsKeeps == ASSUME UploadInv, WaitEnds PROVE UploadInv'
<1>1. CurrentId \in MediaIds /\ Len(ids) \in Nat /\ Len(ids) < Items /\ Items \in Nat
  BY CurrentMedium, MediaAssumption DEF WaitEnds, UploadInv, IdsSoFar
<1>2. media[CurrentId] = "ready"
  BY DEF WaitEnds, Accepts, UploadInv, ToldIsSo
<1>3. ids' = Append(ids, CurrentId) /\ ids \in Seq(MediaIds)
  BY DEF WaitEnds, UploadInv, TypeOK
<1>4. /\ ids' \in Seq(MediaIds)
      /\ Len(ids') = Len(ids) + 1
      /\ \A n \in 1 .. Len(ids) : ids'[n] = ids[n]
      /\ ids'[Len(ids) + 1] = CurrentId
  BY <1>1, <1>3
<1>5. pc' = IF Len(ids') = Items THEN "create" ELSE "fetch"
  BY DEF WaitEnds, AfterUpload
<1>6. TypeOK'
  BY <1>4, <1>5 DEF WaitEnds, UploadInv, TypeOK, Running, inputs
<1>7. IdsInOrder'
  <2>1. Len(ids') <= Items
    BY <1>1, <1>4
  <2>2. ASSUME NEW n \in 1 .. Len(ids')
        PROVE  ids'[n] = <<attempt, n>> /\ media[<<attempt, n>>] = "ready"
    <3>1. CASE n \in 1 .. Len(ids)
      BY <1>4, <3>1 DEF UploadInv, IdsInOrder
    <3>2. CASE n = Len(ids) + 1
      BY <1>2, <1>4, <3>2 DEF CurrentId, Current
    <3> QED  BY <1>1, <1>4, <3>1, <3>2
  <2> QED  BY <2>1, <2>2 DEF IdsInOrder, WaitEnds
<1>8. IdsSoFar'
  BY <1>1, <1>4, <1>5 DEF IdsSoFar
<1>9. ToldIsSo' /\ TweetEnds'
  BY <1>5 DEF WaitEnds, UploadInv, ToldIsSo, TweetEnds
<1> QED  BY <1>6, <1>7, <1>8, <1>9 DEF UploadInv

LEMMA PollKeeps == ASSUME UploadInv, NEW wait \in 1 .. MaxWait, Poll(wait) PROVE UploadInv'
<1>1. CurrentId \in MediaIds
  BY CurrentMedium DEF Poll
<1>2. told' = media[CurrentId] /\ media[CurrentId] \in Processing
  BY <1>1 DEF Poll, UploadInv, ToldIsSo, TypeOK
<1>3. polls' \in 0 .. MaxPolls
  BY MediaAssumption DEF Poll, PollsLeft, Counts, UploadInv, TypeOK
<1>4. elapsed' \in 0 .. JobTimeout
  <2>1. elapsed \in 0 .. JobTimeout /\ JobTimeout \in Nat
    BY MediaAssumption DEF UploadInv, TypeOK
  <2>2. CASE caller # "task"
    BY <2>1, <2>2 DEF Poll
  <2>3. CASE caller = "task"
    <3>1. elapsed' = IF elapsed + wait > JobTimeout THEN JobTimeout ELSE elapsed + wait
      BY <2>3 DEF Poll
    <3> QED  BY <2>1, <3>1
  <2> QED  BY <2>2, <2>3
<1>5. TypeOK'
  BY <1>2, <1>3, <1>4 DEF Poll, UploadInv, TypeOK, inputs
<1>6. IdsInOrder' /\ IdsSoFar' /\ TweetEnds'
  BY DEF Poll, UploadInv, IdsInOrder, IdsSoFar, TweetEnds
<1>7. ToldIsSo'
  BY <1>2 DEF Poll, UploadInv, ToldIsSo, CurrentId, Current
<1> QED  BY <1>5, <1>6, <1>7 DEF UploadInv

LEMMA CreateKeeps == ASSUME UploadInv, Create PROVE UploadInv'
<1>1. TypeOK'
  BY DEF Create, UploadInv, TypeOK, Ended, inputs
<1>2. IdsInOrder' /\ IdsSoFar' /\ ToldIsSo' /\ TweetEnds'
  BY DEF Create, UploadInv, IdsInOrder, IdsSoFar, ToldIsSo, TweetEnds
<1> QED  BY <1>1, <1>2 DEF UploadInv

LEMMA RetryKeeps == ASSUME UploadInv, Retry PROVE UploadInv'
<1>1. ids' = <<>>
  BY DEF Retry, NoIds
<1>2. TypeOK'
  BY <1>1, MediaAssumption DEF Retry, UploadInv, TypeOK, Running, Processing, inputs
<1>3. IdsInOrder'
  BY <1>1, MediaAssumption DEF IdsInOrder
<1>4. IdsSoFar' /\ ToldIsSo' /\ TweetEnds'
  BY <1>1 DEF Retry, UploadInv, IdsSoFar, ToldIsSo, TweetEnds
<1> QED  BY <1>2, <1>3, <1>4 DEF UploadInv

LEMMA ProcessKeeps ==
    ASSUME UploadInv, NEW m \in MediaIds, NEW state \in {"ready", "broken"}, Process(m, state)
    PROVE  UploadInv'
<1>1. media[m] = "pending" /\ media' = [media EXCEPT ![m] = state]
  BY DEF Process
<1>2. ASSUME NEW k, media[k] = "ready" PROVE media'[k] = "ready"
  BY <1>1, <1>2 DEF UploadInv, TypeOK
<1>3. ASSUME NEW k, media[k] # "absent" PROVE media'[k] # "absent"
  BY <1>1, <1>3 DEF UploadInv, TypeOK
<1>4. TypeOK'
  BY <1>1 DEF Process, UploadInv, TypeOK, Processing, inputs
<1>5. IdsInOrder'
  BY <1>2 DEF Process, UploadInv, IdsInOrder
<1>6. ToldIsSo'
  BY <1>2, <1>3 DEF Process, UploadInv, ToldIsSo, CurrentId, Current
<1>7. IdsSoFar' /\ TweetEnds'
  BY DEF Process, UploadInv, IdsSoFar, TweetEnds
<1> QED  BY <1>4, <1>5, <1>6, <1>7 DEF UploadInv

LEMMA UploadInvInit == Init => UploadInv
<1> SUFFICES ASSUME Init PROVE UploadInv
  OBVIOUS
<1>1. ids = <<>> /\ pc = "start" /\ tweet = None /\ Items \in Nat /\ MaxAttempts \in Nat \ {0}
  BY MediaAssumption DEF Init
<1>2. TypeOK
  BY MediaAssumption DEF Init, TypeOK, Running, Processing
<1>3. IdsInOrder /\ IdsSoFar /\ ToldIsSo /\ TweetEnds
  BY <1>1 DEF IdsInOrder, IdsSoFar, ToldIsSo, TweetEnds
<1> QED  BY <1>2, <1>3 DEF UploadInv

LEMMA UploadInvStep == UploadInv /\ [Next]_vars => UploadInv'
<1> SUFFICES ASSUME UploadInv, [Next]_vars PROVE UploadInv'
  OBVIOUS
<1>1. CASE Step
  BY <1>1, StartKeeps, FetchKeeps, UploadKeeps, WaitEndsKeeps, EndingKeeps, PollKeeps,
     CreateKeeps DEF Step
<1>2. CASE \E outcome \in Refusals : Refused(outcome)
  BY <1>2, EndingKeeps
<1>3. CASE Retry
  BY <1>3, RetryKeeps
<1>4. CASE \E m \in MediaIds, state \in {"ready", "broken"} : Process(m, state)
  BY <1>4, ProcessKeeps
<1>5. CASE UNCHANGED vars
  BY <1>5 DEF vars, inputs, UploadInv, TypeOK, IdsInOrder, IdsSoFar, ToldIsSo, TweetEnds,
     CurrentId, Current
<1> QED  BY <1>1, <1>2, <1>3, <1>4, <1>5 DEF Next

\* The list of ids, where the attempt is, and what X said of the current
\* upload stay in step in every state of the program.
LEMMA UploadInvAlways == Spec => []UploadInv
<1> QED  BY UploadInvInit, UploadInvStep, PTL DEF Spec

\* Every variable of the upload keeps its type, the list of media ids and the
\* counter of polls included.
THEOREM TypeCorrect == Spec => []TypeOK
<1>1. UploadInv => TypeOK
  BY DEF UploadInv
<1> QED  BY <1>1, UploadInvAlways, PTL

-----------------------------------------------------------------------------
(* The tweet                                                               *)


\* create_post is given all the ids of the attempt, and nothing after it.
LEMMA CreateCompletes == ASSUME UploadInv, Create PROVE TweetComplete'
<1>1. /\ tweet' = ids /\ ids \in Seq(MediaIds)
      /\ Len(ids) = Items /\ Items \in Nat
      /\ attempt \in 1 .. MaxAttempts
  BY MediaAssumption DEF Create, UploadInv, TypeOK, IdsSoFar
<1>2. DOMAIN ids = 1 .. Items
  BY <1>1
<1>3. \A n \in 1 .. Items : ids[n] = <<attempt, n>> /\ media[ids[n]] = "ready"
  BY <1>1 DEF UploadInv, IdsInOrder
<1>4. ids = [n \in 1 .. Items |-> <<attempt, n>>]
  <2>1. ids = [n \in DOMAIN ids |-> ids[n]]
    BY <1>1
  <2> QED  BY <1>2, <1>3, <2>1
<1>5. \A n \in DOMAIN ids : media[ids[n]] = "ready"
  BY <1>2, <1>3
<1> QED  BY <1>1, <1>4, <1>5 DEF Create, TweetComplete

LEMMA TweetCompleteStep == UploadInv /\ TweetComplete /\ [Next]_vars => TweetComplete'
<1> SUFFICES ASSUME UploadInv, TweetComplete, [Next]_vars PROVE TweetComplete'
  OBVIOUS
<1>1. CASE Create
  BY <1>1, CreateCompletes
<1>2. CASE tweet = None /\ tweet' = tweet
  BY <1>2 DEF TweetComplete
<1>3. CASE tweet # None /\ pc = "done" /\ ~Create
  <2>1. \/ UNCHANGED vars
        \/ \E m \in MediaIds, state \in {"ready", "broken"} : Process(m, state)
    BY <1>3 DEF Next, Step, Start, Fetch, Upload, WaitEnds, WaitFails, Poll, Cancel, Refused,
       Retry, Running
  <2>2. tweet' = tweet
    BY <2>1 DEF vars, Process
  <2>3. ASSUME NEW k, media[k] = "ready" PROVE media'[k] = "ready"
    <3>1. CASE UNCHANGED vars
      BY <2>3, <3>1 DEF vars
    <3>2. ASSUME NEW m \in MediaIds, NEW state \in {"ready", "broken"}, Process(m, state)
          PROVE  media'[k] = "ready"
      BY <2>3, <3>2 DEF Process, UploadInv, TypeOK
    <3> QED  BY <2>1, <3>1, <3>2
  <2> QED  BY <2>2, <2>3 DEF TweetComplete
<1>4. ~Create => tweet' = tweet
  BY DEF Next, Step, Start, Fetch, Upload, WaitEnds, WaitFails, Poll, Cancel, Refused, Retry,
     Process, vars
<1> QED  BY <1>1, <1>2, <1>3, <1>4 DEF UploadInv, TweetEnds

\* A tweet has all the media of its post, in order, from one attempt, and X had
\* finished every one of them: whatever X refuses, however slowly it works and
\* wherever ARQ cancels an attempt.
THEOREM TweetCompleteAlways == Spec => []TweetComplete
<1>1. Init => TweetComplete
  BY DEF Init, TweetComplete
<1> QED  BY <1>1, TweetCompleteStep, UploadInvAlways, PTL DEF Spec

=============================================================================
