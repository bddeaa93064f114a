--------------------------- MODULE PostLifecycle ---------------------------
(***************************************************************************)
(* What the publishing pipeline promises for posts nobody edits, without   *)
(* jobs, tasks, locks or processes: the status a reader of GET /posts sees *)
(* and the tweets X has.  PublishPipeline implements it.                   *)
(***************************************************************************)
EXTENDS Naturals

CONSTANTS Posts,   \* the posts
          Pred,    \* Pred[p]: the post before p in its thread, or None
          None

VARIABLES shown,   \* shown[p]: status of the row, "absent" before there is one
          tweets   \* tweets[p]: how many tweets X has created for p

vars == <<shown, tweets>>

Init ==
    /\ shown = [p \in Posts |-> "absent"]
    /\ tweets = [p \in Posts |-> 0]

Create(p) ==
    /\ shown[p] = "absent"
    /\ \E status \in {"draft", "scheduled"} : shown' = [shown EXCEPT ![p] = status]
    /\ UNCHANGED tweets

\* All of S changes its status at once.
Move(S, from, to) ==
    /\ S # {}
    /\ \A p \in S : shown[p] = from
    /\ shown' = [p \in Posts |-> IF p \in S THEN to ELSE shown[p]]
    /\ UNCHANGED tweets

Claim(S) == Move(S, "scheduled", "publishing")

\* Only posts without a tweet go back.
Recover(S) == Move(S, "publishing", "scheduled") /\ \A p \in S : tweets[p] = 0

\* The one tweet of a post: after a claim, in thread order, perhaps on a retry.
Tweet(p) ==
    /\ shown[p] \in {"publishing", "failed"}
    /\ tweets[p] = 0
    /\ Pred[p] # None => shown[Pred[p]] = "published"
    /\ tweets' = [tweets EXCEPT ![p] = 1]
    /\ UNCHANGED shown

\* A post shows published exactly when it has its tweet, failed when not.
Settle(p, status) ==
    /\ shown[p] \in {"publishing", "failed"}
    /\ status = IF tweets[p] = 1 THEN "published" ELSE "failed"
    /\ shown' = [shown EXCEPT ![p] = status]
    /\ UNCHANGED tweets

Next ==
    \/ \E S \in SUBSET Posts : Claim(S) \/ Recover(S)
    \/ \E p \in Posts :
         \/ Create(p)
         \/ Tweet(p)
         \/ \E status \in {"published", "failed"} : Settle(p, status)

Spec == Init /\ [][Next]_vars

=============================================================================
