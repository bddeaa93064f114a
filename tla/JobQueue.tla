------------------------------ MODULE JobQueue ------------------------------
(***************************************************************************)
(* A row of the job_queue table and the transitions that the helpers of    *)
(* core/job_queue.py apply to it.  Every operator is pure: it maps the row *)
(* a session loaded to the row that session commits.  The modules that     *)
(* compose the queue with its users decide when a transition is applied    *)
(* and to what; nothing here restricts the order, because nothing in       *)
(* job_queue.py does.                                                      *)
(***************************************************************************)
EXTENDS Naturals

CONSTANT MaxAttempts   \* max_attempts of a row: settings.arq_max_tries

ASSUME MaxAttemptsAssumption == MaxAttempts \in Nat \ {0}

JobStatus == {"queued", "running", "completed", "failed", "dead_letter"}

\* A nullable timestamp compared with now(): NULL, in the future, or not.
When == {"never", "later", "now"}

\* attempts is attempt_count and retry is next_retry_at.
JobRow == [status : JobStatus \cup {"absent"}, attempts : Nat, retry : When]

\* The row that has not been inserted yet.
NoJob == [status |-> "absent", attempts |-> 0, retry |-> "never"]

-----------------------------------------------------------------------------

\* Mutants: a running job, or a queued one, does not count as open.
IsQueued(row) == row.status = "queued"
IsRunning(row) == row.status = "running"

IsOpen(row) == row.status \in {"queued", "running"}

\* What get_retryable_jobs selects: a NULL next_retry_at is never due.
IsRetryable(row) == row.status = "failed" /\ row.retry = "now"

CreateQueuedJob == [NoJob EXCEPT !.status = "queued"]

MarkRunning(row) ==
    [row EXCEPT !.status = "running", !.attempts = row.attempts + 1]

\* Whatever the status the row has meanwhile, it becomes queued.
MarkEnqueued(row) == [row EXCEPT !.status = "queued", !.retry = "never"]

MarkCompleted(row) == [row EXCEPT !.status = "completed", !.retry = "never"]

\* Mutants: dead_letter one attempt too early, or one too late.
MarkFailedEarly(row, retryable) ==
    IF retryable /\ row.attempts + 1 < MaxAttempts
    THEN [row EXCEPT !.status = "failed", !.retry = "later"]
    ELSE [row EXCEPT !.status = "dead_letter", !.retry = "never"]

MarkFailedLate(row, retryable) ==
    IF retryable /\ row.attempts <= MaxAttempts
    THEN [row EXCEPT !.status = "failed", !.retry = "later"]
    ELSE [row EXCEPT !.status = "dead_letter", !.retry = "never"]

MarkFailed(row, retryable) ==
    IF retryable /\ row.attempts < MaxAttempts
    THEN [row EXCEPT !.status = "failed", !.retry = "later"]
    ELSE [row EXCEPT !.status = "dead_letter", !.retry = "never"]

=============================================================================
