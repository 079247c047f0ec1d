-------------------------------- MODULE VmTasks --------------------------------
(***************************************************************************)
(* The rows of vm_tasks that belong to one VM, and the statements that     *)
(* server and worker execute on them.                                      *)
(*                                                                         *)
(* A VM's rows are a function q from sequence numbers to rows; a number    *)
(* without a row maps to NoTask.  UNIQUE(vm_id, seq) makes this a          *)
(* function.  No statement is parameterised by anything but the rows: the  *)
(* module has no state, VmLifecycle holds it.                              *)
(*                                                                         *)
(* Clock readings are kept only as far as a statement compares them:       *)
(*   - a deletion deadline is "future" or "past" (or absent, "none");      *)
(*   - finished_at is "null" or "set"; which of the dated rows are more     *)
(*     than 24 hours old is the choice of the statement that asks.         *)
(***************************************************************************)
EXTENDS Naturals

CONSTANTS
  MaxSeq,     \* bound on seq; the code has none
  MaxRetries  \* maxVMTaskAutoRetries (5 in the code)

ASSUME SeqAssumption   == MaxSeq \in Nat \ {0}
ASSUME RetryAssumption == MaxRetries \in Nat \ {0}

Seqs == 1 .. MaxSeq

Instants == {"none", "future", "past"}
Stamps   == {"null", "set"}
Statuses == {"absent", "pending", "running", "done", "failed", "canceled"}
Kinds    == {"none", "provision", "apply", "power", "reboot", "delete"}

\* attempt_count is compared with MaxRetries only, so the bookkeeping stops
\* one above it.
Attempts == 0 .. MaxRetries + 1

\* One row.  due is the execute_after of a delete payload; it is "none" for
\* the other kinds and for payloads marked immediate or expired, whose
\* execute_after deleteExecuteAfterForTask does not look at.
Task == [status : Statuses, kind : Kinds, due : Instants,
         attempts : Attempts, finished : Stamps]

NoTask == [status |-> "absent", kind |-> "none", due |-> "none",
           attempts |-> 0, finished |-> "null"]

Queues == [Seqs -> Task]

EmptyQueue == [s \in Seqs |-> NoTask]

--------------------------------------------------------------------------------
(* What the statements ask of the rows.                                    *)

Rows(q) == {s \in Seqs : q[s].status # "absent"}

\* status NOT IN ('done', 'canceled')
Open(q) == {s \in Rows(q) : q[s].status \notin {"done", "canceled"}}

Running(q) == {s \in Rows(q) : q[s].status = "running"}

\* Tasks that were started and are not closed.
Tried(q) == {s \in Rows(q) : q[s].status \in {"running", "failed"}}

\* No open row comes before s.
IsHead(q, s) == \A r \in Open(q) : r >= s

\* Mutant: numbers that a purge freed are taken again.
IsLowestFree(q, n) == n \in Seqs \ Rows(q) /\ \A s \in Seqs : s < n => s \in Rows(q)

\* n is COALESCE(MAX(seq), 0) + 1.
IsNextSeq(q, n) ==
  /\ n \in Seqs
  /\ \A s \in Rows(q) : s < n
  /\ n = 1 \/ n - 1 \in Rows(q)

\* Mutant: failures are retried for ever.
RetryableForever(t) == t.status = "failed" /\ t.attempts >= 1

\* vmTaskRetryDelay knows a delay only for the first MaxRetries failures.
Retryable(t) == t.status = "failed" /\ t.attempts \in 1 .. MaxRetries

\* Mutant: the NOT EXISTS on earlier rows is missing.
EligibleOutOfOrder(q) ==
  {s \in Rows(q) : q[s].status = "pending" \/ Retryable(q[s])}

\* Mutant: a failed task does not hold up the ones behind it.
EligiblePastFailed(q) ==
  {s \in Rows(q) : /\ q[s].status = "pending" \/ Retryable(q[s])
                   /\ \A r \in Open(q) : r >= s \/ q[r].status = "failed"}

\* The rows pendingTasks selects before it looks at the clock.
Eligible(q) ==
  {s \in Rows(q) : /\ q[s].status = "pending" \/ Retryable(q[s])
                   /\ IsHead(q, s)}

--------------------------------------------------------------------------------
(* The statements.                                                         *)

Enqueue(q, n, kind, due) ==
  [q EXCEPT ![n] = [status |-> "pending", kind |-> kind, due |-> due,
                    attempts |-> 0, finished |-> "null"]]

\* Mutant: the status is misspelt.
CancelDatedMisspelt(q, S) ==
  [s \in Seqs |-> IF s \in S
                  THEN [q[s] EXCEPT !.status = "cancelled", !.finished = "set"]
                  ELSE q[s]]

\* Cancel the rows in S and set finished_at where it is not set ...
CancelDated(q, S) ==
  [s \in Seqs |-> IF s \in S
                  THEN [q[s] EXCEPT !.status = "canceled", !.finished = "set"]
                  ELSE q[s]]

\* ... or leave finished_at as it is.
CancelUndated(q, S) ==
  [s \in Seqs |-> IF s \in S THEN [q[s] EXCEPT !.status = "canceled"] ELSE q[s]]

\* cancelVMTasksTx
CancelOpen(q) == CancelDated(q, Open(q))

OpenDeletes(q) == {s \in Open(q) : q[s].kind = "delete"}

\* Back to pending with the counters of this run forgotten, attempt_count kept.
Requeue(q, S) ==
  [s \in Seqs |-> IF s \in S
                  THEN [q[s] EXCEPT !.status = "pending", !.finished = "null"]
                  ELSE q[s]]

\* attempt_count + 1, as far as it is counted here
OneMore(a) == IF a > MaxRetries THEN a ELSE a + 1

\* The three statements that name a row by its id and nothing else.
MarkRunning(q, s) ==
  [q EXCEPT ![s] = [q[s] EXCEPT !.status = "running",
                                !.attempts = OneMore(q[s].attempts),
                                !.finished = "null"]]

MarkDone(q, s) ==
  [q EXCEPT ![s] = [q[s] EXCEPT !.status = "done",
                                !.finished = "set"]]

MarkFailed(q, s) ==
  [q EXCEPT ![s] = [q[s] EXCEPT !.status = "failed",
                                !.finished = "set"]]

\* Mutant: failed rows are kept for ever.
PurgeableButFailed(q) ==
  {s \in Rows(q) : /\ q[s].status \in {"done", "canceled"}
                   /\ q[s].finished = "set"}

Purgeable(q) ==
  {s \in Rows(q) : /\ q[s].status \in {"done", "failed", "canceled"}
                   /\ q[s].finished = "set"}

\* old: the rows whose finished_at, if it is set, lies before the cutoff.
Purge(q, old) == [s \in Seqs |-> IF s \in Purgeable(q) \intersect old THEN NoTask ELSE q[s]]

--------------------------------------------------------------------------------
(* The passing of time, seen by the rows.                                  *)

Reached(x) == IF x = "future" THEN "past" ELSE x

DeadlinesReached(q) == [s \in Seqs |-> [q[s] EXCEPT !.due = Reached(q[s].due)]]
================================================================================
