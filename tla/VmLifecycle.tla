------------------------------ MODULE VmLifecycle ------------------------------
(***************************************************************************)
(* Life of the managed VMs of pve-manage: the HTTP handlers that change a  *)
(* vms row and queue tasks for it, the worker that carries the tasks out   *)
(* on the PVE cluster, worker crashes and restarts, and the passing of the *)
(* 24 hour grace period of a deletion.                                     *)
(*                                                                         *)
(* A handler loads the row, checks it, and later overwrites it by id in a  *)
(* transaction of its own: Load and Commit are two steps, with anything in *)
(* between.  The worker reads a batch of tasks together with their vms     *)
(* rows and works from those copies; each of its database statements and   *)
(* each PVE operation another actor or a crash could observe is a step.    *)
(*                                                                         *)
(* Left out here: what a VM looks like (cpu, disk, network, password,      *)
(* power state), quotas and address allocation, unmanaged VMs, maintenance *)
(* tasks.  Every VM of this module is managed.                             *)
(***************************************************************************)
EXTENDS VmTasks

CONSTANTS
  VMs,        \* rows of vms the run may create (their ids)
  Clients,    \* HTTP requests that may be in flight at the same time
  Ops,        \* bound: the handlers that are called, a subset of AllOps
  ClientSeqs, \* bound: handlers queue no task above this seq
  NoVM        \* the worker is not executing a task

TwoStepOps == {"patch", "power", "delete", "restore", "deleteNow", "retry"}
AllOps == TwoStepOps \union {"pause", "resume"}

ASSUME VmAssumption  == NoVM \notin VMs
ASSUME OpsAssumption == Ops \subseteq AllOps
ASSUME ClientSeqsAssumption == ClientSeqs \in 0 .. MaxSeq

VARIABLES
  row,      \* the vms table
  tasks,    \* the vm_tasks table
  pve,      \* does the cluster have a VM with this row's vmid?
  req,      \* requests between load and commit
  wpc,      \* where the worker is in syncOnce
  expired,  \* ids ensureExpiredDeleteTasks selected and has still to queue
  batch,    \* what pendingTasks returned and was not worked off yet
  cur,      \* the VM whose task is being executed
  created   \* syncPresent's local of that name

vars == <<row, tasks, pve, req, wpc, expired, batch, cur, created>>
dbVars == <<row, tasks>>
workerVars == <<wpc, expired, batch, cur, created>>

--------------------------------------------------------------------------------
(* Types.                                                                  *)

\* "none": no row yet; "deleted": deleted_at is set.
Lives == {"none", "live", "deleted"}

SyncStates == {"pending", "deleting", "synced", "failed"}
Intents    == {"present", "delete_pending"}

\* The part of prefer_status_json that drives deletion.
Prefer == [intent : Intents, after : Instants]

\* delReq: delete_requested_at is set; delAfter: delete_execute_after.
Row == [life : Lives, paused : BOOLEAN, sync : SyncStates,
        delReq : BOOLEAN, delAfter : Instants, prefer : Prefer]

PreferPresent == [intent |-> "present", after |-> "none"]

NoRow == [life |-> "none", paused |-> FALSE, sync |-> "pending",
          delReq |-> FALSE, delAfter |-> "none", prefer |-> PreferPresent]

\* What a handler carries from its load to its commit: prefer for patch and
\* power (the others compute all of it), seq for retry.
NoRequest == [op |-> "idle"]
Request == [op : TwoStepOps, vm : VMs, prefer : Prefer, seq : Seqs]

\* A task of the batch: what runTask will do, decided by the task and by the
\* copy of the vms row that was read with it, and the deadline a deletion
\* will compare the clock with.
Acts  == {"none", "present", "delete", "power", "reboot"}
Job   == [seq : Seqs, act : Acts, due : Instants]
NoJob == [seq |-> 0, act |-> "none", due |-> "none"]

WorkerPcs == {"down", "round", "expired", "queue", "supersede", "pick", "next",
              "run", "configure", "destroyed", "cancel", "done", "failed",
              "exhausted", "purge"}

TypeOK ==
  /\ row \in [VMs -> Row]
  /\ tasks \in [VMs -> Queues]
  /\ pve \in [VMs -> {"absent", "present"}]
  /\ req \in [Clients -> Request \union {NoRequest}]
  /\ wpc \in WorkerPcs
  /\ expired \in SUBSET VMs
  /\ batch \in [VMs -> Job \union {NoJob}]
  /\ cur \in VMs \union {NoVM}
  /\ created \in BOOLEAN

Init ==
  /\ row = [v \in VMs |-> NoRow]
  /\ tasks = [v \in VMs |-> EmptyQueue]
  /\ pve = [v \in VMs |-> "absent"]
  /\ req = [c \in Clients |-> NoRequest]
  /\ wpc = "down"
  /\ expired = {}
  /\ batch = [v \in VMs |-> NoJob]
  /\ cur = NoVM
  /\ created = FALSE

--------------------------------------------------------------------------------
(* The server.                                                             *)

\* loadVMRow finds deleted rows as well.
Found(v) == row[v].life # "none"

PendingDeletion(v) == row[v].sync = "deleting" \/ row[v].delReq

\* Mutant: a second deletion is not refused.
MayLoadTwice(op, v, s) ==
  CASE op \in {"patch", "power"}     -> ~PendingDeletion(v)
    [] op = "delete"                 -> TRUE
    [] op \in {"restore", "deleteNow"} -> PendingDeletion(v)
    [] op = "retry"                  -> tasks[v][s].status = "failed"

\* The checks a handler makes on the row it loaded.
MayLoad(op, v, s) ==
  CASE op \in {"patch", "power", "delete"} -> ~PendingDeletion(v)
    [] op \in {"restore", "deleteNow"}     -> PendingDeletion(v)
    [] op = "retry"                        -> tasks[v][s].status = "failed"

\* handleCreateVM: one transaction inserts the row and its first task.
CreateVM(v) ==
  /\ row[v].life = "none"
  /\ row' = [row EXCEPT ![v] = [NoRow EXCEPT !.life = "live"]]
  /\ \E n \in Seqs :
       /\ IsNextSeq(tasks[v], n)
       /\ tasks' = [tasks EXCEPT ![v] = Enqueue(@, n, "provision", "none")]
  /\ UNCHANGED <<pve, req, workerVars>>

Load(c, op, v, s) ==
  /\ req[c] = NoRequest
  /\ Found(v)
  /\ MayLoad(op, v, s)
  /\ op # "retry" => s = 1
  /\ LET prefer == IF op \in {"patch", "power"} THEN row[v].prefer ELSE PreferPresent
     IN req' = [req EXCEPT ![c] =
                  [op |-> op, vm |-> v, prefer |-> prefer, seq |-> s]]
  /\ UNCHANGED <<dbVars, pve, workerVars>>

\* Finish request c: overwrite the row with r and the queue with q.
Commit(c, r, q) ==
  /\ row' = [row EXCEPT ![req[c].vm] = r]
  /\ tasks' = [tasks EXCEPT ![req[c].vm] = q]
  /\ req' = [req EXCEPT ![c] = NoRequest]
  /\ UNCHANGED <<pve, workerVars>>

\* A request may also fail at its transaction and change nothing.
RequestFails(c) ==
  /\ req[c] # NoRequest
  /\ req' = [req EXCEPT ![c] = NoRequest]
  /\ UNCHANGED <<dbVars, pve, workerVars>>

\* handlePatchVM writes back the prefer status it loaded.  A change that
\* needs a restart of a running VM queues a reboot behind the apply.
CommitPatch(c) ==
  /\ req[c].op = "patch"
  /\ LET v == req[c].vm
         r == [row[v] EXCEPT !.sync = "pending", !.prefer = req[c].prefer]
     IN \E n \in 1 .. ClientSeqs :
          /\ IsNextSeq(tasks[v], n)
          /\ LET q == Enqueue(tasks[v], n, "apply", "none")
             IN \/ Commit(c, r, q)
                \/ n < ClientSeqs /\ Commit(c, r, Enqueue(q, n + 1, "reboot", "none"))

\* handlePowerVM, and handlePatchVM with nothing but a power field.
CommitPower(c) ==
  /\ req[c].op = "power"
  /\ LET v == req[c].vm
         r == [row[v] EXCEPT !.sync = "pending", !.prefer = req[c].prefer]
     IN \E n \in 1 .. ClientSeqs :
          /\ IsNextSeq(tasks[v], n)
          /\ Commit(c, r, Enqueue(tasks[v], n, "power", "none"))

\* handleDeleteVM: 24 hours of grace, every open task gives way.
CommitDelete(c) ==
  /\ req[c].op = "delete"
  /\ LET v == req[c].vm
         r == [row[v] EXCEPT !.sync = "deleting", !.delReq = TRUE,
                             !.delAfter = "future",
                             !.prefer = [intent |-> "delete_pending",
                                         after |-> "future"]]
     IN \E n \in 1 .. ClientSeqs :
          /\ IsNextSeq(tasks[v], n)
          /\ Commit(c, r, Enqueue(CancelOpen(tasks[v]), n, "delete", "future"))

\* handleDeleteNowVM: the deadline becomes the present; the payload is
\* marked immediate, so the task goes by the row's deadline.
CommitDeleteNow(c) ==
  /\ req[c].op = "deleteNow"
  /\ LET v == req[c].vm
         r == [row[v] EXCEPT !.sync = "deleting", !.delReq = TRUE,
                             !.delAfter = "past",
                             !.prefer = [intent |-> "delete_pending",
                                         after |-> "past"]]
     IN \E n \in 1 .. ClientSeqs :
          /\ IsNextSeq(tasks[v], n)
          /\ Commit(c, r, Enqueue(CancelOpen(tasks[v]), n, "delete", "none"))

\* The deletions handleRestoreVM cancels: failed ones are not among them.
RestoreCancels(q) ==
  {s \in OpenDeletes(q) : q[s].status \in {"pending", "running"}}

\* handleRestoreVM
CommitRestore(c) ==
  /\ req[c].op = "restore"
  /\ LET v == req[c].vm
         r == [row[v] EXCEPT !.sync = "pending", !.delReq = FALSE,
                             !.delAfter = "none", !.prefer = PreferPresent]
         q == CancelUndated(tasks[v], RestoreCancels(tasks[v]))
     IN \E n \in 1 .. ClientSeqs :
          /\ IsNextSeq(tasks[v], n)
          /\ Commit(c, r, Enqueue(q, n, "apply", "none"))

\* handleRetryVMTask: the status is tested again in the statement; the row
\* is updated whether or not the task still was failed.
CommitRetry(c) ==
  /\ req[c].op = "retry"
  /\ LET v == req[c].vm
         s == req[c].seq
         r == [row[v] EXCEPT !.sync = IF row[v].delReq THEN "deleting" ELSE "pending"]
     IN Commit(c, r, IF tasks[v][s].status = "failed"
                     THEN Requeue(tasks[v], {s}) ELSE tasks[v])

\* handlePauseVMTasks and handleResumeVMTasks need nothing of the loaded row.
SetPaused(v, p) ==
  /\ Found(v)
  /\ row' = [row EXCEPT ![v].paused = p]
  /\ UNCHANGED <<tasks, pve, req, workerVars>>

PauseVMTasks(v) == "pause" \in Ops /\ SetPaused(v, TRUE)
ResumeVMTasks(v) == "resume" \in Ops /\ SetPaused(v, FALSE)

Server ==
  \/ \E v \in VMs : CreateVM(v) \/ PauseVMTasks(v) \/ ResumeVMTasks(v)
  \/ \E c \in Clients :
       \/ \E op \in Ops \intersect TwoStepOps, v \in VMs, s \in Seqs : Load(c, op, v, s)
       \/ RequestFails(c)
       \/ CommitPatch(c)
       \/ CommitPower(c)
       \/ CommitDelete(c)
       \/ CommitDeleteNow(c)
       \/ CommitRestore(c)
       \/ CommitRetry(c)

--------------------------------------------------------------------------------
(* The worker: a round of syncOnce up to the batch.                        *)

RequeueRunning(S) ==
  tasks' = [v \in VMs |-> IF v \in S THEN Requeue(tasks[v], Running(tasks[v]))
                          ELSE tasks[v]]

\* Run: recoverAbandonedRunningTasks puts every running task back; when the
\* statement fails the worker starts all the same.
Start(S) ==
  /\ wpc = "down"
  /\ RequeueRunning(S)
  /\ wpc' = "round"
  /\ UNCHANGED <<row, pve, req, expired, batch, cur, created>>

StartWorker == Start(VMs)
StartWithoutRecovery == Start({})

\* recoverStaleRunningTasks: tasks that have been running for 30 minutes.  No
\* task of this worker is under way at this point of the round, so these are
\* tasks whose result could not be written.  S is the VMs where they are old
\* enough.
BeginRound(S) ==
  /\ wpc = "round"
  /\ RequeueRunning(S)
  /\ wpc' = "expired"
  /\ UNCHANGED <<row, pve, req, expired, batch, cur, created>>

\* ensureExpiredDeleteTasks, the query
DeletionExpired(v) ==
  /\ row[v].life = "live"
  /\ ~row[v].paused
  /\ row[v].delReq
  /\ row[v].delAfter = "past"
  /\ OpenDeletes(tasks[v]) = {}

SelectExpired ==
  /\ wpc = "expired"
  /\ expired' = {v \in VMs : DeletionExpired(v)}
  /\ wpc' = "queue"
  /\ UNCHANGED <<dbVars, pve, req, batch, cur, created>>

\* ensureExpiredDeleteTasks, one queueVMTask per selected id; what the query
\* saw is not looked at again.
QueueExpired(v) ==
  /\ wpc = "queue"
  /\ v \in expired
  /\ \E n \in Seqs : /\ IsNextSeq(tasks[v], n)
                     /\ tasks' = [tasks EXCEPT ![v] = Enqueue(@, n, "delete", "none")]
  /\ expired' = expired \ {v}
  /\ UNCHANGED <<row, pve, req, wpc, batch, cur, created>>

ExpiredQueued ==
  /\ wpc = "queue"
  /\ expired = {}
  /\ wpc' = "supersede"
  /\ UNCHANGED <<dbVars, pve, req, expired, batch, cur, created>>

\* cancelSupersededTasksForDeletingVMs
Superseded(v) ==
  IF row[v].life = "live" /\ row[v].delReq
  THEN Open(tasks[v]) \ OpenDeletes(tasks[v]) ELSE {}

CancelSuperseded ==
  /\ wpc = "supersede"
  /\ tasks' = [v \in VMs |-> CancelDated(tasks[v], Superseded(v))]
  /\ wpc' = "pick"
  /\ UNCHANGED <<row, pve, req, expired, batch, cur, created>>

\* What syncVM and syncDelete read of the row that came with the task, and
\* deleteExecuteAfterForTask.
JobOf(v, s) ==
  LET t == tasks[v][s]
      r == row[v]
      deleting == r.prefer.intent = "delete_pending" \/ PendingDeletion(v)
  IN [seq |-> s,
      act |-> IF t.kind \in {"provision", "apply"}
              THEN IF deleting THEN "delete" ELSE "present"
              ELSE t.kind,
      due |-> IF t.due # "none" THEN t.due
              ELSE IF r.delAfter # "none" THEN r.delAfter
              ELSE r.prefer.after]

\* Mutant: tasks of deleted VMs are not skipped.
PickableIfDeleted(v) ==
  IF Found(v) /\ ~row[v].paused THEN Eligible(tasks[v]) ELSE {}

Pickable(v) ==
  IF row[v].life = "live" /\ ~row[v].paused THEN Eligible(tasks[v]) ELSE {}

\* pendingTasks; late is the set of VMs whose failed task is still backing
\* off (vmTaskReady).  The limit of 20 tasks per round is not reached with
\* 20 VMs or fewer, one task of each being a candidate.
PickTasks(late) ==
  /\ wpc = "pick"
  /\ batch' = [v \in VMs |->
       IF \E s \in Pickable(v) : tasks[v][s].status = "pending" \/ v \notin late
       THEN JobOf(v, CHOOSE s \in Pickable(v) : TRUE)
       ELSE NoJob]
  /\ wpc' = "next"
  /\ UNCHANGED <<dbVars, pve, req, expired, cur, created>>

\* An error of a statement ends the round; the next one comes with the ticker.
RoundFails ==
  /\ wpc \in {"expired", "queue", "supersede", "pick"}
  /\ wpc' = "round"
  /\ expired' = {}
  /\ UNCHANGED <<dbVars, pve, req, batch, cur, created>>

--------------------------------------------------------------------------------
(* The worker: carrying out one task of the batch.                         *)

\* markTaskRunning: by id, whatever became of the row since it was read.
StartTask(v) ==
  /\ wpc = "next"
  /\ batch[v] # NoJob
  /\ tasks' = [tasks EXCEPT ![v] = MarkRunning(@, batch[v].seq)]
  /\ cur' = v
  /\ created' = FALSE
  /\ wpc' = "run"
  /\ UNCHANGED <<row, pve, req, expired, batch>>

\* The statement failed: the task is left for another round.
SkipTask(v) ==
  /\ wpc = "next"
  /\ batch[v] # NoJob
  /\ batch' = [batch EXCEPT ![v] = NoJob]
  /\ UNCHANGED <<dbVars, pve, req, wpc, expired, cur, created>>

Goto(pc) == wpc' = pc /\ UNCHANGED <<expired, batch, cur>>

Executing(act) == wpc = "run" /\ cur \in VMs /\ batch[cur].act = act

\* syncPresent on a VM the cluster has.
FindVM ==
  /\ Executing("present")
  /\ pve[cur] = "present"
  /\ Goto("configure")
  /\ UNCHANGED <<dbVars, pve, req, created>>

\* createVM
CloneVM ==
  /\ Executing("present")
  /\ pve[cur] = "absent"
  /\ pve' = [pve EXCEPT ![cur] = "present"]
  /\ created' = TRUE
  /\ Goto("configure")
  /\ UNCHANGED <<dbVars, req>>

\* createVM fails after the clone was made: the migration failed and so did
\* the clean-up after it, or the clone could not be looked up.  The clone
\* stays, and syncPresent's rollback is not armed yet.
CloneLeftBehind ==
  /\ Executing("present")
  /\ pve[cur] = "absent"
  /\ pve' = [pve EXCEPT ![cur] = "present"]
  /\ Goto("failed")
  /\ UNCHANGED <<dbVars, req, created>>

\* configureVM, applyPower and markSynced went through.
ConfigureVM ==
  /\ wpc = "configure"
  /\ row' = [row EXCEPT ![cur].sync = "synced"]
  /\ Goto("done")
  /\ UNCHANGED <<tasks, pve, req, created>>

\* Mutant: the rollback does not ask who created the VM.
ConfigureFailsRollingBack ==
  /\ wpc = "configure"
  /\ pve' = [pve EXCEPT ![cur] = "absent"]
  /\ Goto("failed")
  /\ UNCHANGED <<dbVars, req, created>>

\* One of them failed: a VM this attempt created is rolled back, and the
\* rollback may fail as well.
ConfigureFails ==
  /\ wpc = "configure"
  /\ \/ created /\ pve' = [pve EXCEPT ![cur] = "absent"]
     \/ UNCHANGED pve
  /\ Goto("failed")
  /\ UNCHANGED <<dbVars, req, created>>

\* runPowerTask: markSynced at its end, unless no node has the VM.
PowerVM ==
  /\ Executing("power")
  /\ \/ pve[cur] = "present" /\ row' = [row EXCEPT ![cur].sync = "synced"]
     \/ pve[cur] = "absent" /\ UNCHANGED row
  /\ Goto("done")
  /\ UNCHANGED <<tasks, pve, req, created>>

\* runRebootTask
RebootVM ==
  /\ Executing("reboot")
  /\ Goto("done")
  /\ UNCHANGED <<dbVars, pve, req, created>>

\* FindVMNode or any later call of the task returned an error.
TaskErrs ==
  /\ wpc = "run"
  /\ Goto("failed")
  /\ UNCHANGED <<dbVars, pve, req, created>>

\* markDeleted
Deleted(r) == [r EXCEPT !.life = IF r.life = "live" THEN "deleted" ELSE r.life,
                        !.sync = "synced"]

\* syncDelete finds nothing to delete; the VM's other tasks are left alone.
DeleteAbsentVM ==
  /\ Executing("delete")
  /\ pve[cur] = "absent"
  /\ row' = [row EXCEPT ![cur] = Deleted(@)]
  /\ Goto("done")
  /\ UNCHANGED <<tasks, pve, req, created>>

\* syncDelete before the deadline: the VM is shut down and marked.
DeferDelete ==
  /\ Executing("delete")
  /\ pve[cur] = "present"
  /\ batch[cur].due = "future"
  /\ row' = [row EXCEPT ![cur].sync = "deleting"]
  /\ Goto("done")
  /\ UNCHANGED <<tasks, pve, req, created>>

\* syncDelete of a VM for which no deadline is known ("invalid
\* delete_execute_after").
RefuseDelete ==
  /\ Executing("delete")
  /\ pve[cur] = "present"
  /\ batch[cur].due = "none"
  /\ Goto("failed")
  /\ UNCHANGED <<dbVars, pve, req, created>>

\* Mutant: the clock is not compared with the deadline.
DestroyVMEarly ==
  /\ Executing("delete")
  /\ pve[cur] = "present"
  /\ batch[cur].due # "none"
  /\ pve' = [pve EXCEPT ![cur] = "absent"]
  /\ Goto("destroyed")
  /\ UNCHANGED <<dbVars, req, created>>

\* syncDelete after the deadline.
DestroyVM ==
  /\ Executing("delete")
  /\ pve[cur] = "present"
  /\ batch[cur].due = "past"
  /\ pve' = [pve EXCEPT ![cur] = "absent"]
  /\ Goto("destroyed")
  /\ UNCHANGED <<dbVars, req, created>>

MarkDeleted ==
  /\ wpc = "destroyed"
  /\ row' = [row EXCEPT ![cur] = Deleted(@)]
  /\ Goto("cancel")
  /\ UNCHANGED <<tasks, pve, req, created>>

MarkDeletedFails ==
  /\ wpc = "destroyed"
  /\ Goto("failed")
  /\ UNCHANGED <<dbVars, pve, req, created>>

\* cancelOutstandingVMTasks, whose error is only logged.
CancelOutstanding ==
  /\ wpc = "cancel"
  /\ tasks' = [tasks EXCEPT ![cur] = CancelUndated(@, Open(@))]
  /\ Goto("done")
  /\ UNCHANGED <<row, pve, req, created>>

CancelOutstandingFails ==
  /\ wpc = "cancel"
  /\ Goto("done")
  /\ UNCHANGED <<dbVars, pve, req, created>>

--------------------------------------------------------------------------------
(* The worker: writing the result down, and the end of the round.          *)

NextTask ==
  /\ batch' = [batch EXCEPT ![cur] = NoJob]
  /\ cur' = NoVM
  /\ wpc' = "next"
  /\ UNCHANGED expired

\* markTaskDone; when it fails runTask returns its error.
TaskDone ==
  /\ wpc = "done"
  /\ tasks' = [tasks EXCEPT ![cur] = MarkDone(@, batch[cur].seq)]
  /\ NextTask
  /\ UNCHANGED <<row, pve, req, created>>

TaskDoneFails ==
  /\ wpc = "done"
  /\ Goto("failed")
  /\ UNCHANGED <<dbVars, pve, req, created>>

Exhausted(v) == tasks[v][batch[v].seq].attempts > MaxRetries

AfterFailure == IF Exhausted(cur) THEN Goto("exhausted") ELSE NextTask

\* markTaskFailed
TaskFailed ==
  /\ wpc = "failed"
  /\ tasks' = [tasks EXCEPT ![cur] = MarkFailed(@, batch[cur].seq)]
  /\ AfterFailure
  /\ UNCHANGED <<row, pve, req, created>>

\* The failure cannot be written down: the task stays running.
TaskLeftRunning ==
  /\ wpc = "failed"
  /\ AfterFailure
  /\ UNCHANGED <<dbVars, pve, req, created>>

\* markFailed on the vms row, after the last automatic attempt.
VMFailed ==
  /\ wpc = "exhausted"
  /\ row' = [row EXCEPT ![cur].sync = "failed"]
  /\ NextTask
  /\ UNCHANGED <<tasks, pve, req, created>>

VMFailedFails ==
  /\ wpc = "exhausted"
  /\ NextTask
  /\ UNCHANGED <<dbVars, pve, req, created>>

BatchDone == wpc = "next" /\ \A v \in VMs : batch[v] = NoJob

\* purgeOldTasks, its first statement; old is the rows that were finished more
\* than 24 hours ago, each by its own finished_at.
PurgeFinished(old) ==
  /\ BatchDone
  /\ tasks' = [v \in VMs |-> Purge(tasks[v], old[v])]
  /\ wpc' = "purge"
  /\ UNCHANGED <<row, pve, req, expired, batch, cur, created>>

\* Its second statement, and the end of the round; S is the VMs that, if they
\* are deleted, have been so for 24 hours.
EndRound(S) ==
  /\ wpc = "purge"
  /\ tasks' = [v \in VMs |-> IF v \in S /\ row[v].life = "deleted"
                             THEN EmptyQueue ELSE tasks[v]]
  /\ wpc' = "round"
  /\ UNCHANGED <<row, pve, req, expired, batch, cur, created>>

\* Either fails; after the first the second is not tried.
PurgeFails ==
  /\ BatchDone \/ wpc = "purge"
  /\ wpc' = "round"
  /\ UNCHANGED <<dbVars, pve, req, expired, batch, cur, created>>

\* The process dies, or is stopped: nothing but database and cluster is kept.
CrashWorker ==
  /\ wpc # "down"
  /\ wpc' = "down"
  /\ expired' = {}
  /\ batch' = [v \in VMs |-> NoJob]
  /\ cur' = NoVM
  /\ created' = FALSE
  /\ UNCHANGED <<dbVars, pve, req>>

Round ==
  \/ StartWorker
  \/ \E S \in SUBSET VMs : BeginRound(S)
  \/ SelectExpired
  \/ \E v \in VMs : QueueExpired(v)
  \/ ExpiredQueued
  \/ CancelSuperseded
  \/ \E late \in SUBSET VMs : PickTasks(late)
  \/ \E old \in [VMs -> SUBSET Seqs] : PurgeFinished(old)
  \/ \E S \in SUBSET VMs : EndRound(S)

Execute ==
  \/ \E v \in VMs : StartTask(v)
  \/ FindVM \/ CloneVM \/ ConfigureVM \/ PowerVM \/ RebootVM
  \/ DeleteAbsentVM \/ DeferDelete \/ RefuseDelete
  \/ DestroyVM \/ MarkDeleted \/ CancelOutstanding
  \/ TaskDone \/ TaskFailed \/ VMFailed

Faults ==
  \/ \E v \in VMs : SkipTask(v)
  \/ StartWithoutRecovery \/ RoundFails \/ PurgeFails
  \/ CloneLeftBehind \/ ConfigureFails \/ TaskErrs
  \/ MarkDeletedFails \/ CancelOutstandingFails
  \/ TaskDoneFails \/ TaskLeftRunning \/ VMFailedFails
  \/ CrashWorker

--------------------------------------------------------------------------------
(* Time.                                                                   *)

PreferReached(p) == [p EXCEPT !.after = Reached(p.after)]

\* The deadlines set for v pass, wherever a copy of them is kept.
DeadlinePasses(v) ==
  /\ \/ row[v].delAfter = "future"
     \/ row[v].prefer.after = "future"
     \/ batch[v].due = "future"
     \/ \E s \in Seqs : tasks[v][s].due = "future"
  /\ row' = [row EXCEPT ![v] = [row[v] EXCEPT
                                  !.delAfter = Reached(row[v].delAfter),
                                  !.prefer = PreferReached(row[v].prefer)]]
  /\ tasks' = [tasks EXCEPT ![v] = DeadlinesReached(@)]
  /\ req' = [c \in Clients |->
               IF req[c] # NoRequest /\ req[c].vm = v
               THEN [req[c] EXCEPT !.prefer = PreferReached(req[c].prefer)] ELSE req[c]]
  /\ batch' = [batch EXCEPT ![v].due = Reached(@)]
  /\ UNCHANGED <<pve, wpc, expired, cur, created>>

Time == \E v \in VMs : DeadlinePasses(v)

--------------------------------------------------------------------------------
Next == Server \/ Round \/ Execute \/ Faults \/ Time

Spec == Init /\ [][Next]_vars

\* The purge finds rows of v that are more than 24 hours old.
PurgeRows(v) ==
  \E old \in [VMs -> SUBSET Seqs] :
    Purgeable(tasks[v]) \intersect old[v] # {} /\ PurgeFinished(old)

\* The worker is one loop in one process that its supervisor restarts, so it
\* takes its steps; a task that could not be closed will have been running
\* for 30 minutes, a backoff will have elapsed, days pass, and where
\* rows wait to be purged again and again, one of them will be a day old.
\* Nothing is assumed about the users.
Fairness ==
  /\ WF_vars(Round \/ Execute)
  /\ SF_vars(BeginRound(VMs))
  /\ SF_vars(PickTasks({}))
  /\ \A v \in VMs : SF_vars(DeadlinePasses(v)) /\ SF_vars(PurgeRows(v))

FairSpec == Spec /\ Fairness

--------------------------------------------------------------------------------
(* Safety.                                                                 *)

\* Tasks of one VM are carried out one at a time and in the order of seq
\* (pendingTasks' NOT EXISTS), in spite of handlers that cancel, retry and
\* queue while the worker is busy and of statements that overwrite a status
\* by id: no open task comes before a running one, nor before the one the
\* worker is executing from its copy.
SerialExecution ==
  /\ \A v \in VMs : \A s \in Running(tasks[v]) : IsHead(tasks[v], s)
  /\ cur # NoVM => IsHead(tasks[cur], batch[cur].seq)

\* A VM whose row says deleted_at is gone from the cluster and nothing the
\* worker still has in hand brings it back: no orphan keeps using the vmid
\* the row gave up (syncDelete deletes before markDeleted; pendingTasks
\* skips deleted rows).
NoOrphan ==
  \A v \in VMs : row[v].life = "deleted" => pve[v] = "absent"

\* A VM shown as synced that nobody asked to delete exists on the cluster:
\* rollbacks of failed attempts, deletions and late results of the worker
\* never leave such a row without its VM (markSynced against
\* rollbackProvision and syncDelete).
SyncedVMExists ==
  \A v \in VMs :
    row[v].life = "live" /\ row[v].sync = "synced" /\ ~row[v].delReq
      => pve[v] = "present"

\* A task that failed for the last automatic time is not started again
\* unless a user retried it (vmTaskRetryDelay against attempt_count), also
\* when it was read, interrupted or requeued on the way there.
RetryBudget ==
  [][\A v \in VMs, s \in Seqs :
       /\ tasks[v][s].status = "failed"
       /\ tasks[v][s].attempts > MaxRetries
       => tasks'[v][s].status # "running"]_vars

\* The worker destroys a VM (syncDelete's DeleteVM) only while a deletion is
\* requested and its deadline has passed.  True as long as nobody restores and
\* requests come one after the other; the worker does not look at the row
\* again after it read the batch.
DestroyedWhenDue ==
  [][\A v \in VMs : wpc = "run" /\ wpc' = "destroyed" /\ cur = v
       => row[v].delReq /\ row[v].delAfter = "past"]_vars

--------------------------------------------------------------------------------
(* Liveness.                                                               *)

\* Statements and PVE calls stop failing and the worker stops crashing.
EventuallyReliable == <>[][Server \/ Round \/ Execute \/ Time]_vars

\* Once failures stop, every deletion that is neither paused nor restored
\* is carried out: exhausted deletions are retried by purgeOldTasks and
\* ensureExpiredDeleteTasks, tasks in the way are canceled.
DeletionCompletes ==
  EventuallyReliable =>
    \A v \in VMs :
      row[v].life = "live" /\ row[v].delReq
        ~> \/ row[v].life # "live"
           \/ ~row[v].delReq
           \/ row[v].paused
================================================================================
