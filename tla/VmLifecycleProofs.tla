--------------------------- MODULE VmLifecycleProofs ---------------------------
(***************************************************************************)
(* Proofs about VmLifecycle, for any number of VMs, clients and tasks:     *)
(* what the statements of VmTasks preserve, the inductive invariant and    *)
(* what follows from it, when deletions are on time, and that VmLifecycle  *)
(* implements SerialQueue.                                                 *)
(***************************************************************************)
EXTENDS VmQueue, TLAPS

--------------------------------------------------------------------------------
(* The statements.                                                         *)

\* Every statement maps a queue to a queue (the columns keep their domains).
LEMMA StatementsKeepType ==
  ASSUME NEW q \in Queues
  PROVE  /\ \A n \in Seqs, k \in Kinds, d \in Instants : Enqueue(q, n, k, d) \in Queues
         /\ \A S \in SUBSET Seqs : CancelDated(q, S) \in Queues
         /\ \A S \in SUBSET Seqs : CancelUndated(q, S) \in Queues
         /\ \A S \in SUBSET Seqs : Requeue(q, S) \in Queues
         /\ \A s \in Seqs : MarkRunning(q, s) \in Queues
         /\ \A s \in Seqs : MarkDone(q, s) \in Queues
         /\ \A s \in Seqs : MarkFailed(q, s) \in Queues
         /\ \A old : Purge(q, old) \in Queues
         /\ DeadlinesReached(q) \in Queues
         /\ EmptyQueue \in Queues
<1> USE SeqAssumption, RetryAssumption
    DEF Queues, Task, Statuses, Kinds, Instants, Stamps, Attempts, Seqs
<1>1. \A n \in Seqs, k \in Kinds, d \in Instants : Enqueue(q, n, k, d) \in Queues
  BY DEF Enqueue
<1>2. \A S \in SUBSET Seqs : CancelDated(q, S) \in Queues
  BY DEF CancelDated
<1>3. \A S \in SUBSET Seqs : CancelUndated(q, S) \in Queues
  BY DEF CancelUndated
<1>4. \A S \in SUBSET Seqs : Requeue(q, S) \in Queues
  BY DEF Requeue
<1>5. ASSUME NEW s \in Seqs PROVE MarkRunning(q, s) \in Queues
  <2>1. q[s].attempts \in 0 .. MaxRetries + 1
    OBVIOUS
  <2>2. OneMore(q[s].attempts) \in Attempts
    BY <2>1 DEF OneMore
  <2> QED BY <2>2 DEF MarkRunning
<1>6. ASSUME NEW s \in Seqs PROVE MarkDone(q, s) \in Queues
  <2>1. [q[s] EXCEPT !.status = "done", !.finished = "set"] \in Task
    OBVIOUS
  <2> QED BY <2>1 DEF MarkDone
<1>7. ASSUME NEW s \in Seqs PROVE MarkFailed(q, s) \in Queues
  <2>1. [q[s] EXCEPT !.status = "failed", !.finished = "set"] \in Task
    OBVIOUS
  <2> QED BY <2>1 DEF MarkFailed
<1>8. \A old : Purge(q, old) \in Queues
  BY DEF Purge, NoTask
<1>9. DeadlinesReached(q) \in Queues
  BY DEF DeadlinesReached, Reached
<1>10. EmptyQueue \in Queues
  BY DEF EmptyQueue, NoTask
<1> QED BY <1>1, <1>2, <1>3, <1>4, <1>5, <1>6, <1>7, <1>8, <1>9, <1>10

--------------------------------------------------------------------------------
(* What a statement may do to the order of tasks, the worker's marks on    *)
(* its own task aside.                                                     *)

\* r is q after such statements: rows stay and keep their kind, a task
\* becomes open only as a new row behind all others, with a deadline in D,
\* and none is started.
Follows(q, r, D) ==
  /\ \A s \in Rows(q) : /\ s \in Rows(r)
                        /\ r[s].kind = q[s].kind
                        /\ r[s].due = "none" <=> q[s].due = "none"
  /\ \A s \in Open(r) : \/ s \in Open(q)
                        \/ r[s].due \in D /\ \A t \in Rows(q) : t < s
  /\ \A s \in Tried(r) : /\ s \in Tried(q)
                         /\ r[s].status = q[s].status
                         /\ r[s].attempts = q[s].attempts

LEMMA FollowsItself ==
  ASSUME NEW q, NEW D PROVE Follows(q, q, D)
BY DEF Follows

\* Two statements of one transaction are as good as one.
LEMMA FollowsTransitive ==
  ASSUME NEW q, NEW p, NEW r, NEW C, NEW D, C \subseteq {"none"} \intersect D,
         Follows(q, p, C), Follows(p, r, D)
  PROVE  Follows(q, r, D)
<1>1. ASSUME NEW s \in Open(r)
      PROVE  s \in Open(q) \/ (r[s].due \in D /\ \A t \in Rows(q) : t < s)
  <2>1. CASE s \in Open(p)
    <3>1. s \in Open(q) \/ (p[s].due \in C /\ \A t \in Rows(q) : t < s)
      BY <2>1 DEF Follows
    <3>2. p[s].due \in C => r[s].due \in D
      BY <2>1 DEF Follows, Open
    <3> QED BY <3>1, <3>2
  <2>2. CASE s \notin Open(p)
    BY <1>1, <2>2 DEF Follows
  <2> QED BY <2>1, <2>2
<1> QED BY <1>1 DEF Follows

LEMMA FollowsWider ==
  ASSUME NEW q, NEW r, NEW D, NEW E, D \subseteq E, Follows(q, r, D)
  PROVE  Follows(q, r, E)
BY DEF Follows

\* queueVMTaskTx and queueVMTask: the new task comes last.
LEMMA EnqueueFollows ==
  ASSUME NEW q \in Queues, NEW n \in Seqs, \A s \in Rows(q) : s < n,
         NEW kind, NEW D, NEW due \in D
  PROVE  Follows(q, Enqueue(q, n, kind, due), D)
<1> DEFINE r == Enqueue(q, n, kind, due)
<1>1. n \notin Rows(q)
  BY DEF Seqs
<1>2. /\ r[n].status = "pending" /\ r[n].due = due
      /\ \A s \in Seqs : s # n => r[s] = q[s]
  BY DEF Enqueue, Queues
<1> HIDE DEF r
<1>3. \A s \in Rows(q) : s \in Rows(r) /\ r[s] = q[s]
  BY <1>1, <1>2 DEF Rows
<1>4. \A s \in Open(r) : s = n \/ s \in Open(q)
  BY <1>2 DEF Open, Rows
<1>5. \A s \in Tried(r) : s \in Tried(q) /\ r[s] = q[s]
  BY <1>2 DEF Tried, Rows
<1> QED BY <1>2, <1>3, <1>4, <1>5 DEF Follows, r

\* The statements that cancel, requeue or finish tasks, and time.
LEMMA StatementsFollow ==
  ASSUME NEW q \in Queues, NEW D
  PROVE  /\ \A S \in SUBSET Seqs : Follows(q, CancelDated(q, S), D)
         /\ \A S \in SUBSET Seqs : Follows(q, CancelUndated(q, S), D)
         /\ \A S \in SUBSET Open(q) : Follows(q, Requeue(q, S), D)
         /\ \A s \in Seqs : Follows(q, MarkDone(q, s), D)
         /\ Follows(q, DeadlinesReached(q), D)
<1> USE DEF Follows, Tried, Open, Rows, Queues, Task, Statuses
<1>1. ASSUME NEW S \in SUBSET Seqs PROVE Follows(q, CancelDated(q, S), D)
  BY DEF CancelDated
<1>2. ASSUME NEW S \in SUBSET Seqs PROVE Follows(q, CancelUndated(q, S), D)
  BY DEF CancelUndated
<1>3. ASSUME NEW S \in SUBSET Open(q) PROVE Follows(q, Requeue(q, S), D)
  BY DEF Requeue
<1>4. ASSUME NEW s \in Seqs PROVE Follows(q, MarkDone(q, s), D)
  BY DEF MarkDone
<1>5. Follows(q, DeadlinesReached(q), D)
  BY DEF DeadlinesReached, Reached
<1> QED BY <1>1, <1>2, <1>3, <1>4, <1>5

\* Canceling leaves the rows there are, so the next number stays the next.
LEMMA CancelKeepsRows ==
  ASSUME NEW q \in Queues, NEW S \in SUBSET Rows(q)
  PROVE  Rows(CancelDated(q, S)) = Rows(q) /\ Rows(CancelUndated(q, S)) = Rows(q)
BY DEF Rows, CancelDated, CancelUndated, Queues, Task

\* A new row is the only one added.
LEMMA EnqueueRows ==
  ASSUME NEW q \in Queues, NEW n \in Seqs, NEW kind, NEW due
  PROVE  Rows(Enqueue(q, n, kind, due)) \subseteq Rows(q) \union {n}
BY DEF Rows, Enqueue, Queues

--------------------------------------------------------------------------------
(* The inductive invariant.                                                *)

\* The constants a task or a row is made of.
LEMMA Nulls ==
  /\ NoTask \in Task
  /\ NoRow \in Row
  /\ PreferPresent \in Prefer
  /\ NoVM \notin VMs
BY VmAssumption, SeqAssumption, RetryAssumption
   DEF NoTask, Task, Statuses, Kinds, Instants, Attempts, Stamps, NoRow, Row,
       Lives, SyncStates, Prefer, Intents, PreferPresent

\* A job of the batch names a task of its VM.
LEMMA JobTypes ==
  ASSUME TypeOK, NEW v \in VMs, NEW s \in Seqs
  PROVE  JobOf(v, s) \in Job
<1>1. row[v] \in Row /\ tasks[v][s] \in Task
  BY DEF TypeOK, Queues
<1> DEFINE due == IF tasks[v][s].due # "none" THEN tasks[v][s].due
                  ELSE IF row[v].delAfter # "none" THEN row[v].delAfter
                  ELSE row[v].prefer.after
           act == IF tasks[v][s].kind \in {"provision", "apply"}
                  THEN IF row[v].prefer.intent = "delete_pending" \/ PendingDeletion(v)
                       THEN "delete" ELSE "present"
                  ELSE tasks[v][s].kind
<1>2. due \in Instants
  BY <1>1 DEF Row, Task, Prefer
<1>3. act \in Acts
  BY <1>1 DEF Task, Kinds, Acts
<1> QED BY <1>2, <1>3 DEF JobOf, Job
--------------------------------------------------------------------------------
(* Type correctness.                                                       *)

LEMMA TypeInit == Init => TypeOK
<1>1. EmptyQueue \in Queues
  BY Nulls DEF EmptyQueue, Queues
<1> SUFFICES ASSUME Init PROVE TypeOK
  OBVIOUS
<1> USE DEF Init
<1>2. row \in [VMs -> Row] /\ tasks \in [VMs -> Queues]
  BY <1>1, Nulls
<1>3. pve \in [VMs -> {"absent", "present"}] /\ batch \in [VMs -> Job \union {NoJob}]
  OBVIOUS
<1>4. req \in [Clients -> Request \union {NoRequest}]
  OBVIOUS
<1>5. wpc \in WorkerPcs
  BY DEF WorkerPcs
<1>6. expired \in SUBSET VMs /\ cur \in VMs \union {NoVM} /\ created \in BOOLEAN
  OBVIOUS
<1> QED BY <1>2, <1>3, <1>4, <1>5, <1>6 DEF TypeOK

LEMMA TypeServer ==
  ASSUME TypeOK, Server
  PROVE  TypeOK'
<1> USE Nulls DEF TypeOK
<1> DEFINE Put(v, r, q) == /\ row' = [row EXCEPT ![v] = r]
                           /\ tasks' = [tasks EXCEPT ![v] = q]
<1>put. ASSUME NEW v \in VMs, NEW r \in Row, NEW q \in Queues, Put(v, r, q)
        PROVE  row' \in [VMs -> Row] /\ tasks' \in [VMs -> Queues]
  BY <1>put
<1> HIDE DEF Put
<1>commit. ASSUME NEW c \in Clients, req[c] # NoRequest,
                  NEW r \in Row, NEW q \in Queues, Commit(c, r, q)
           PROVE  TypeOK'
  <2>1. req[c] \in Request
    BY <1>commit
  <2>2. req[c].vm \in VMs
    BY <2>1 DEF Request
  <2> QED BY <2>2, <1>commit, <1>put DEF Commit, workerVars, Put
<1>queue. ASSUME NEW v \in VMs, NEW n \in Seqs, NEW k \in Kinds, NEW d \in Instants
          PROVE  Enqueue(tasks[v], n, k, d) \in Queues
  BY StatementsKeepType
<1>1. ASSUME NEW v \in VMs, CreateVM(v) PROVE TypeOK'
  <2>1. [NoRow EXCEPT !.life = "live"] \in Row
    BY DEF Row, Lives
  <2>2. \A n \in Seqs : Enqueue(tasks[v], n, "provision", "none") \in Queues
    BY <1>queue DEF Kinds, Instants
  <2> QED BY <1>1, <2>1, <2>2, <1>put DEF CreateVM, workerVars, Put
<1>2. ASSUME NEW v \in VMs, PauseVMTasks(v) \/ ResumeVMTasks(v) PROVE TypeOK'
  <2>1. PICK p \in BOOLEAN : SetPaused(v, p)
    BY <1>2 DEF PauseVMTasks, ResumeVMTasks
  <2>2. [row[v] EXCEPT !.paused = p] \in Row
    BY DEF Row
  <2> QED BY <2>1, <2>2 DEF SetPaused, workerVars
<1>3. ASSUME NEW c \in Clients, NEW op \in Ops \intersect TwoStepOps,
             NEW v \in VMs, NEW s \in Seqs, Load(c, op, v, s)
      PROVE  TypeOK'
  <2> DEFINE prefer == IF op \in {"patch", "power"} THEN row[v].prefer ELSE PreferPresent
  <2>1. prefer \in Prefer
    BY DEF Row
  <2>2. [op |-> op, vm |-> v, prefer |-> prefer, seq |-> s] \in Request
    BY <2>1 DEF Request
  <2> QED BY <1>3, <2>2 DEF Load, dbVars, workerVars
<1>4. ASSUME NEW c \in Clients, RequestFails(c) PROVE TypeOK'
  BY <1>4 DEF RequestFails, dbVars, workerVars
<1>req. ASSUME NEW c \in Clients, req[c].op \in TwoStepOps
        PROVE  /\ req[c] # NoRequest /\ req[c].vm \in VMs
               /\ req[c].prefer \in Prefer /\ req[c].seq \in Seqs
  <2>1. req[c] # NoRequest
    BY <1>req DEF TwoStepOps, NoRequest
  <2> QED BY <2>1 DEF Request
<1>seq. \A n \in 1 .. ClientSeqs : n \in Seqs /\ (n < ClientSeqs => n + 1 \in Seqs)
  BY ClientSeqsAssumption, SeqAssumption DEF Seqs
<1>5. ASSUME NEW c \in Clients, CommitPatch(c) PROVE TypeOK'
  <2> DEFINE v == req[c].vm
             r == [row[v] EXCEPT !.sync = "pending", !.prefer = req[c].prefer]
  <2>1. v \in VMs /\ req[c] # NoRequest /\ r \in Row
    BY <1>5, <1>req DEF CommitPatch, TwoStepOps, Row, SyncStates
  <2>2. ASSUME NEW n \in 1 .. ClientSeqs
        PROVE  /\ Enqueue(tasks[v], n, "apply", "none") \in Queues
               /\ n < ClientSeqs =>
                    Enqueue(Enqueue(tasks[v], n, "apply", "none"), n + 1, "reboot", "none") \in Queues
    <3>1. Enqueue(tasks[v], n, "apply", "none") \in Queues
      BY <2>1, <1>queue, <1>seq DEF Kinds, Instants
    <3> QED BY <3>1, <1>seq, StatementsKeepType DEF Kinds, Instants
  <2> QED BY <1>5, <2>1, <2>2, <1>commit DEF CommitPatch
<1>6. ASSUME NEW c \in Clients, CommitPower(c) PROVE TypeOK'
  <2> DEFINE v == req[c].vm
             r == [row[v] EXCEPT !.sync = "pending", !.prefer = req[c].prefer]
  <2>1. v \in VMs /\ req[c] # NoRequest /\ r \in Row
    BY <1>6, <1>req DEF CommitPower, TwoStepOps, Row, SyncStates
  <2>2. \A n \in 1 .. ClientSeqs : Enqueue(tasks[v], n, "power", "none") \in Queues
    BY <2>1, <1>queue, <1>seq DEF Kinds, Instants
  <2> QED BY <1>6, <2>1, <2>2, <1>commit DEF CommitPower
<1>7. ASSUME NEW c \in Clients, CommitDelete(c) PROVE TypeOK'
  <2> DEFINE v == req[c].vm
             r == [row[v] EXCEPT !.sync = "deleting", !.delReq = TRUE,
                                 !.delAfter = "future",
                                 !.prefer = [intent |-> "delete_pending", after |-> "future"]]
  <2>1. v \in VMs /\ req[c] # NoRequest /\ r \in Row
    <3>1. v \in VMs /\ req[c] # NoRequest
      BY <1>7, <1>req DEF CommitDelete, TwoStepOps
    <3>2. [intent |-> "delete_pending", after |-> "future"] \in Prefer
      BY DEF Prefer, Intents, Instants
    <3>3. "future" \in Instants
      BY DEF Instants
    <3> QED BY <3>1, <3>2, <3>3 DEF Row, SyncStates
  <2>2. CancelOpen(tasks[v]) \in Queues
    BY <2>1, StatementsKeepType DEF CancelOpen, Open, Rows
  <2>3. \A n \in 1 .. ClientSeqs : Enqueue(CancelOpen(tasks[v]), n, "delete", "future") \in Queues
    BY <2>2, StatementsKeepType, <1>seq DEF Kinds, Instants
  <2> QED BY <1>7, <2>1, <2>3, <1>commit DEF CommitDelete
<1>8. ASSUME NEW c \in Clients, CommitDeleteNow(c) PROVE TypeOK'
  <2> DEFINE v == req[c].vm
             r == [row[v] EXCEPT !.sync = "deleting", !.delReq = TRUE,
                                 !.delAfter = "past",
                                 !.prefer = [intent |-> "delete_pending", after |-> "past"]]
  <2>1. v \in VMs /\ req[c] # NoRequest /\ r \in Row
    <3>1. v \in VMs /\ req[c] # NoRequest
      BY <1>8, <1>req DEF CommitDeleteNow, TwoStepOps
    <3>2. [intent |-> "delete_pending", after |-> "past"] \in Prefer
      BY DEF Prefer, Intents, Instants
    <3>3. "past" \in Instants
      BY DEF Instants
    <3> QED BY <3>1, <3>2, <3>3 DEF Row, SyncStates
  <2>2. CancelOpen(tasks[v]) \in Queues
    BY <2>1, StatementsKeepType DEF CancelOpen, Open, Rows
  <2>3. \A n \in 1 .. ClientSeqs : Enqueue(CancelOpen(tasks[v]), n, "delete", "none") \in Queues
    BY <2>2, StatementsKeepType, <1>seq DEF Kinds, Instants
  <2> QED BY <1>8, <2>1, <2>3, <1>commit DEF CommitDeleteNow
<1>9. ASSUME NEW c \in Clients, CommitRestore(c) PROVE TypeOK'
  <2> DEFINE v == req[c].vm
             r == [row[v] EXCEPT !.sync = "pending", !.delReq = FALSE,
                                 !.delAfter = "none", !.prefer = PreferPresent]
             q == CancelUndated(tasks[v], RestoreCancels(tasks[v]))
  <2>1. v \in VMs /\ req[c] # NoRequest /\ r \in Row
    BY <1>9, <1>req DEF CommitRestore, TwoStepOps, Row, SyncStates, Instants
  <2>2. q \in Queues
    BY <2>1, StatementsKeepType DEF RestoreCancels, OpenDeletes, Open, Rows
  <2>3. \A n \in 1 .. ClientSeqs : Enqueue(q, n, "apply", "none") \in Queues
    BY <2>2, StatementsKeepType, <1>seq DEF Kinds, Instants
  <2> QED BY <1>9, <2>1, <2>3, <1>commit DEF CommitRestore
<1>10. ASSUME NEW c \in Clients, CommitRetry(c) PROVE TypeOK'
  <2> DEFINE v == req[c].vm
             s == req[c].seq
             r == [row[v] EXCEPT !.sync = IF row[v].delReq THEN "deleting" ELSE "pending"]
             q == IF tasks[v][s].status = "failed" THEN Requeue(tasks[v], {s}) ELSE tasks[v]
  <2>1. v \in VMs /\ s \in Seqs /\ req[c] # NoRequest /\ r \in Row
    BY <1>10, <1>req DEF CommitRetry, TwoStepOps, Row, SyncStates
  <2>2. q \in Queues
    BY <2>1, StatementsKeepType
  <2> QED BY <1>10, <2>1, <2>2, <1>commit DEF CommitRetry
<1> QED BY <1>1, <1>2, <1>3, <1>4, <1>5, <1>6, <1>7, <1>8, <1>9, <1>10 DEF Server

LEMMA TypeRound ==
  ASSUME TypeOK, Round
  PROVE  TypeOK'
<1> USE DEF TypeOK, WorkerPcs
<1>requeue. ASSUME NEW S \in SUBSET VMs, RequeueRunning(S)
            PROVE  tasks' \in [VMs -> Queues]
  <2>1. \A v \in VMs : Requeue(tasks[v], Running(tasks[v])) \in Queues
    BY StatementsKeepType DEF Running, Rows
  <2> QED BY <1>requeue, <2>1 DEF RequeueRunning
<1>1. ASSUME NEW S \in SUBSET VMs, Start(S) PROVE TypeOK'
  BY <1>1, <1>requeue DEF Start
<1>2. ASSUME NEW S \in SUBSET VMs, BeginRound(S) PROVE TypeOK'
  BY <1>2, <1>requeue DEF BeginRound
<1>3. CASE SelectExpired
  BY <1>3 DEF SelectExpired, dbVars
<1>4. ASSUME NEW v \in VMs, QueueExpired(v) PROVE TypeOK'
  <2>1. \A n \in Seqs : Enqueue(tasks[v], n, "delete", "none") \in Queues
    BY StatementsKeepType DEF Kinds, Instants
  <2> QED BY <1>4, <2>1 DEF QueueExpired
<1>5. CASE ExpiredQueued
  BY <1>5 DEF ExpiredQueued, dbVars
<1>6. CASE CancelSuperseded
  <2>1. \A v \in VMs : CancelDated(tasks[v], Superseded(v)) \in Queues
    BY StatementsKeepType DEF Superseded, Open, Rows
  <2> QED BY <1>6, <2>1 DEF CancelSuperseded
<1>7. ASSUME NEW late \in SUBSET VMs, PickTasks(late) PROVE TypeOK'
  <2>1. ASSUME NEW v \in VMs, \E s \in Pickable(v) : tasks[v][s].status = "pending" \/ v \notin late
        PROVE  JobOf(v, CHOOSE s \in Pickable(v) : TRUE) \in Job
    <3>1. Pickable(v) \subseteq Seqs
      BY DEF Pickable, Eligible, Rows
    <3>2. (CHOOSE s \in Pickable(v) : TRUE) \in Seqs
      BY <2>1, <3>1
    <3> QED BY <3>2, JobTypes
  <2> QED BY <1>7, <2>1 DEF PickTasks, dbVars
<1>8. ASSUME NEW old, PurgeFinished(old) PROVE TypeOK'
  <2>1. \A v \in VMs : Purge(tasks[v], old[v]) \in Queues
    BY StatementsKeepType
  <2> QED BY <1>8, <2>1 DEF PurgeFinished
<1>9. ASSUME NEW S, EndRound(S) PROVE TypeOK'
  <2>1. \A v \in VMs : EmptyQueue \in Queues
    BY StatementsKeepType
  <2> QED BY <1>9, <2>1 DEF EndRound
<1>10. StartWorker => \E S \in SUBSET VMs : Start(S)
  BY DEF StartWorker
<1> QED BY <1>1, <1>2, <1>3, <1>4, <1>5, <1>6, <1>7, <1>8, <1>9, <1>10 DEF Round

\* The job under execution is one of a VM, and names a task of it.
LEMMA Executed ==
  ASSUME TypeOK, Control, wpc \in ExecPcs
  PROVE  /\ cur \in VMs
         /\ batch[cur] # NoJob
         /\ batch[cur] \in Job
         /\ batch[cur].seq \in Seqs
BY DEF TypeOK, Control, Job, ExecPcs

LEMMA TypeExecute ==
  ASSUME TypeOK, Control, Execute \/ Faults
  PROVE  TypeOK'
<1> USE DEF TypeOK, WorkerPcs, dbVars
<1>marks. ASSUME NEW v \in VMs, NEW s \in Seqs
          PROVE  /\ MarkRunning(tasks[v], s) \in Queues
                 /\ MarkDone(tasks[v], s) \in Queues
                 /\ MarkFailed(tasks[v], s) \in Queues
                 /\ CancelUndated(tasks[v], Open(tasks[v])) \in Queues
  BY StatementsKeepType DEF Open, Rows
<1>exec. ASSUME wpc \in ExecPcs
         PROVE  cur \in VMs /\ batch[cur] \in Job /\ batch[cur].seq \in Seqs
  BY <1>exec, Executed
<1>pcs. {"run", "configure", "destroyed", "cancel", "done", "failed", "exhausted"} \subseteq ExecPcs
  BY DEF ExecPcs, RoundPcs
<1>row. ASSUME NEW v \in VMs
        PROVE  /\ \A y \in SyncStates : [row[v] EXCEPT !.sync = y] \in Row
               /\ Deleted(row[v]) \in Row
  <2>1. row[v] \in Row
    OBVIOUS
  <2>2. \A y \in SyncStates : [row[v] EXCEPT !.sync = y] \in Row
    BY <2>1 DEF Row
  <2>3. (IF row[v].life = "live" THEN "deleted" ELSE row[v].life) \in Lives
    BY <2>1 DEF Row, Lives
  <2>4. "synced" \in SyncStates
    BY DEF SyncStates
  <2>5. Deleted(row[v]) \in Row
    BY <2>1, <2>3, <2>4 DEF Row, Deleted
  <2> QED BY <2>2, <2>5
<1>next. ASSUME wpc \in ExecPcs, NextTask
         PROVE  /\ wpc' \in WorkerPcs /\ expired' \in SUBSET VMs
                /\ batch' \in [VMs -> Job \union {NoJob}]
                /\ cur' \in VMs \union {NoVM}
  BY <1>next DEF NextTask
<1>after. ASSUME wpc \in ExecPcs, AfterFailure
          PROVE  /\ wpc' \in WorkerPcs /\ expired' \in SUBSET VMs
                 /\ batch' \in [VMs -> Job \union {NoJob}]
                 /\ cur' \in VMs \union {NoVM}
  BY <1>after, <1>next DEF AfterFailure, Goto
<1>1. ASSUME NEW v \in VMs, StartTask(v) PROVE TypeOK'
  <2>1. batch[v].seq \in Seqs
    BY <1>1 DEF StartTask, Job
  <2> QED BY <1>1, <2>1, <1>marks DEF StartTask
<1>2. ASSUME NEW v \in VMs, SkipTask(v) PROVE TypeOK'
  BY <1>2 DEF SkipTask
<1>3. CASE FindVM \/ RebootVM \/ TaskErrs \/ RefuseDelete
  BY <1>3 DEF FindVM, RebootVM, TaskErrs, RefuseDelete, Goto
<1>4. CASE CloneVM \/ CloneLeftBehind
  BY <1>4 DEF CloneVM, CloneLeftBehind, Goto, Executing
<1>5. CASE ConfigureVM
  <2>1. [row[cur] EXCEPT !.sync = "synced"] \in Row
    BY <1>5, <1>exec, <1>pcs, <1>row DEF ConfigureVM, SyncStates
  <2> QED BY <1>5, <2>1 DEF ConfigureVM, Goto
<1>6. CASE ConfigureFails \/ DestroyVM
  BY <1>6 DEF ConfigureFails, DestroyVM, Goto
<1>7. CASE PowerVM
  <2>1. [row[cur] EXCEPT !.sync = "synced"] \in Row
    BY <1>7, <1>row DEF PowerVM, Executing, SyncStates
  <2> QED BY <1>7, <2>1 DEF PowerVM, Goto
<1>8. CASE DeleteAbsentVM \/ MarkDeleted
  <2>1. Deleted(row[cur]) \in Row
    BY <1>8, <1>exec, <1>pcs, <1>row DEF DeleteAbsentVM, MarkDeleted, Executing
  <2> QED BY <1>8, <2>1 DEF DeleteAbsentVM, MarkDeleted, Goto
<1>9. CASE DeferDelete
  <2>1. [row[cur] EXCEPT !.sync = "deleting"] \in Row
    BY <1>9, <1>row DEF DeferDelete, Executing, SyncStates
  <2> QED BY <1>9, <2>1 DEF DeferDelete, Goto
<1>10. CASE MarkDeletedFails \/ CancelOutstandingFails \/ TaskDoneFails
  BY <1>10 DEF MarkDeletedFails, CancelOutstandingFails, TaskDoneFails, Goto
<1>11. CASE CancelOutstanding
  BY <1>11, <1>exec, <1>pcs, <1>marks DEF CancelOutstanding, Goto
<1>12. CASE TaskDone
  BY <1>12, <1>exec, <1>pcs, <1>marks, <1>next DEF TaskDone
<1>13. CASE TaskFailed
  BY <1>13, <1>exec, <1>pcs, <1>marks, <1>after DEF TaskFailed
<1>14. CASE TaskLeftRunning
  BY <1>14, <1>pcs, <1>after DEF TaskLeftRunning
<1>15. CASE VMFailed
  <2>1. [row[cur] EXCEPT !.sync = "failed"] \in Row
    BY <1>15, <1>exec, <1>pcs, <1>row DEF VMFailed, SyncStates
  <2> QED BY <1>15, <2>1, <1>pcs, <1>next DEF VMFailed
<1>16. CASE VMFailedFails
  BY <1>16, <1>pcs, <1>next DEF VMFailedFails
<1>17. CASE StartWithoutRecovery
  BY <1>17 DEF StartWithoutRecovery, Start, RequeueRunning
<1>18. CASE RoundFails \/ PurgeFails
  BY <1>18 DEF RoundFails, PurgeFails
<1>19. CASE CrashWorker
  BY <1>19 DEF CrashWorker
<1> QED BY <1>1, <1>2, <1>3, <1>4, <1>5, <1>6, <1>7, <1>8, <1>9, <1>10, <1>11,
           <1>12, <1>13, <1>14, <1>15, <1>16, <1>17, <1>18, <1>19
        DEF Execute, Faults

LEMMA TypeTime ==
  ASSUME TypeOK, Time
  PROVE  TypeOK'
<1> USE DEF TypeOK
<1>reached. \A x \in Instants : Reached(x) \in Instants
  BY DEF Instants, Reached
<1>prefer. \A p \in Prefer : PreferReached(p) \in Prefer
  BY <1>reached DEF Prefer, PreferReached
<1>1. ASSUME NEW v \in VMs, DeadlinePasses(v) PROVE TypeOK'
  <2>1. [row[v] EXCEPT !.delAfter = Reached(row[v].delAfter),
                       !.prefer = PreferReached(row[v].prefer)] \in Row
    <3>1. Reached(row[v].delAfter) \in Instants /\ PreferReached(row[v].prefer) \in Prefer
      BY <1>reached, <1>prefer DEF Row
    <3> QED BY <3>1 DEF Row
  <2>2. DeadlinesReached(tasks[v]) \in Queues
    BY StatementsKeepType
  <2>3. ASSUME NEW c \in Clients, req[c] # NoRequest
        PROVE  [req[c] EXCEPT !.prefer = PreferReached(req[c].prefer)] \in Request
    BY <2>3, <1>prefer DEF Request
  <2>4. [batch[v] EXCEPT !.due = Reached(batch[v].due)] \in Job \union {NoJob}
    <3>1. CASE batch[v] = NoJob
      BY <3>1 DEF NoJob, Reached
    <3>2. CASE batch[v] \in Job
      BY <3>2, <1>reached DEF Job
    <3> QED BY <3>1, <3>2
  <2>5. row' \in [VMs -> Row] /\ tasks' \in [VMs -> Queues]
    BY <1>1, <2>1, <2>2 DEF DeadlinePasses
  <2>6. req' \in [Clients -> Request \union {NoRequest}]
    BY <1>1, <2>3 DEF DeadlinePasses
  <2>7. batch' \in [VMs -> Job \union {NoJob}]
    BY <1>1, <2>4 DEF DeadlinePasses
  <2> QED BY <1>1, <2>5, <2>6, <2>7 DEF DeadlinePasses
<1> QED BY <1>1 DEF Time

--------------------------------------------------------------------------------
(* The worker's program counter.                                           *)

LEMMA ControlServer ==
  ASSUME TypeOK, Control, Server \/ Time
  PROVE  Control'
<1>1. CASE Server
  <2>1. UNCHANGED <<pve, workerVars>>
    BY <1>1 DEF Server, CreateVM, PauseVMTasks, ResumeVMTasks, SetPaused, Load,
         RequestFails, CommitPatch, CommitPower, CommitDelete, CommitDeleteNow,
         CommitRestore, CommitRetry, Commit
  <2> QED BY <2>1 DEF Control, workerVars
<1>2. ASSUME NEW v \in VMs, DeadlinePasses(v) PROVE Control'
  <2>1. /\ UNCHANGED <<pve, wpc, cur, created>>
        /\ batch' = [batch EXCEPT ![v].due = Reached(batch[v].due)]
    BY <1>2 DEF DeadlinePasses
  <2>2. batch[v] = NoJob => batch'[v] = NoJob
    BY <2>1 DEF NoJob, Reached, TypeOK
  <2>3. batch[v] \in Job => batch'[v].seq = batch[v].seq /\ batch'[v].act = batch[v].act
    BY <2>1 DEF Job, TypeOK
  <2>4. batch[v] # NoJob => batch'[v] # NoJob
    BY <2>3, SeqAssumption DEF NoJob, Job, Seqs, TypeOK
  <2>5. \A u \in VMs : u # v => batch'[u] = batch[u]
    BY <2>1 DEF TypeOK
  <2>6. \A u \in VMs : batch'[u] = NoJob <=> batch[u] = NoJob
    BY <2>2, <2>4, <2>5
  <2>7. cur # NoVM => batch'[cur].act = batch[cur].act
    BY <2>1, <2>2, <2>3, <2>5 DEF TypeOK
  <2>8. wpc = "configure" => cur # NoVM
    BY DEF Control, ExecPcs, WorkerPcs, RoundPcs
  <2> QED BY <2>1, <2>6, <2>7, <2>8 DEF Control, TypeOK
<1> QED BY <1>1, <1>2 DEF Time

LEMMA ControlRound ==
  ASSUME TypeOK, Control, Round
  PROVE  Control'
<1> USE DEF TypeOK, Control, WorkerPcs, RoundPcs, ExecPcs
<1>1. ASSUME NEW S \in SUBSET VMs, Start(S) \/ BeginRound(S) PROVE Control'
  BY <1>1 DEF Start, BeginRound
<1>2. CASE SelectExpired \/ ExpiredQueued
  BY <1>2 DEF SelectExpired, ExpiredQueued, dbVars
<1>3. ASSUME NEW v \in VMs, QueueExpired(v) PROVE Control'
  BY <1>3 DEF QueueExpired
<1>4. CASE CancelSuperseded
  BY <1>4 DEF CancelSuperseded
<1>5. ASSUME NEW late \in SUBSET VMs, PickTasks(late) PROVE Control'
  BY <1>5, Nulls DEF PickTasks
<1>6. ASSUME NEW old, PurgeFinished(old) PROVE Control'
  BY <1>6 DEF PurgeFinished, BatchDone
<1>7. ASSUME NEW S, EndRound(S) PROVE Control'
  BY <1>7 DEF EndRound
<1> QED BY <1>1, <1>2, <1>3, <1>4, <1>5, <1>6, <1>7 DEF Round, StartWorker

LEMMA ControlExecute ==
  ASSUME TypeOK, Control, Execute \/ Faults
  PROVE  Control'
<1> USE Nulls DEF TypeOK, Control, WorkerPcs, RoundPcs, ExecPcs
<1>next. ASSUME NextTask PROVE Control'
  BY <1>next DEF NextTask
<1>1. ASSUME NEW v \in VMs, StartTask(v) PROVE Control'
  BY <1>1 DEF StartTask
<1>2. ASSUME NEW v \in VMs, SkipTask(v) PROVE Control'
  BY <1>2 DEF SkipTask
<1>3. CASE FindVM \/ CloneVM \/ CloneLeftBehind
  BY <1>3 DEF FindVM, CloneVM, CloneLeftBehind, Goto, Executing
<1>4. CASE ConfigureVM \/ ConfigureFails
  BY <1>4 DEF ConfigureVM, ConfigureFails, Goto
<1>5. CASE PowerVM \/ RebootVM \/ TaskErrs \/ DeleteAbsentVM \/ DeferDelete \/ RefuseDelete
  BY <1>5 DEF PowerVM, RebootVM, TaskErrs, DeleteAbsentVM, DeferDelete, RefuseDelete,
       Goto, Executing
<1>6. CASE DestroyVM
  BY <1>6 DEF DestroyVM, Goto, Executing
<1>7. CASE MarkDeleted \/ MarkDeletedFails \/ CancelOutstanding \/ CancelOutstandingFails
  BY <1>7 DEF MarkDeleted, MarkDeletedFails, CancelOutstanding, CancelOutstandingFails, Goto
<1>8. CASE TaskDone \/ VMFailed \/ VMFailedFails
  BY <1>8, <1>next DEF TaskDone, VMFailed, VMFailedFails
<1>9. CASE TaskDoneFails
  BY <1>9 DEF TaskDoneFails, Goto
<1>10. CASE TaskFailed \/ TaskLeftRunning
  <2>1. CASE NextTask
    BY <2>1, <1>next
  <2>2. CASE Goto("exhausted")
    BY <1>10, <2>2 DEF TaskFailed, TaskLeftRunning, Goto
  <2> QED BY <1>10, <2>1, <2>2 DEF TaskFailed, TaskLeftRunning, AfterFailure
<1>11. CASE StartWithoutRecovery \/ RoundFails \/ PurgeFails
  BY <1>11 DEF StartWithoutRecovery, Start, RoundFails, PurgeFails, BatchDone
<1>12. CASE CrashWorker
  BY <1>12 DEF CrashWorker
<1> QED BY <1>1, <1>2, <1>3, <1>4, <1>5, <1>6, <1>7, <1>8, <1>9, <1>10, <1>11, <1>12
        DEF Execute, Faults

LEMMA TypeAndControl ==
  ASSUME TypeOK, Control, [Next]_vars
  PROVE  TypeOK' /\ Control'
<1>1. CASE Next
  BY <1>1, TypeServer, TypeRound, TypeExecute, TypeTime,
     ControlServer, ControlRound, ControlExecute DEF Next
<1>2. CASE UNCHANGED vars
  BY <1>2 DEF vars, TypeOK, Control
<1> QED BY <1>1, <1>2

LEMMA ControlInit == Init => Control
BY Nulls DEF Init, Control, RoundPcs, ExecPcs

\* Every reachable state is of the types declared: rows, tasks, requests and
\* the worker's locals keep their domains whatever handlers, worker, faults
\* and time do.
THEOREM TypeCorrect == Spec => []TypeOK
<1>1. Init => TypeOK /\ Control
  BY TypeInit, ControlInit
<1>2. TypeOK /\ Control /\ [Next]_vars => (TypeOK /\ Control)'
  BY TypeAndControl
<1> QED BY <1>1, <1>2, PTL DEF Spec

--------------------------------------------------------------------------------
(* What a step does to the queue of a VM and to its job of the batch.      *)

Kept(j, k) ==
  /\ k = NoJob <=> j = NoJob
  /\ k.seq = j.seq
  /\ k.act = j.act
  /\ k.due = "none" <=> j.due = "none"

\* A deadline comes with a row that says so.
Dues(v) == IF row'[v].delReq THEN Instants ELSE {"none"}

Followed(v) ==
  /\ Follows(tasks[v], tasks'[v], Dues(v))
  /\ batch'[v] = NoJob \/ (Kept(batch[v], batch'[v]) /\ (cur = v => cur' = v))

Started(v) ==
  /\ cur = NoVM /\ cur' = v
  /\ batch[v] # NoJob /\ batch'[v] = batch[v]
  /\ tasks'[v] = MarkRunning(tasks[v], batch[v].seq)

Failed(v) ==
  /\ cur = v /\ batch[v] # NoJob
  /\ batch'[v] = NoJob \/ (batch'[v] = batch[v] /\ cur' = v)
  /\ tasks'[v] = MarkFailed(tasks[v], batch[v].seq)

Picked(v) ==
  /\ batch[v] = NoJob /\ tasks'[v] = tasks[v]
  /\ \E s \in Pickable(v) : batch'[v] = JobOf(v, s)

Purged(v) ==
  /\ batch[v] = NoJob /\ batch'[v] = NoJob
  /\ tasks'[v] = EmptyQueue \/ \E old : tasks'[v] = Purge(tasks[v], old)

QueueStep(v) == Followed(v) \/ Started(v) \/ Failed(v) \/ Picked(v) \/ Purged(v)

\* What a purge leaves of the rows: each as it was, or no row at all.
LEMMA PurgedRows ==
  ASSUME NEW v \in VMs, Purged(v), NEW s \in Seqs
  PROVE  tasks'[v][s] = tasks[v][s] \/ tasks'[v][s] = NoTask
<1>1. CASE tasks'[v] = EmptyQueue
  BY <1>1 DEF EmptyQueue
<1>2. CASE \E old : tasks'[v] = Purge(tasks[v], old)
  <2>1. PICK old : tasks'[v] = Purge(tasks[v], old)
    BY <1>2
  <2> QED BY <2>1 DEF Purge
<1> QED BY <1>1, <1>2 DEF Purged

LEMMA DuesAny ==
  ASSUME NEW v \in VMs, NEW q, NEW r, Follows(q, r, {"none"})
  PROVE  Follows(q, r, Dues(v))
BY FollowsWider DEF Dues, Instants

LEMMA QueuesServer ==
  ASSUME TypeOK, Server \/ UNCHANGED vars, NEW v \in VMs
  PROVE  Followed(v)
<1>1. UNCHANGED workerVars
  BY DEF Server, CreateVM, PauseVMTasks, ResumeVMTasks, SetPaused, Load,
       RequestFails, CommitPatch, CommitPower, CommitDelete, CommitDeleteNow,
       CommitRestore, CommitRetry, Commit, vars, workerVars
<1> SUFFICES Follows(tasks[v], tasks'[v], Dues(v))
  BY <1>1 DEF Followed, Kept, workerVars
<1> USE DEF TypeOK
<1>same. ASSUME tasks' = tasks PROVE Follows(tasks[v], tasks'[v], Dues(v))
  BY <1>same, FollowsItself
<1>put. ASSUME NEW u \in VMs, NEW q, tasks' = [tasks EXCEPT ![u] = q],
               \/ Follows(tasks[u], q, {"none"})
               \/ Follows(tasks[u], q, Instants) /\ row'[u].delReq
        PROVE  Follows(tasks[v], tasks'[v], Dues(v))
  BY <1>put, FollowsItself, DuesAny DEF Dues
<1>req. ASSUME NEW c \in Clients, req[c].op \in TwoStepOps
        PROVE  req[c].vm \in VMs /\ req[c].seq \in Seqs
  BY <1>req DEF TwoStepOps, NoRequest, Request
<1>commit. ASSUME NEW c \in Clients, req[c].op \in TwoStepOps, NEW r, NEW q, Commit(c, r, q),
                  \/ Follows(tasks[req[c].vm], q, {"none"})
                  \/ Follows(tasks[req[c].vm], q, Instants) /\ r.delReq
           PROVE  Follows(tasks[v], tasks'[v], Dues(v))
  <2>1. /\ req[c].vm \in VMs /\ tasks' = [tasks EXCEPT ![req[c].vm] = q]
        /\ row'[req[c].vm] = r
    BY <1>commit, <1>req DEF Commit
  <2> QED BY <2>1, <1>commit, <1>put
<1>seq. \A n \in 1 .. ClientSeqs : n \in Seqs /\ (n < ClientSeqs => n + 1 \in Seqs)
  BY ClientSeqsAssumption, SeqAssumption DEF Seqs
<1>open. \A u \in VMs : Open(tasks[u]) \subseteq Rows(tasks[u]) /\ Rows(tasks[u]) \subseteq Seqs
  BY DEF Open, Rows
<1>last. ASSUME NEW q \in Queues, NEW n, IsNextSeq(q, n), NEW k
         PROVE  Follows(q, Enqueue(q, n, k, "none"), {"none"})
  BY <1>last, EnqueueFollows DEF IsNextSeq
<1>2. ASSUME NEW u \in VMs, CreateVM(u) PROVE Follows(tasks[v], tasks'[v], Dues(v))
  <2>1. PICK n \in Seqs :
          /\ IsNextSeq(tasks[u], n)
          /\ tasks' = [tasks EXCEPT ![u] = Enqueue(tasks[u], n, "provision", "none")]
    BY <1>2 DEF CreateVM
  <2> QED BY <2>1, <1>put, <1>last
<1>3. ASSUME NEW c \in Clients, CommitPatch(c) PROVE Follows(tasks[v], tasks'[v], Dues(v))
  <2> DEFINE u == req[c].vm
  <2>1. req[c].op \in TwoStepOps /\ u \in VMs
    BY <1>3, <1>req DEF CommitPatch, TwoStepOps
  <2>2. PICK n \in 1 .. ClientSeqs :
          /\ IsNextSeq(tasks[u], n)
          /\ LET q == Enqueue(tasks[u], n, "apply", "none")
                 r == [row[u] EXCEPT !.sync = "pending", !.prefer = req[c].prefer]
             IN \/ Commit(c, r, q)
                \/ n < ClientSeqs /\ Commit(c, r, Enqueue(q, n + 1, "reboot", "none"))
    BY <1>3 DEF CommitPatch
  <2> DEFINE q == Enqueue(tasks[u], n, "apply", "none")
  <2>3. Follows(tasks[u], q, {"none"}) /\ q \in Queues
    BY <2>1, <2>2, <1>last, <1>seq, StatementsKeepType DEF Kinds, Instants
  <2>4. ASSUME n < ClientSeqs PROVE Follows(tasks[u], Enqueue(q, n + 1, "reboot", "none"), {"none"})
    <3>1. \A s \in Rows(q) : s < n + 1
      BY <2>1, <2>2, <1>seq, EnqueueRows DEF IsNextSeq, Seqs, Rows
    <3>2. Follows(q, Enqueue(q, n + 1, "reboot", "none"), {"none"})
      BY <2>3, <2>4, <3>1, <1>seq, EnqueueFollows
    <3> QED BY <2>3, <3>2, FollowsTransitive
  <2> QED BY <2>1, <2>2, <2>3, <2>4, <1>commit
<1>4. ASSUME NEW c \in Clients, CommitPower(c) PROVE Follows(tasks[v], tasks'[v], Dues(v))
  <2>1. req[c].op \in TwoStepOps /\ req[c].vm \in VMs
    BY <1>4, <1>req DEF CommitPower, TwoStepOps
  <2> QED BY <1>4, <2>1, <1>commit, <1>last DEF CommitPower
<1>cancel. ASSUME NEW u \in VMs, NEW n, NEW q, NEW k, NEW D, NEW d \in D, "none" \in D,
                  IsNextSeq(tasks[u], n),
                  \/ q = CancelOpen(tasks[u])
                  \/ q = CancelUndated(tasks[u], RestoreCancels(tasks[u]))
           PROVE  Follows(tasks[u], Enqueue(q, n, k, d), D)
  <2>1. RestoreCancels(tasks[u]) \subseteq Rows(tasks[u])
    BY DEF RestoreCancels, OpenDeletes, Open
  <2> DEFINE S == RestoreCancels(tasks[u])
  <2>2. Rows(q) = Rows(tasks[u]) /\ q \in Queues
    BY <1>cancel, <2>1, <1>open, CancelKeepsRows, StatementsKeepType DEF CancelOpen
  <2>4. Follows(tasks[u], q, {"none"})
    <3>1. CASE q = CancelOpen(tasks[u])
      BY <3>1, <1>open, StatementsFollow DEF CancelOpen
    <3>2. CASE q = CancelUndated(tasks[u], S)
      BY <3>2, <2>1, <1>open, StatementsFollow
    <3> QED BY <1>cancel, <3>1, <3>2
  <2>3. Follows(q, Enqueue(q, n, k, d), D)
    BY <1>cancel, <2>2, EnqueueFollows DEF IsNextSeq
  <2>5. {"none"} \subseteq {"none"} \intersect D
    BY <1>cancel
  <2> QED BY <2>3, <2>4, <2>5, FollowsTransitive
<1>5. ASSUME NEW c \in Clients, CommitDelete(c) PROVE Follows(tasks[v], tasks'[v], Dues(v))
  <2> DEFINE u == req[c].vm
             r == [row[u] EXCEPT !.sync = "deleting", !.delReq = TRUE,
                                 !.delAfter = "future",
                                 !.prefer = [intent |-> "delete_pending", after |-> "future"]]
  <2>1. req[c].op \in TwoStepOps /\ u \in VMs
    BY <1>5, <1>req DEF CommitDelete, TwoStepOps
  <2>2. r.delReq
    BY <2>1 DEF Row
  <2>3. \A n \in 1 .. ClientSeqs : IsNextSeq(tasks[u], n) =>
          Follows(tasks[u], Enqueue(CancelOpen(tasks[u]), n, "delete", "future"), Instants)
    BY <2>1, <1>cancel DEF Instants
  <2> QED BY <1>5, <2>1, <2>2, <2>3, <1>commit DEF CommitDelete
<1>6. ASSUME NEW c \in Clients, CommitDeleteNow(c) PROVE Follows(tasks[v], tasks'[v], Dues(v))
  <2>1. req[c].op \in TwoStepOps /\ req[c].vm \in VMs
    BY <1>6, <1>req DEF CommitDeleteNow, TwoStepOps
  <2> QED BY <1>6, <2>1, <1>commit, <1>cancel DEF CommitDeleteNow
<1>7. ASSUME NEW c \in Clients, CommitRestore(c) PROVE Follows(tasks[v], tasks'[v], Dues(v))
  <2>1. req[c].op \in TwoStepOps /\ req[c].vm \in VMs
    BY <1>7, <1>req DEF CommitRestore, TwoStepOps
  <2> QED BY <1>7, <2>1, <1>commit, <1>cancel DEF CommitRestore
<1>8. ASSUME NEW c \in Clients, CommitRetry(c) PROVE Follows(tasks[v], tasks'[v], Dues(v))
  <2> DEFINE u == req[c].vm
             s == req[c].seq
             q == IF tasks[u][s].status = "failed" THEN Requeue(tasks[u], {s}) ELSE tasks[u]
  <2>1. req[c].op \in TwoStepOps /\ u \in VMs /\ s \in Seqs
    BY <1>8, <1>req DEF CommitRetry, TwoStepOps
  <2>2. tasks[u][s].status = "failed" => s \in Open(tasks[u])
    BY <2>1 DEF Open, Rows
  <2>3. Follows(tasks[u], q, {"none"})
    BY <2>1, <2>2, StatementsFollow, FollowsItself
  <2> QED BY <1>8, <2>1, <2>3, <1>commit DEF CommitRetry
<1>9. ASSUME NEW u \in VMs, PauseVMTasks(u) \/ ResumeVMTasks(u) PROVE Follows(tasks[v], tasks'[v], Dues(v))
  BY <1>9, <1>same DEF PauseVMTasks, ResumeVMTasks, SetPaused
<1>10. ASSUME NEW c \in Clients, NEW op, NEW u, NEW s, Load(c, op, u, s) \/ RequestFails(c)
       PROVE  Follows(tasks[v], tasks'[v], Dues(v))
  BY <1>10, <1>same DEF Load, RequestFails, dbVars
<1>11. CASE UNCHANGED vars
  BY <1>11, <1>same DEF vars
<1> QED BY <1>2, <1>3, <1>4, <1>5, <1>6, <1>7, <1>8, <1>9, <1>10, <1>11 DEF Server

LEMMA QueuesRound ==
  ASSUME TypeOK, Control, Round, NEW v \in VMs
  PROVE  QueueStep(v)
<1> USE DEF TypeOK
<1>follow. ASSUME Follows(tasks[v], tasks'[v], {"none"}), batch' = batch, cur' = cur
           PROVE  QueueStep(v)
  BY <1>follow, DuesAny DEF QueueStep, Followed, Kept
<1>requeue. ASSUME NEW S \in SUBSET VMs, RequeueRunning(S)
            PROVE  Follows(tasks[v], tasks'[v], {"none"})
  <2>1. Running(tasks[v]) \subseteq Open(tasks[v])
    BY DEF Running, Open
  <2>2. Follows(tasks[v], Requeue(tasks[v], Running(tasks[v])), {"none"})
    BY <2>1, StatementsFollow
  <2> QED BY <1>requeue, <2>2, FollowsItself DEF RequeueRunning
<1>1. ASSUME NEW S \in SUBSET VMs, Start(S) \/ BeginRound(S) PROVE QueueStep(v)
  BY <1>1, <1>requeue, <1>follow DEF Start, BeginRound
<1>2. CASE SelectExpired \/ ExpiredQueued
  BY <1>2, <1>follow, FollowsItself DEF SelectExpired, ExpiredQueued, dbVars
<1>3. ASSUME NEW u \in VMs, QueueExpired(u) PROVE QueueStep(v)
  <2>1. PICK n \in Seqs :
          /\ IsNextSeq(tasks[u], n)
          /\ tasks' = [tasks EXCEPT ![u] = Enqueue(tasks[u], n, "delete", "none")]
    BY <1>3 DEF QueueExpired
  <2>2. Follows(tasks[u], Enqueue(tasks[u], n, "delete", "none"), {"none"})
    BY <2>1, EnqueueFollows DEF IsNextSeq
  <2>3. Follows(tasks[v], tasks'[v], {"none"})
    BY <2>1, <2>2, FollowsItself
  <2> QED BY <1>3, <2>3, <1>follow DEF QueueExpired
<1>4. CASE CancelSuperseded
  <2>1. Follows(tasks[v], CancelDated(tasks[v], Superseded(v)), {"none"})
    BY StatementsFollow DEF Superseded, Open, Rows
  <2> QED BY <1>4, <2>1, <1>follow DEF CancelSuperseded
<1>5. ASSUME NEW late \in SUBSET VMs, PickTasks(late) PROVE QueueStep(v)
  <2>1. batch[v] = NoJob /\ tasks' = tasks
    BY <1>5 DEF PickTasks, Control, RoundPcs, dbVars
  <2>2. CASE \E s \in Pickable(v) : tasks[v][s].status = "pending" \/ v \notin late
    <3>1. (CHOOSE s \in Pickable(v) : TRUE) \in Pickable(v)
      BY <2>2
    <3> QED BY <1>5, <2>1, <2>2, <3>1 DEF PickTasks, QueueStep, Picked
  <2>3. CASE ~\E s \in Pickable(v) : tasks[v][s].status = "pending" \/ v \notin late
    <3>1. batch'[v] = NoJob
      BY <1>5, <2>3 DEF PickTasks
    <3> QED BY <2>1, <3>1, FollowsItself DEF QueueStep, Followed
  <2> QED BY <2>2, <2>3
<1>6. ASSUME NEW old, PurgeFinished(old) PROVE QueueStep(v)
  BY <1>6 DEF PurgeFinished, BatchDone, QueueStep, Purged
<1>7. ASSUME NEW S, EndRound(S) PROVE QueueStep(v)
  <2>1. batch[v] = NoJob /\ batch' = batch
    BY <1>7 DEF EndRound, Control, RoundPcs
  <2>2. CASE tasks'[v] = tasks[v]
    BY <1>7, <2>2, FollowsItself, <1>follow DEF EndRound
  <2>3. CASE tasks'[v] = EmptyQueue
    BY <2>1, <2>3 DEF QueueStep, Purged
  <2> QED BY <1>7, <2>2, <2>3 DEF EndRound
<1> QED BY <1>1, <1>2, <1>3, <1>4, <1>5, <1>6, <1>7 DEF Round, StartWorker

LEMMA QueuesExecute ==
  ASSUME TypeOK, Control, Execute \/ Faults, NEW v \in VMs
  PROVE  QueueStep(v)
<1> USE DEF TypeOK
<1>same. ASSUME tasks' = tasks, batch' = batch, cur' = cur PROVE QueueStep(v)
  BY <1>same, FollowsItself DEF QueueStep, Followed, Kept
<1>goto. ASSUME NEW pc, Goto(pc), tasks' = tasks PROVE QueueStep(v)
  BY <1>goto, <1>same DEF Goto
<1>exec. ASSUME wpc \in ExecPcs PROVE cur \in VMs /\ batch[cur] # NoJob /\ batch[cur].seq \in Seqs
  BY <1>exec, Executed
<1>pcs. {"cancel", "done", "failed", "exhausted"} \subseteq ExecPcs
  BY DEF ExecPcs, WorkerPcs, RoundPcs
<1>next. ASSUME wpc \in ExecPcs, NextTask, Follows(tasks[v], tasks'[v], {"none"}) PROVE QueueStep(v)
  BY <1>next, <1>exec, DuesAny DEF NextTask, QueueStep, Followed, Kept
<1>1. ASSUME NEW u \in VMs, StartTask(u) PROVE QueueStep(v)
  <2>1. cur = NoVM /\ batch' = batch /\ cur' = u
    BY <1>1 DEF StartTask, Control, ExecPcs, RoundPcs
  <2>2. CASE u = v
    BY <1>1, <2>1, <2>2 DEF StartTask, QueueStep, Started
  <2>3. CASE u # v
    <3>1. tasks'[v] = tasks[v]
      BY <1>1, <2>3 DEF StartTask
    <3> QED BY <2>1, <3>1, FollowsItself, Nulls DEF QueueStep, Followed, Kept
  <2> QED BY <2>2, <2>3
<1>2. ASSUME NEW u \in VMs, SkipTask(u) PROVE QueueStep(v)
  <2>1. tasks' = tasks /\ cur' = cur /\ (batch'[v] = NoJob \/ batch'[v] = batch[v])
    BY <1>2 DEF SkipTask, dbVars
  <2> QED BY <2>1, FollowsItself DEF QueueStep, Followed, Kept
<1>3. CASE \/ FindVM \/ CloneVM \/ ConfigureVM \/ PowerVM \/ RebootVM
           \/ DeleteAbsentVM \/ DeferDelete \/ RefuseDelete \/ DestroyVM \/ MarkDeleted
  BY <1>3, <1>goto DEF FindVM, CloneVM, ConfigureVM, PowerVM, RebootVM, DeleteAbsentVM,
       DeferDelete, RefuseDelete, DestroyVM, MarkDeleted, dbVars
<1>4. CASE \/ CloneLeftBehind \/ ConfigureFails \/ TaskErrs
           \/ MarkDeletedFails \/ CancelOutstandingFails \/ TaskDoneFails
  BY <1>4, <1>goto DEF CloneLeftBehind, ConfigureFails, TaskErrs, MarkDeletedFails,
       CancelOutstandingFails, TaskDoneFails, dbVars
<1>5. CASE CancelOutstanding
  <2>1. Follows(tasks[cur], CancelUndated(tasks[cur], Open(tasks[cur])), {"none"})
    BY <1>5, <1>exec, <1>pcs, StatementsFollow DEF CancelOutstanding, Open, Rows
  <2>2. Follows(tasks[v], tasks'[v], {"none"})
    BY <1>5, <2>1, FollowsItself DEF CancelOutstanding
  <2> QED BY <1>5, <2>2, DuesAny DEF CancelOutstanding, Goto, QueueStep, Followed, Kept
<1>6. CASE TaskDone
  <2>1. Follows(tasks[cur], MarkDone(tasks[cur], batch[cur].seq), {"none"})
    BY <1>6, <1>exec, <1>pcs, StatementsFollow DEF TaskDone
  <2>2. Follows(tasks[v], tasks'[v], {"none"})
    BY <1>6, <2>1, FollowsItself DEF TaskDone
  <2> QED BY <1>6, <2>2, <1>next, <1>pcs DEF TaskDone
<1>7. CASE TaskFailed
  <2>1. wpc = "failed" /\ wpc \in ExecPcs
    BY <1>7, <1>pcs DEF TaskFailed
  <2>2. NextTask \/ Goto("exhausted")
    BY <1>7 DEF TaskFailed, AfterFailure
  <2>3. CASE cur = v
    <3>1. tasks'[v] = MarkFailed(tasks[v], batch[v].seq)
      BY <1>7, <2>3 DEF TaskFailed
    <3>2. batch'[v] = NoJob \/ (batch'[v] = batch[v] /\ cur' = v)
      BY <2>2, <2>3 DEF NextTask, Goto
    <3> QED BY <2>1, <2>3, <3>1, <3>2, <1>exec DEF QueueStep, Failed
  <2>4. CASE cur # v
    <3>1. tasks'[v] = tasks[v]
      BY <1>7, <2>4 DEF TaskFailed
    <3>2. batch'[v] = batch[v]
      BY <2>1, <2>2, <2>4, <1>exec DEF NextTask, Goto
    <3> QED BY <2>4, <3>1, <3>2, FollowsItself DEF QueueStep, Followed, Kept
  <2> QED BY <2>3, <2>4
<1>8. CASE TaskLeftRunning
  BY <1>8, <1>next, <1>goto, <1>pcs, FollowsItself DEF TaskLeftRunning, AfterFailure, dbVars
<1>9. CASE VMFailed \/ VMFailedFails
  BY <1>9, <1>next, <1>pcs, FollowsItself DEF VMFailed, VMFailedFails, dbVars
<1>10. CASE StartWithoutRecovery
  BY <1>10, <1>same DEF StartWithoutRecovery, Start, RequeueRunning
<1>11. CASE RoundFails \/ PurgeFails
  BY <1>11, <1>same DEF RoundFails, PurgeFails, dbVars
<1>12. CASE CrashWorker
  <2>1. tasks' = tasks /\ batch'[v] = NoJob
    BY <1>12 DEF CrashWorker, dbVars
  <2> QED BY <2>1, FollowsItself DEF QueueStep, Followed
<1> QED BY <1>1, <1>2, <1>3, <1>4, <1>5, <1>6, <1>7, <1>8, <1>9, <1>10, <1>11, <1>12
        DEF Execute, Faults

LEMMA QueuesTime ==
  ASSUME TypeOK, Time, NEW v \in VMs
  PROVE  Followed(v)
<1> USE DEF TypeOK
<1>1. ASSUME NEW u \in VMs, DeadlinePasses(u) PROVE Followed(v)
  <2>1. Follows(tasks[u], DeadlinesReached(tasks[u]), {"none"})
    BY StatementsFollow
  <2>2. Follows(tasks[v], tasks'[v], {"none"})
    BY <1>1, <2>1, FollowsItself DEF DeadlinePasses
  <2>3. batch'[v] = batch[v] \/ batch'[v] = [batch[v] EXCEPT !.due = Reached(batch[v].due)]
    BY <1>1 DEF DeadlinePasses
  <2>4. Kept(batch[v], batch'[v])
    <3>1. CASE batch[v] = NoJob
      BY <2>3, <3>1 DEF NoJob, Reached, Kept
    <3>2. CASE batch[v] \in Job
      BY <2>3, <3>2, SeqAssumption DEF NoJob, Job, Seqs, Reached, Kept
    <3> QED BY <3>1, <3>2
  <2> QED BY <1>1, <2>2, <2>4, DuesAny DEF Followed, DeadlinePasses
<1> QED BY <1>1 DEF Time

LEMMA QueueSteps ==
  ASSUME TypeOK, Control, [Next]_vars, NEW v \in VMs
  PROVE  QueueStep(v)
BY QueuesServer, QueuesRound, QueuesExecute, QueuesTime DEF Next, QueueStep

--------------------------------------------------------------------------------
(* The order of tasks.                                                     *)

\* What MarkRunning and MarkFailed make of the rows.
LEMMA Marked ==
  ASSUME NEW q \in Queues, NEW s \in Rows(q), NEW r,
         r = MarkRunning(q, s) \/ r = MarkFailed(q, s)
  PROVE  /\ Rows(r) = Rows(q)
         /\ Open(r) = Open(q) \union {s}
         /\ Tried(r) = Tried(q) \union {s}
         /\ \A t \in Seqs : t # s => r[t] = q[t]
         /\ r[s].kind = q[s].kind /\ r[s].due = q[s].due
         /\ r[s].status # "absent"
<1>1. s \in Seqs
  BY DEF Rows
<1>2. /\ \A t \in Seqs : t # s => r[t] = q[t]
      /\ r[s].kind = q[s].kind /\ r[s].due = q[s].due
      /\ r[s].status \in {"running", "failed"}
  BY <1>1 DEF MarkRunning, MarkFailed, Queues, Task
<1> QED BY <1>1, <1>2 DEF Rows, Open, Tried

LEMMA OrderFollowed ==
  ASSUME NEW q, NEW r, NEW D, NEW j, NEW k,
         Follows(q, r, D), Kept(j, k), InOrder(q, j), Fits(q, j)
  PROVE  InOrder(r, k) /\ Fits(r, k) /\ (Budget(q, j) => Budget(r, k))
<1>1. ASSUME NEW s \in Rows(q), IsHead(q, s) PROVE IsHead(r, s)
  <2>1. \A t \in Open(r) : t \in Open(q) \/ s < t
    BY <1>1 DEF Follows
  <2> QED BY <1>1, <2>1 DEF IsHead, Open, Rows, Seqs
<1>2. \A s \in Tried(r) : s \in Tried(q) /\ s \in Rows(q)
  BY DEF Follows, Tried
<1>3. InOrder(r, k)
  BY <1>1, <1>2 DEF InOrder, Kept, Follows
<1>4. Fits(r, k)
  BY DEF Fits, Follows, Kept, InOrder
<1>5. Budget(q, j) => Budget(r, k)
  BY DEF Budget, Follows, Kept, InOrder, Tried
<1> QED BY <1>3, <1>4, <1>5

LEMMA OrderNoJob ==
  ASSUME NEW q, NEW r, NEW D, NEW j, Follows(q, r, D), InOrder(q, j)
  PROVE  InOrder(r, NoJob) /\ Fits(r, NoJob) /\ Budget(r, NoJob)
<1>1. InOrder(q, NoJob) /\ Fits(q, NoJob) /\ Budget(r, NoJob)
  BY DEF InOrder, Fits, Budget
<1>2. Kept(NoJob, NoJob)
  BY DEF Kept
<1> QED BY <1>1, <1>2, OrderFollowed

LEMMA OrderKept ==
  ASSUME TypeOK, NEW v \in VMs, QueueStep(v),
         InOrder(tasks[v], batch[v]), Fits(tasks[v], batch[v]),
         v # cur => Budget(tasks[v], batch[v])
  PROVE  /\ InOrder(tasks[v], batch[v])' /\ Fits(tasks[v], batch[v])'
         /\ v # cur' => Budget(tasks[v], batch[v])'
<1> DEFINE q == tasks[v]
           j == batch[v]
           s == batch[v].seq
<1>0. q \in Queues
  BY DEF TypeOK
<1>1. CASE Followed(v)
  <2>1. CASE batch'[v] = NoJob
    BY <1>1, <2>1, OrderNoJob DEF Followed
  <2>2. CASE batch'[v] # NoJob
    BY <1>1, <2>2, OrderFollowed DEF Followed
  <2> QED BY <2>1, <2>2
<1>2. CASE Started(v) \/ Failed(v)
  <2>1. j # NoJob /\ s \in Rows(q) /\ IsHead(q, s) /\ Tried(q) \subseteq {s}
    BY <1>2 DEF Started, Failed, InOrder
  <2>2. /\ Rows(tasks'[v]) = Rows(q)
        /\ Open(tasks'[v]) = Open(q) \union {s}
        /\ Tried(tasks'[v]) = Tried(q) \union {s}
        /\ tasks'[v][s].kind = q[s].kind /\ tasks'[v][s].due = q[s].due
    BY <1>0, <1>2, <2>1, Marked DEF Started, Failed
  <2>3. IsHead(tasks'[v], s)
    BY <2>1, <2>2 DEF IsHead, Rows, Seqs
  <2>4. InOrder(tasks[v], batch[v])'
    BY <1>2, <2>1, <2>2, <2>3 DEF InOrder, Started, Failed
  <2>5. Fits(tasks[v], batch[v])'
    BY <1>2, <2>1, <2>2 DEF Fits, Started, Failed
  <2>6. v # cur' => Budget(tasks[v], batch[v])'
    BY <1>2 DEF Budget, Started, Failed
  <2> QED BY <2>4, <2>5, <2>6
<1>3. CASE Picked(v)
  <2>1. PICK p \in Eligible(q) : batch'[v] = JobOf(v, p)
    BY <1>3 DEF Picked, Pickable
  <2>2. p \in Rows(q) /\ IsHead(q, p) /\ p \in Open(q) /\ q[p].status # "running"
    BY <2>1 DEF Eligible, Retryable, Open
  <2>3. \A t \in Tried(q) : t = p
    <3>1. \A t \in Tried(q) : t \in Open(q) /\ IsHead(q, t)
      BY DEF InOrder, Tried, Open
    <3> QED BY <2>2, <3>1 DEF IsHead, Open, Rows, Seqs
  <2>4. batch'[v].seq = p
    BY <2>1 DEF JobOf
  <2>5. tasks'[v] = q
    BY <1>3 DEF Picked
  <2>6. InOrder(tasks[v], batch[v])'
    BY <2>2, <2>3, <2>4, <2>5 DEF InOrder
  <2>7. Fits(tasks[v], batch[v])'
    BY <2>1, <2>4, <2>5 DEF Fits, JobOf
  <2>8. Budget(tasks[v], batch[v])'
    BY <2>1, <2>4, <2>5, RetryAssumption DEF Budget, Eligible, Retryable
  <2> QED BY <2>6, <2>7, <2>8
<1>4. CASE Purged(v)
  <2>1. /\ Open(tasks'[v]) \subseteq Open(q)
        /\ Tried(tasks'[v]) \subseteq Tried(q)
    BY <1>0, <1>4, PurgedRows DEF NoTask, Open, Tried, Rows
  <2>2. InOrder(tasks[v], batch[v])'
    BY <1>4, <2>1 DEF InOrder, IsHead, Purged
  <2> QED BY <1>4, <2>2 DEF Fits, Budget, Purged
<1> QED BY <1>1, <1>2, <1>3, <1>4 DEF QueueStep

--------------------------------------------------------------------------------
(* What a step does to a row and to the VM on the cluster.                 *)

Dead(r) == r.life = "deleted"

Late == {"cancel", "done", "failed", "exhausted"}

Restored(v) ==
  /\ row'[v].delAfter = "none" /\ row'[v].prefer = PreferPresent
  /\ row'[v].sync = "pending"
  /\ UNCHANGED workerVars
  /\ \A s \in Open(tasks'[v]) : Dated(tasks'[v][s]) => s \in Tried(tasks[v])

CleanStep(v) ==
  \/ row'[v].delReq
  \/ /\ ~row[v].delReq
     /\ row[v].delAfter = "none" => row'[v].delAfter = "none"
     /\ row[v].prefer = PreferPresent => row'[v].prefer = PreferPresent
  \/ Restored(v)

GoneStep(v) ==
  Dead(row'[v]) => \/ /\ Dead(row[v])
                      /\ \/ pve'[v] \in {pve[v], "absent"}
                         \/ cur = v /\ wpc = "run"
                   \/ cur = v /\ cur' = v /\ wpc' \in Late /\ pve'[v] = "absent"

LateStays(v) ==
  cur = v /\ wpc \in Late => batch'[v] = NoJob \/ (cur' = v /\ wpc' \in Late)

\* A synced VM was synced before, and lost only by a deletion that is due
\* or by a rollback ...
StaysSettled(v) ==
  /\ IsSettled(row[v])
  /\ \/ pve'[v] \in {pve[v], "present"}
     \/ cur = v /\ wpc = "run" /\ batch[v].act = "delete" /\ batch[v].due = "past"
     \/ cur = v /\ wpc = "configure" /\ created
  /\ cur' = v /\ wpc' = "configure" /\ created'
       => (cur = v /\ wpc = "configure" /\ created) \/ pve[v] = "absent"

\* ... or has just been found to be there.
GetsSettled(v) ==
  /\ cur = v /\ cur' = v /\ wpc' = "done"
  /\ pve'[v] = "present" /\ tasks'[v] = tasks[v]
  /\ batch'[v] = batch[v] /\ batch[v] # NoJob /\ batch[v].act # "delete"

SettleStep(v) == IsSettled(row'[v]) => StaysSettled(v) \/ GetsSettled(v)

BornStep(v) ==
  /\ row'[v].life = "none" => row[v].life = "none"
  /\ \/ row'[v].delReq = row[v].delReq
     \/ row'[v].life # "none"

RowStep(v) ==
  CleanStep(v) /\ GoneStep(v) /\ LateStays(v) /\ SettleStep(v) /\ BornStep(v)

LEMMA RowsSame ==
  ASSUME NEW v, row'[v] = row[v], pve'[v] = pve[v], UNCHANGED workerVars
  PROVE  RowStep(v)
BY DEF RowStep, CleanStep, GoneStep, LateStays, SettleStep, StaysSettled, BornStep, workerVars

LEMMA RowsServer ==
  ASSUME TypeOK, Requests, Server \/ UNCHANGED vars, NEW v \in VMs, Unborn(v)
  PROVE  RowStep(v)
<1>0. UNCHANGED <<pve, workerVars>>
  <2>1. CASE Server
    BY <2>1 DEF Server, CreateVM, PauseVMTasks, ResumeVMTasks, SetPaused, Load,
         RequestFails, CommitPatch, CommitPower, CommitDelete, CommitDeleteNow,
         CommitRestore, CommitRetry, Commit
  <2>2. CASE UNCHANGED vars
    BY <2>2 DEF vars, workerVars
  <2> QED BY <2>1, <2>2
<1> USE DEF TypeOK
<1>same. ASSUME row'[v] = row[v] PROVE RowStep(v)
  BY <1>0, <1>same, RowsSame
\* A row that is alive as before and not synced, with its deletion in order.
<1>put. ASSUME \/ row'[v].life = "live" /\ row[v].life = "none"
               \/ row'[v].life = row[v].life /\ row[v].life # "none",
               row'[v].sync # "synced", CleanStep(v)
        PROVE  RowStep(v)
  BY <1>0, <1>put DEF RowStep, GoneStep, Dead, LateStays, SettleStep, IsSettled,
       BornStep, workerVars
<1>1. ASSUME NEW u \in VMs, CreateVM(u) PROVE RowStep(v)
  <2>1. CASE u = v
    <3>1. row'[v] = [NoRow EXCEPT !.life = "live"]
      BY <1>1, <2>1 DEF CreateVM
    <3>2. /\ row'[v].life = "live" /\ row'[v].sync = "pending"
          /\ row'[v].delAfter = "none" /\ row'[v].prefer = PreferPresent
      BY <3>1 DEF NoRow
    <3>3. row[v].life = "none" /\ ~row[v].delReq
      BY <1>1, <2>1 DEF CreateVM, Unborn
    <3>4. CleanStep(v)
      BY <3>2, <3>3 DEF CleanStep
    <3> QED BY <3>2, <3>3, <3>4, <1>put
  <2>2. CASE u # v
    BY <1>1, <2>2, <1>same DEF CreateVM
  <2> QED BY <2>1, <2>2
<1>2. ASSUME NEW u \in VMs, NEW p \in BOOLEAN, SetPaused(u, p) PROVE RowStep(v)
  <2>1. CASE u = v
    <3>1. row'[v] = [row[v] EXCEPT !.paused = p]
      BY <1>2, <2>1 DEF SetPaused
    <3>2. /\ row'[v].life = row[v].life /\ row'[v].sync = row[v].sync
          /\ row'[v].delReq = row[v].delReq
          /\ row'[v].delAfter = row[v].delAfter /\ row'[v].prefer = row[v].prefer
      BY <3>1 DEF Row
    <3> QED BY <1>0, <3>2 DEF RowStep, CleanStep, GoneStep, Dead, LateStays,
              SettleStep, StaysSettled, IsSettled, BornStep, workerVars
  <2>2. CASE u # v
    BY <1>2, <2>2, <1>same DEF SetPaused
  <2> QED BY <2>1, <2>2
<1>3. ASSUME NEW c \in Clients, NEW op, NEW u, NEW s, Load(c, op, u, s) \/ RequestFails(c)
      PROVE  RowStep(v)
  BY <1>3, <1>same DEF Load, RequestFails, dbVars
<1>req. ASSUME NEW c \in Clients, req[c].op \in TwoStepOps
        PROVE  /\ req[c] # NoRequest /\ req[c].vm \in VMs /\ req[c].seq \in Seqs
               /\ row[req[c].vm].life # "none" /\ req[c].prefer = PreferPresent
  BY <1>req DEF TwoStepOps, NoRequest, Request, Requests, Found
<1>commit. ASSUME NEW c \in Clients, req[c].op \in TwoStepOps, NEW r, NEW q, Commit(c, r, q),
                  r.life = row[req[c].vm].life, r.sync # "synced",
                  req[c].vm = v => CleanStep(v)
           PROVE  RowStep(v)
  <2>1. CASE req[c].vm = v
    <3>1. row'[v] = r
      BY <1>commit, <2>1 DEF Commit
    <3> QED BY <1>commit, <2>1, <3>1, <1>req, <1>put
  <2>2. CASE req[c].vm # v
    BY <1>commit, <2>2, <1>req, <1>same DEF Commit
  <2> QED BY <2>1, <2>2
<1>4. ASSUME NEW c \in Clients, CommitPatch(c) \/ CommitPower(c) PROVE RowStep(v)
  <2> DEFINE u == req[c].vm
             r == [row[u] EXCEPT !.sync = "pending", !.prefer = req[c].prefer]
  <2>1. req[c].op \in TwoStepOps /\ \E q : Commit(c, r, q)
    BY <1>4 DEF CommitPatch, CommitPower, TwoStepOps
  <2>2. /\ r.life = row[u].life /\ r.sync = "pending" /\ r.delReq = row[u].delReq
        /\ r.delAfter = row[u].delAfter /\ r.prefer = PreferPresent
    BY <2>1, <1>req DEF Row
  <2>3. u = v => row'[v] = r
    BY <2>1 DEF Commit
  <2>4. u = v => CleanStep(v)
    BY <2>2, <2>3 DEF CleanStep
  <2> QED BY <2>1, <2>2, <2>4, <1>commit
<1>5. ASSUME NEW c \in Clients, CommitDelete(c) \/ CommitDeleteNow(c) PROVE RowStep(v)
  <2> DEFINE u == req[c].vm
             r(d) == [row[u] EXCEPT !.sync = "deleting", !.delReq = TRUE, !.delAfter = d,
                        !.prefer = [intent |-> "delete_pending", after |-> d]]
  <2>1. req[c].op \in TwoStepOps /\ \E q, d : Commit(c, r(d), q)
    BY <1>5 DEF CommitDelete, CommitDeleteNow, TwoStepOps
  <2>2. PICK d : \E q : Commit(c, r(d), q)
    BY <2>1
  <2>3. r(d).life = row[u].life /\ r(d).sync = "deleting" /\ r(d).delReq
    BY <2>1, <1>req DEF Row
  <2>4. u = v => CleanStep(v)
    BY <2>2, <2>3 DEF CleanStep, Commit
  <2> QED BY <2>1, <2>2, <2>3, <2>4, <1>commit
<1>6. ASSUME NEW c \in Clients, CommitRestore(c) PROVE RowStep(v)
  <2> DEFINE u == req[c].vm
             r == [row[u] EXCEPT !.sync = "pending", !.delReq = FALSE,
                                 !.delAfter = "none", !.prefer = PreferPresent]
             q == CancelUndated(tasks[u], RestoreCancels(tasks[u]))
  <2>1. req[c].op \in TwoStepOps /\ u \in VMs
    BY <1>6, <1>req DEF CommitRestore, TwoStepOps
  <2>2. PICK n \in 1 .. ClientSeqs : Commit(c, r, Enqueue(q, n, "apply", "none"))
    BY <1>6 DEF CommitRestore
  <2>3. /\ r.life = row[u].life /\ r.sync = "pending"
        /\ r.delAfter = "none" /\ r.prefer = PreferPresent
    BY <2>1 DEF Row
  <2>4. ASSUME u = v PROVE CleanStep(v)
    <3>1. row'[v] = r /\ tasks'[v] = Enqueue(q, n, "apply", "none")
      BY <2>2, <2>4 DEF Commit
    <3>2. ASSUME NEW s \in Open(tasks'[v]), Dated(tasks'[v][s]) PROVE s \in Tried(tasks[v])
      <4>1. q \in Queues /\ n \in Seqs
        <5>1. RestoreCancels(tasks[u]) \subseteq Seqs
          BY DEF RestoreCancels, OpenDeletes, Open, Rows
        <5>2. n \in Seqs
          BY ClientSeqsAssumption, SeqAssumption DEF Seqs
        <5> QED BY <2>1, <5>1, <5>2, StatementsKeepType
      <4>2. s # n
        BY <3>1, <3>2, <4>1 DEF Enqueue, Queues, Dated
      <4>3. s \in Open(q) /\ Dated(q[s])
        BY <3>1, <3>2, <4>1, <4>2 DEF Enqueue, Queues, Open, Rows
      <4>4. s \in Seqs /\ s \notin RestoreCancels(tasks[v])
        BY <2>1, <2>4, <4>3 DEF Open, Rows, CancelUndated, Queues, Task
      <4>5. q[s] = tasks[v][s]
        BY <2>4, <4>4 DEF CancelUndated
      <4>6. /\ tasks[v][s].status \notin {"absent", "done", "canceled"}
            /\ tasks[v][s].kind = "delete"
        BY <4>3, <4>5 DEF Open, Rows, Dated
      <4>7. tasks[v][s].status \notin {"pending", "running"}
        BY <4>4, <4>6 DEF RestoreCancels, OpenDeletes, Open, Rows
      <4>8. tasks[v][s].status \in Statuses
        BY <4>4 DEF Queues, Task
      <4> QED BY <4>4, <4>6, <4>7, <4>8 DEF Tried, Rows, Statuses
    <3> QED BY <1>0, <2>3, <3>1, <3>2 DEF CleanStep, Restored
  <2> QED BY <2>1, <2>2, <2>3, <2>4, <1>commit
<1>7. ASSUME NEW c \in Clients, CommitRetry(c) PROVE RowStep(v)
  <2> DEFINE u == req[c].vm
             r == [row[u] EXCEPT !.sync = IF row[u].delReq THEN "deleting" ELSE "pending"]
  <2>1. req[c].op \in TwoStepOps /\ \E q : Commit(c, r, q)
    BY <1>7 DEF CommitRetry, TwoStepOps
  <2>2. /\ r.life = row[u].life /\ r.sync # "synced" /\ r.delReq = row[u].delReq
        /\ r.delAfter = row[u].delAfter /\ r.prefer = row[u].prefer
    BY <2>1, <1>req DEF Row
  <2>3. u = v => CleanStep(v)
    BY <2>1, <2>2 DEF CleanStep, Commit
  <2> QED BY <2>1, <2>2, <2>3, <1>commit
<1>8. CASE UNCHANGED vars
  BY <1>8, <1>same DEF vars
<1> QED BY <1>1, <1>2, <1>3, <1>4, <1>5, <1>6, <1>7, <1>8
        DEF Server, PauseVMTasks, ResumeVMTasks

LEMMA RowsRound ==
  ASSUME TypeOK, Control, Round, NEW v \in VMs
  PROVE  RowStep(v)
<1>1. row' = row /\ pve' = pve /\ created' = created /\ cur' = cur
  BY DEF Round, StartWorker, Start, BeginRound, SelectExpired, QueueExpired,
       ExpiredQueued, CancelSuperseded, PickTasks, PurgeFinished, EndRound, dbVars
<1>2. wpc \in RoundPcs \union {"next"}
  BY DEF Round, StartWorker, Start, BeginRound, SelectExpired, QueueExpired,
       ExpiredQueued, CancelSuperseded, PickTasks, PurgeFinished, EndRound, BatchDone, RoundPcs
<1>3. cur = NoVM
  BY <1>2 DEF Control, ExecPcs
<1> QED BY <1>1, <1>3, Nulls
        DEF RowStep, CleanStep, GoneStep, LateStays, SettleStep, StaysSettled, BornStep

LEMMA RowsExecute ==
  ASSUME TypeOK, Control, Execute \/ Faults, NEW v \in VMs
  PROVE  RowStep(v)
<1> USE DEF TypeOK
<1>exec. ASSUME wpc \in ExecPcs PROVE cur \in VMs /\ batch[cur] # NoJob
  BY <1>exec, Executed
<1>pcs. {"run", "configure", "destroyed"} \union Late \subseteq ExecPcs
  BY DEF ExecPcs, WorkerPcs, RoundPcs, Late
<1>row. row[v] \in Row /\ pve[v] \in {"absent", "present"}
  OBVIOUS
\* Nothing but the worker's place changes.
<1>still. ASSUME row'[v] = row[v], pve'[v] = pve[v], LateStays(v),
                 cur' = v /\ wpc' = "configure" => ~created'
          PROVE  RowStep(v)
  BY <1>still DEF RowStep, CleanStep, GoneStep, SettleStep, StaysSettled, BornStep
\* Only the sync state changes, and not to synced.
<1>sync. ASSUME NEW y, y # "synced", row'[v] = row[v] \/ row'[v] = [row[v] EXCEPT !.sync = y],
                pve'[v] = pve[v], LateStays(v), wpc' # "configure"
         PROVE  RowStep(v)
  <2>1. CASE row'[v] = row[v]
    BY <1>sync, <2>1, <1>still
  <2>2. CASE row'[v] = [row[v] EXCEPT !.sync = y]
    <3>1. /\ row'[v].life = row[v].life /\ row'[v].sync = y
          /\ row'[v].delReq = row[v].delReq
          /\ row'[v].delAfter = row[v].delAfter /\ row'[v].prefer = row[v].prefer
      BY <2>2, <1>row DEF Row
    <3> QED BY <1>sync, <3>1 DEF RowStep, CleanStep, GoneStep, Dead, SettleStep, IsSettled, BornStep
  <2> QED BY <1>sync, <2>1, <2>2
<1>next. ASSUME wpc \in ExecPcs, NextTask PROVE LateStays(v) /\ wpc' # "configure"
  BY <1>next DEF NextTask, LateStays
<1>after. ASSUME wpc \in ExecPcs, AfterFailure PROVE LateStays(v) /\ wpc' # "configure"
  BY <1>after, <1>next DEF AfterFailure, Goto, LateStays, Late
<1>1. ASSUME NEW u \in VMs, StartTask(u) \/ SkipTask(u) PROVE RowStep(v)
  BY <1>1, <1>still DEF StartTask, SkipTask, LateStays, Late, dbVars
<1>2. CASE FindVM \/ RebootVM \/ RefuseDelete \/ TaskErrs
  BY <1>2, <1>still DEF FindVM, RebootVM, RefuseDelete, TaskErrs, Executing, Goto,
       LateStays, Late, Control, dbVars
<1>3. CASE CloneVM
  <2>1. row' = row /\ wpc = "run" /\ cur \in VMs /\ pve[cur] = "absent" /\ cur' = cur
    BY <1>3 DEF CloneVM, Executing, Goto, dbVars
  <2>2. pve'[v] \in {pve[v], "present"}
    BY <1>3 DEF CloneVM
  <2>3. cur # v => pve'[v] = pve[v]
    BY <1>3 DEF CloneVM
  <2> QED BY <2>1, <2>2, <2>3 DEF RowStep, CleanStep, GoneStep, LateStays, Late, SettleStep,
            StaysSettled, BornStep
<1>4. CASE CloneLeftBehind
  <2>1. row' = row /\ wpc = "run" /\ wpc' = "failed" /\ cur \in VMs /\ cur' = cur
    BY <1>4 DEF CloneLeftBehind, Executing, Goto, dbVars
  <2>2. pve'[v] \in {pve[v], "present"} /\ (cur # v => pve'[v] = pve[v])
    BY <1>4 DEF CloneLeftBehind
  <2> QED BY <2>1, <2>2 DEF RowStep, CleanStep, GoneStep, LateStays, Late, SettleStep,
            StaysSettled, BornStep
<1>5. CASE ConfigureVM
  <2>1. /\ cur \in VMs /\ cur' = cur /\ wpc = "configure" /\ wpc' = "done"
        /\ batch' = batch /\ tasks' = tasks /\ pve' = pve
        /\ row' = [row EXCEPT ![cur].sync = "synced"]
    BY <1>5, <1>exec, <1>pcs DEF ConfigureVM, Goto
  <2>2. CASE cur = v
    <3>1. row'[v] = [row[v] EXCEPT !.sync = "synced"]
      BY <2>1, <2>2
    <3>2. /\ row'[v].life = row[v].life /\ row'[v].delReq = row[v].delReq
          /\ row'[v].delAfter = row[v].delAfter /\ row'[v].prefer = row[v].prefer
      BY <3>1, <1>row DEF Row
    <3>3. pve[v] = "present" /\ batch[v].act = "present" /\ batch[v] # NoJob
      BY <2>1, <2>2, <1>exec, <1>pcs DEF Control
    <3> QED BY <2>1, <2>2, <3>2, <3>3 DEF RowStep, CleanStep, GoneStep, Dead, LateStays, Late,
              SettleStep, GetsSettled, BornStep
  <2>3. CASE cur # v
    BY <2>1, <2>3, <1>still DEF LateStays
  <2> QED BY <2>2, <2>3
<1>6. CASE ConfigureFails \/ DestroyVM
  <2>1. /\ row' = row /\ cur \in VMs /\ cur' = cur /\ wpc' \in {"failed", "destroyed"}
        /\ pve'[v] \in {pve[v], "absent"} /\ (cur # v => pve'[v] = pve[v])
        /\ \/ pve'[v] = pve[v]
           \/ wpc = "run" /\ batch[cur].act = "delete" /\ batch[cur].due = "past"
           \/ wpc = "configure" /\ created
        /\ wpc \in {"run", "configure"}
    BY <1>6, <1>exec, <1>pcs DEF ConfigureFails, DestroyVM, Executing, Goto, dbVars
  <2> QED BY <2>1 DEF RowStep, CleanStep, GoneStep, LateStays, Late, SettleStep,
            StaysSettled, BornStep
<1>7. CASE PowerVM
  <2>1. /\ cur \in VMs /\ cur' = cur /\ wpc = "run" /\ wpc' = "done"
        /\ batch' = batch /\ tasks' = tasks /\ pve' = pve
        /\ batch[cur].act = "power" /\ batch[cur] # NoJob
        /\ row' = row \/ (pve[cur] = "present" /\ row' = [row EXCEPT ![cur].sync = "synced"])
    BY <1>7, <1>exec, <1>pcs DEF PowerVM, Executing, Goto
  <2>2. CASE cur = v /\ row' # row
    <3>1. row'[v] = [row[v] EXCEPT !.sync = "synced"] /\ pve[v] = "present"
      BY <2>1, <2>2
    <3>2. /\ row'[v].life = row[v].life /\ row'[v].delReq = row[v].delReq
          /\ row'[v].delAfter = row[v].delAfter /\ row'[v].prefer = row[v].prefer
      BY <3>1, <1>row DEF Row
    <3> QED BY <2>1, <2>2, <3>1, <3>2 DEF RowStep, CleanStep, GoneStep, Dead, LateStays, Late,
              SettleStep, GetsSettled, BornStep
  <2>3. CASE cur # v \/ row' = row
    BY <2>1, <2>3, <1>still DEF LateStays, Late
  <2> QED BY <2>2, <2>3
<1>8. CASE DeleteAbsentVM \/ MarkDeleted
  <2>1. /\ cur \in VMs /\ cur' = cur /\ wpc' \in {"done", "cancel"} /\ pve' = pve
        /\ wpc \in {"run", "destroyed"} /\ pve[cur] = "absent"
        /\ row' = [row EXCEPT ![cur] = Deleted(row[cur])]
    BY <1>8, <1>exec, <1>pcs DEF DeleteAbsentVM, MarkDeleted, Executing, Goto, Control
  <2>2. CASE cur = v
    <3>1. row'[v] = Deleted(row[v])
      BY <2>1, <2>2
    <3>2. /\ row'[v].life \notin {"live"} /\ (row'[v].life = "none" => row[v].life = "none")
          /\ row'[v].delReq = row[v].delReq
          /\ row'[v].delAfter = row[v].delAfter /\ row'[v].prefer = row[v].prefer
      BY <3>1, <1>row DEF Row, Deleted
    <3> QED BY <2>1, <2>2, <3>2 DEF RowStep, CleanStep, GoneStep, LateStays, Late,
              SettleStep, IsSettled, BornStep
  <2>3. CASE cur # v
    BY <2>1, <2>3, <1>still DEF LateStays
  <2> QED BY <2>2, <2>3
<1>9. CASE DeferDelete
  <2>1. /\ row'[v] = row[v] \/ row'[v] = [row[v] EXCEPT !.sync = "deleting"]
        /\ pve' = pve /\ wpc = "run" /\ wpc' = "done"
    BY <1>9 DEF DeferDelete, Executing, Goto
  <2> QED BY <2>1, <1>sync DEF LateStays, Late
<1>10. CASE MarkDeletedFails \/ CancelOutstanding \/ CancelOutstandingFails \/ TaskDoneFails
  BY <1>10, <1>still DEF MarkDeletedFails, CancelOutstanding, CancelOutstandingFails,
       TaskDoneFails, Goto, LateStays, Late, dbVars
<1>11. CASE TaskDone \/ VMFailedFails
  BY <1>11, <1>next, <1>still, <1>pcs DEF TaskDone, VMFailedFails, Late, dbVars
<1>12. CASE TaskFailed \/ TaskLeftRunning
  BY <1>12, <1>after, <1>still, <1>pcs DEF TaskFailed, TaskLeftRunning, Late, dbVars
<1>13. CASE VMFailed
  <2>1. /\ row'[v] = row[v] \/ row'[v] = [row[v] EXCEPT !.sync = "failed"]
        /\ pve' = pve /\ wpc \in ExecPcs /\ NextTask
    BY <1>13, <1>pcs DEF VMFailed, Late
  <2> QED BY <2>1, <1>next, <1>sync
<1>14. CASE StartWithoutRecovery \/ RoundFails \/ PurgeFails
  BY <1>14, <1>still DEF StartWithoutRecovery, Start, RoundFails, PurgeFails, BatchDone,
       LateStays, Late, dbVars
<1>15. CASE CrashWorker
  BY <1>15, <1>still DEF CrashWorker, LateStays, dbVars
<1> QED BY <1>1, <1>2, <1>3, <1>4, <1>5, <1>6, <1>7, <1>8, <1>9, <1>10, <1>11,
           <1>12, <1>13, <1>14, <1>15
        DEF Execute, Faults

LEMMA RowsTime ==
  ASSUME TypeOK, Time, NEW v \in VMs
  PROVE  RowStep(v)
<1> USE DEF TypeOK
<1>row. row[v] \in Row
  OBVIOUS
<1>1. ASSUME NEW u \in VMs, DeadlinePasses(u) PROVE RowStep(v)
  <2>1. UNCHANGED <<pve, wpc, cur, created>>
    BY <1>1 DEF DeadlinePasses
  <2>2. \/ row'[v] = row[v]
        \/ row'[v] = [row[v] EXCEPT !.delAfter = Reached(row[v].delAfter),
                                    !.prefer = PreferReached(row[v].prefer)]
    BY <1>1 DEF DeadlinePasses
  <2>3. /\ row'[v].life = row[v].life /\ row'[v].sync = row[v].sync
        /\ row'[v].delReq = row[v].delReq
        /\ row[v].delAfter = "none" => row'[v].delAfter = "none"
        /\ row[v].prefer = PreferPresent => row'[v].prefer = PreferPresent
    <3> DEFINE p == PreferReached(row[v].prefer)
               d == Reached(row[v].delAfter)
    <3>1. row[v].prefer = PreferPresent => p = PreferPresent
      BY DEF PreferReached, PreferPresent, Reached
    <3>2. row[v].delAfter = "none" => d = "none"
      BY DEF Reached
    <3> HIDE DEF p, d
    <3>3. row'[v] = row[v] \/ row'[v] = [row[v] EXCEPT !.delAfter = d, !.prefer = p]
      BY <2>2 DEF p, d
    <3> QED BY <3>1, <3>2, <3>3, <1>row DEF Row
  <2>4. batch'[v].act = batch[v].act
    BY <1>1 DEF DeadlinePasses, Job, NoJob
  <2> QED BY <2>1, <2>3 DEF RowStep, CleanStep, GoneStep, Dead, LateStays, SettleStep,
            StaysSettled, IsSettled, BornStep
<1> QED BY <1>1 DEF Time

LEMMA RowSteps ==
  ASSUME TypeOK, Control, Requests, [Next]_vars, NEW v \in VMs, Unborn(v)
  PROVE  RowStep(v)
BY RowsServer, RowsRound, RowsExecute, RowsTime DEF Next

--------------------------------------------------------------------------------
(* The invariant.                                                          *)

LEMMA GoneKept ==
  ASSUME TypeOK, Control, NEW v \in VMs, QueueStep(v), RowStep(v), VmInv(v)
  PROVE  Gone(v)'
<1>1. SUFFICES ASSUME Dead(row'[v])
      PROVE  /\ pve'[v] = "absent"
             /\ batch'[v] # NoJob => cur' = v /\ wpc' \in Late
  BY DEF Gone, Dead, Late
<1>2. Dead(row[v]) => /\ pve[v] = "absent"
                      /\ batch[v] # NoJob => cur = v /\ wpc \in Late
  BY DEF VmInv, Gone, Dead, Late
<1>3. Dead(row[v]) => ~(cur = v /\ wpc = "run")
  BY <1>2, Nulls DEF Control, Late
<1>4. CASE cur = v /\ cur' = v /\ wpc' \in Late /\ pve'[v] = "absent"
  BY <1>4
<1>5. CASE Dead(row[v]) /\ pve'[v] \in {pve[v], "absent"}
  <2>1. ASSUME batch'[v] # NoJob PROVE batch[v] # NoJob
    <3>1. Pickable(v) = {}
      BY <1>5 DEF Dead, Pickable
    <3> QED BY <2>1, <3>1 DEF QueueStep, Followed, Kept, Started, Failed, Picked, Purged
  <2>2. LateStays(v)
    BY DEF RowStep
  <2> QED BY <1>2, <1>5, <2>1, <2>2 DEF LateStays
<1> QED BY <1>1, <1>3, <1>4, <1>5 DEF RowStep, GoneStep

\* A deletion's row that is open again, or still, was open or in the batch.
LEMMA OpenAfter ==
  ASSUME TypeOK, NEW v \in VMs, QueueStep(v), ~row'[v].delReq,
         InOrder(tasks[v], batch[v]), NEW s \in Open(tasks'[v]), Dated(tasks'[v][s])
  PROVE  /\ s \in Rows(tasks[v]) /\ Dated(tasks[v][s])
         /\ s \in Open(tasks[v]) \/ (batch[v] # NoJob /\ s = batch[v].seq)
<1>q. tasks[v] \in Queues /\ s \in Seqs /\ s \in Rows(tasks'[v])
  BY DEF TypeOK, Open, Rows
<1>1. CASE Followed(v)
  <2>1. Dues(v) = {"none"}
    BY DEF Dues
  <2>2. s \in Open(tasks[v])
    BY <1>1, <2>1 DEF Followed, Follows, Dated
  <2> QED BY <1>1, <2>2 DEF Followed, Follows, Dated, Open
<1>2. CASE Started(v) \/ Failed(v)
  <2>1. batch[v] # NoJob /\ batch[v].seq \in Rows(tasks[v])
    BY <1>2 DEF Started, Failed, InOrder
  <2>2. /\ Rows(tasks'[v]) = Rows(tasks[v])
        /\ Open(tasks'[v]) = Open(tasks[v]) \union {batch[v].seq}
        /\ \A t \in Seqs : t # batch[v].seq => tasks'[v][t] = tasks[v][t]
        /\ tasks'[v][batch[v].seq].kind = tasks[v][batch[v].seq].kind
        /\ tasks'[v][batch[v].seq].due = tasks[v][batch[v].seq].due
    BY <1>q, <1>2, <2>1, Marked DEF Started, Failed
  <2>3. Dated(tasks[v][s])
    BY <1>q, <2>2 DEF Dated
  <2> QED BY <1>q, <2>1, <2>2, <2>3
<1>3. CASE Picked(v)
  BY <1>q, <1>3 DEF Picked
<1>4. CASE Purged(v)
  <2>1. tasks'[v][s] = tasks[v][s]
    BY <1>q, <1>4, PurgedRows DEF Open, Rows, NoTask
  <2> QED BY <1>q, <2>1 DEF Open, Rows
<1> QED BY <1>1, <1>2, <1>3, <1>4 DEF QueueStep

LEMMA HeadKept ==
  ASSUME TypeOK, NEW v \in VMs, QueueStep(v), InOrder(tasks[v], batch[v]),
         NEW s \in Rows(tasks[v]), s \in Open(tasks'[v]),
         IsHead(tasks[v], s), batch[v] # NoJob => s = batch[v].seq
  PROVE  /\ IsHead(tasks'[v], s)
         /\ batch'[v] # NoJob => s = batch'[v].seq
<1>q. tasks[v] \in Queues /\ s \in Seqs
  BY DEF TypeOK, Rows
<1>1. CASE Followed(v)
  <2>1. \A t \in Open(tasks'[v]) : t \in Open(tasks[v]) \/ s < t
    BY <1>1 DEF Followed, Follows
  <2>2. IsHead(tasks'[v], s)
    BY <1>q, <2>1 DEF IsHead, Open, Rows, Seqs
  <2> QED BY <1>1, <2>2 DEF Followed, Kept
<1>2. CASE Started(v) \/ Failed(v)
  <2>1. batch[v] # NoJob /\ s = batch[v].seq
    BY <1>2 DEF Started, Failed
  <2>2. Open(tasks'[v]) = Open(tasks[v]) \union {s}
    BY <1>q, <1>2, <2>1, Marked DEF Started, Failed
  <2>3. IsHead(tasks'[v], s)
    BY <1>q, <2>2 DEF IsHead, Open, Rows, Seqs
  <2> QED BY <1>2, <2>1, <2>3 DEF Started, Failed
<1>3. CASE Picked(v)
  <2>1. PICK p \in Eligible(tasks[v]) : batch'[v] = JobOf(v, p)
    BY <1>3 DEF Picked, Pickable
  <2>2. p \in Open(tasks[v]) /\ IsHead(tasks[v], p)
    BY <2>1 DEF Eligible, Retryable, Open
  <2>3. s \in Open(tasks[v])
    BY <1>3 DEF Picked
  <2>4. s = p
    BY <1>q, <2>2, <2>3 DEF IsHead, Open, Rows, Seqs
  <2> QED BY <1>3, <2>1, <2>4 DEF Picked, JobOf
<1>4. CASE Purged(v)
  <2>1. Open(tasks'[v]) \subseteq Open(tasks[v])
    BY <1>q, <1>4, PurgedRows DEF NoTask, Open, Rows
  <2> QED BY <1>4, <2>1 DEF IsHead, Purged
<1> QED BY <1>1, <1>2, <1>3, <1>4 DEF QueueStep

LEMMA CleanKept ==
  ASSUME TypeOK, NEW v \in VMs, QueueStep(v), RowStep(v), VmInv(v)
  PROVE  Clean(tasks[v], row[v], batch[v])'
<1>1. SUFFICES ASSUME ~row'[v].delReq
      PROVE  /\ row'[v].delAfter = "none" /\ row'[v].prefer = PreferPresent
             /\ \A s \in Open(tasks'[v]) : Dated(tasks'[v][s]) =>
                  /\ IsHead(tasks'[v], s)
                  /\ batch'[v] # NoJob => s = batch'[v].seq
  BY DEF Clean
<1>2. InOrder(tasks[v], batch[v]) /\ Clean(tasks[v], row[v], batch[v])
  BY DEF VmInv
<1>3. row'[v].delAfter = "none" /\ row'[v].prefer = PreferPresent
  BY <1>1, <1>2 DEF RowStep, CleanStep, Restored, Clean
<1>4. ASSUME NEW s \in Open(tasks'[v]), Dated(tasks'[v][s])
      PROVE  /\ IsHead(tasks'[v], s)
             /\ batch'[v] # NoJob => s = batch'[v].seq
  <2>1. /\ s \in Rows(tasks[v]) /\ Dated(tasks[v][s])
        /\ s \in Open(tasks[v]) \/ (batch[v] # NoJob /\ s = batch[v].seq)
    BY <1>1, <1>2, <1>4, OpenAfter
  <2>2. IsHead(tasks[v], s) /\ (batch[v] # NoJob => s = batch[v].seq)
    <3>1. CASE Restored(v)
      BY <1>2, <1>4, <3>1 DEF Restored, InOrder
    <3>2. CASE ~row[v].delReq
      BY <1>2, <2>1, <3>2 DEF Clean, InOrder
    <3> QED BY <1>1, <3>1, <3>2 DEF RowStep, CleanStep
  <2> QED BY <1>2, <2>1, <2>2, HeadKept
<1> QED BY <1>3, <1>4

LEMMA SettledKept ==
  ASSUME TypeOK, Control, NEW v \in VMs, QueueStep(v), RowStep(v), VmInv(v),
         TypeOK', Control'
  PROVE  Settled(v)'
<1>1. SUFFICES ASSUME IsSettled(row'[v])
      PROVE  /\ pve'[v] = "present"
             /\ \A s \in Open(tasks'[v]) : ~Dated(tasks'[v][s])
             /\ batch'[v].act = "delete" => batch'[v].due = "none"
             /\ ~(cur' = v /\ wpc' = "configure" /\ created')
  BY DEF Settled
<1>2. InOrder(tasks[v], batch[v]) /\ Fits(tasks[v], batch[v])
  BY DEF VmInv
<1>3. ~row'[v].delReq
  BY <1>1 DEF IsSettled
<1>4. CASE StaysSettled(v)
  <2>1. /\ pve[v] = "present"
        /\ \A s \in Open(tasks[v]) : ~Dated(tasks[v][s])
        /\ batch[v].act = "delete" => batch[v].due = "none"
        /\ ~(cur = v /\ wpc = "configure" /\ created)
    BY <1>4 DEF StaysSettled, VmInv, Settled
  <2>2. pve'[v] = "present" /\ ~(cur' = v /\ wpc' = "configure" /\ created')
    BY <1>4, <2>1 DEF StaysSettled
  <2>3. \A s \in Open(tasks'[v]) : ~Dated(tasks'[v][s])
    <3> SUFFICES ASSUME NEW s \in Open(tasks'[v]), Dated(tasks'[v][s]) PROVE FALSE
      OBVIOUS
    <3>1. /\ s \in Rows(tasks[v]) /\ Dated(tasks[v][s])
          /\ s \in Open(tasks[v]) \/ (batch[v] # NoJob /\ s = batch[v].seq)
      BY <1>2, <1>3, OpenAfter
    <3>2. batch[v] # NoJob /\ s = batch[v].seq
      BY <2>1, <3>1
    <3> QED BY <1>2, <2>1, <3>1, <3>2 DEF Fits, Dated
  <2>4. batch'[v].act = "delete" => batch'[v].due = "none"
    <3>1. CASE Picked(v)
      <4>1. PICK p \in Eligible(tasks[v]) : batch'[v] = JobOf(v, p)
        BY <3>1 DEF Picked, Pickable
      <4>2. ~Dated(tasks[v][p])
        BY <2>1, <4>1 DEF Eligible, Retryable, Open
      <4>3. row[v].sync = "synced" /\ ~row[v].delReq
        BY <1>4 DEF StaysSettled, IsSettled
      <4>4. row[v].delAfter = "none" /\ row[v].prefer = PreferPresent
        BY <4>3 DEF VmInv, Clean
      <4> QED BY <4>1, <4>2, <4>3, <4>4 DEF JobOf, PendingDeletion, Dated, PreferPresent
    <3>2. CASE ~Picked(v)
      BY <2>1, <3>2 DEF QueueStep, Followed, Kept, Started, Failed, Purged, NoJob
    <3> QED BY <3>1, <3>2
  <2> QED BY <2>2, <2>3, <2>4
<1>5. CASE GetsSettled(v)
  <2>1. ASSUME NEW s \in Open(tasks'[v]), Dated(tasks'[v][s]) PROVE FALSE
    <3>1. Clean(tasks[v], row[v], batch[v])'
      BY CleanKept
    <3>2. s = batch[v].seq /\ Dated(tasks[v][s])
      BY <1>3, <1>5, <2>1, <3>1 DEF GetsSettled, Clean
    <3> QED BY <1>2, <1>5, <3>2 DEF GetsSettled, Fits, Dated
  <2> QED BY <1>5, <2>1 DEF GetsSettled
<1> QED BY <1>1, <1>4, <1>5 DEF RowStep, SettleStep

LEMMA RequestsKept ==
  ASSUME TypeOK, Requests, \A v \in VMs : VmInv(v), [Next]_vars,
         \A v \in VMs : RowStep(v)
  PROVE  Requests'
<1> USE DEF TypeOK
<1>born. ASSUME NEW v \in VMs, Found(v) PROVE Found(v)'
  BY <1>born DEF RowStep, BornStep, Found
<1>vm. \A c \in Clients : req[c] # NoRequest => req[c].vm \in VMs
  BY DEF Request
<1>keep. ASSUME \A c \in Clients : req'[c] # NoRequest =>
                   req[c] # NoRequest /\ req'[c].vm = req[c].vm
                   /\ (req[c].prefer = PreferPresent => req'[c].prefer = PreferPresent)
         PROVE  Requests'
  BY <1>keep, <1>born, <1>vm DEF Requests, Found
<1>1. ASSUME NEW c \in Clients, NEW op \in Ops \intersect TwoStepOps, NEW v \in VMs,
             NEW s \in Seqs, Load(c, op, v, s)
      PROVE  Requests'
  <2> DEFINE prefer == IF op \in {"patch", "power"} THEN row[v].prefer ELSE PreferPresent
  <2>1. /\ Found(v) /\ MayLoad(op, v, s) /\ row' = row
        /\ req' = [req EXCEPT ![c] = [op |-> op, vm |-> v, prefer |-> prefer, seq |-> s]]
    BY <1>1 DEF Load, dbVars
  <2>2. prefer = PreferPresent
    <3>1. CASE op \in {"patch", "power"}
      <4>1. ~row[v].delReq
        BY <2>1, <3>1 DEF MayLoad, PendingDeletion
      <4> QED BY <4>1 DEF VmInv, Clean
    <3> QED BY <3>1
  <2>3. req'[c].vm = v /\ req'[c].prefer = PreferPresent
    BY <2>1, <2>2
  <2>4. \A d \in Clients : d # c => req'[d] = req[d]
    BY <2>1
  <2> QED BY <2>1, <2>3, <2>4 DEF Requests, Found
<1>2. ASSUME NEW c \in Clients,
             \/ RequestFails(c) \/ CommitPatch(c) \/ CommitPower(c) \/ CommitDelete(c)
             \/ CommitDeleteNow(c) \/ CommitRestore(c) \/ CommitRetry(c)
      PROVE  Requests'
  <2>1. req' = [req EXCEPT ![c] = NoRequest]
    BY <1>2 DEF RequestFails, CommitPatch, CommitPower, CommitDelete, CommitDeleteNow,
         CommitRestore, CommitRetry, Commit
  <2> QED BY <2>1, <1>keep
<1>3. ASSUME NEW v \in VMs, DeadlinePasses(v) PROVE Requests'
  <2>1. \A c \in Clients : \/ req'[c] = req[c]
                           \/ /\ req[c] # NoRequest
                              /\ req'[c] = [req[c] EXCEPT !.prefer = PreferReached(req[c].prefer)]
    BY <1>3 DEF DeadlinePasses
  <2>2. PreferReached(PreferPresent) = PreferPresent
    BY DEF PreferReached, PreferPresent, Reached
  <2>3. ASSUME NEW c \in Clients, req'[c] # NoRequest
        PROVE  /\ req[c] # NoRequest /\ req'[c].vm = req[c].vm
               /\ req[c].prefer = PreferPresent => req'[c].prefer = PreferPresent
    <3>1. CASE req'[c] = req[c]
      BY <2>3, <3>1
    <3>2. CASE /\ req[c] # NoRequest
               /\ req'[c] = [req[c] EXCEPT !.prefer = PreferReached(req[c].prefer)]
      <4>1. req[c] \in Request
        BY <3>2
      <4>2. req'[c].vm = req[c].vm /\ req'[c].prefer = PreferReached(req[c].prefer)
        BY <3>2, <4>1 DEF Request
      <4> QED BY <2>2, <3>2, <4>2
    <3> QED BY <2>1, <3>1, <3>2
  <2> QED BY <2>3, <1>keep
<1>4. CASE req' = req
  BY <1>4, <1>keep
<1>5. ASSUME NEW v \in VMs, CreateVM(v) \/ PauseVMTasks(v) \/ ResumeVMTasks(v)
      PROVE  req' = req
  BY <1>5 DEF CreateVM, PauseVMTasks, ResumeVMTasks, SetPaused
<1>6. ASSUME Round \/ Execute \/ Faults \/ UNCHANGED vars PROVE req' = req
  BY <1>6 DEF Round, StartWorker, Start, BeginRound, SelectExpired, QueueExpired,
       ExpiredQueued, CancelSuperseded, PickTasks, PurgeFinished, EndRound, Execute, StartTask, FindVM,
       CloneVM, ConfigureVM, PowerVM, RebootVM, DeleteAbsentVM, DeferDelete, RefuseDelete,
       DestroyVM, MarkDeleted, CancelOutstanding, TaskDone, TaskFailed, VMFailed,
       Faults, SkipTask, StartWithoutRecovery, RoundFails, PurgeFails, CloneLeftBehind,
       ConfigureFails, TaskErrs, MarkDeletedFails, CancelOutstandingFails, TaskDoneFails,
       TaskLeftRunning, VMFailedFails, CrashWorker, vars
<1> QED BY <1>1, <1>2, <1>3, <1>4, <1>5, <1>6 DEF Next, Server, Time

LEMMA InvInit == Init => IInv
<1> SUFFICES ASSUME Init PROVE IInv
  OBVIOUS
<1>1. TypeOK /\ Control
  BY TypeInit, ControlInit
<1>2. Requests
  BY DEF Init, Requests
<1>3. ASSUME NEW v \in VMs PROVE VmInv(v)
  <2>1. row[v] = NoRow /\ tasks[v] = EmptyQueue /\ batch[v] = NoJob /\ pve[v] = "absent"
    BY DEF Init
  <2>2. Rows(tasks[v]) = {}
    BY <2>1 DEF Rows, EmptyQueue, NoTask
  <2>3. Open(tasks[v]) = {} /\ Tried(tasks[v]) = {}
    BY <2>2 DEF Open, Tried
  <2>4. row[v].life = "none" /\ ~row[v].delReq /\ row[v].delAfter = "none"
        /\ row[v].prefer = PreferPresent
    BY <2>1 DEF NoRow
  <2> QED BY <2>1, <2>3, <2>4 DEF VmInv, InOrder, Fits, Budget, Gone, Clean, Settled,
            IsSettled, Unborn
<1> QED BY <1>1, <1>2, <1>3 DEF IInv

LEMMA InvNext ==
  ASSUME IInv, [Next]_vars
  PROVE  IInv'
<1>1. TypeOK /\ Control /\ Requests /\ \A v \in VMs : VmInv(v)
  BY DEF IInv
<1>2. TypeOK' /\ Control'
  BY <1>1, TypeAndControl
<1>3. ASSUME NEW v \in VMs PROVE QueueStep(v) /\ RowStep(v)
  BY <1>1, QueueSteps, RowSteps DEF VmInv
<1>4. Requests'
  BY <1>1, <1>3, RequestsKept
<1>5. ASSUME NEW v \in VMs PROVE VmInv(v)'
  <2>1. VmInv(v) /\ QueueStep(v) /\ RowStep(v)
    BY <1>1, <1>3
  <2>2. /\ InOrder(tasks[v], batch[v])' /\ Fits(tasks[v], batch[v])'
        /\ v # cur' => Budget(tasks[v], batch[v])'
    BY <1>1, <2>1, OrderKept DEF VmInv
  <2>3. Gone(v)'
    BY <1>1, <2>1, GoneKept
  <2>4. Clean(tasks[v], row[v], batch[v])'
    BY <1>1, <2>1, CleanKept
  <2>5. Settled(v)'
    BY <1>1, <1>2, <2>1, SettledKept
  <2>6. Unborn(v)'
    BY <2>1 DEF VmInv, RowStep, BornStep, Unborn
  <2> QED BY <2>2, <2>3, <2>4, <2>5, <2>6 DEF VmInv
<1> QED BY <1>2, <1>4, <1>5 DEF IInv

\* The invariant holds in every reachable state.
THEOREM Invariance == Spec => []IInv
BY InvInit, InvNext, PTL DEF Spec

\* Tasks of a VM are carried out one at a time and in order, whatever the
\* handlers do to the queue while the worker works from its copy.
THEOREM SerialExecutionHolds == Spec => []SerialExecution
<1>1. IInv => SerialExecution
  <2> SUFFICES ASSUME IInv PROVE SerialExecution
    OBVIOUS
  <2>1. ASSUME NEW v \in VMs, NEW s \in Running(tasks[v]) PROVE IsHead(tasks[v], s)
    BY <2>1 DEF IInv, VmInv, InOrder, Tried, Running
  <2>2. ASSUME cur # NoVM PROVE IsHead(tasks[cur], batch[cur].seq)
    <3>1. cur \in VMs /\ batch[cur] # NoJob
      BY <2>2 DEF IInv, TypeOK, Control
    <3> QED BY <3>1 DEF IInv, VmInv, InOrder
  <2> QED BY <2>1, <2>2 DEF SerialExecution
<1> QED BY <1>1, Invariance, PTL

\* A VM whose row is deleted is gone from the cluster and stays so.
THEOREM NoOrphanHolds == Spec => []NoOrphan
<1>1. IInv => NoOrphan
  BY DEF IInv, VmInv, Gone, NoOrphan
<1> QED BY <1>1, Invariance, PTL

\* A VM shown as synced exists, whatever attempts failed before.
THEOREM SyncedVMExistsHolds == Spec => []SyncedVMExists
<1>1. IInv => SyncedVMExists
  BY DEF IInv, VmInv, Settled, IsSettled, SyncedVMExists
<1> QED BY <1>1, Invariance, PTL

\* No task is started again after its last automatic attempt failed.
THEOREM RetryBudgetHolds == Spec => RetryBudget
<1> DEFINE A == \A v \in VMs, s \in Seqs :
                  /\ tasks[v][s].status = "failed"
                  /\ tasks[v][s].attempts > MaxRetries
                  => tasks'[v][s].status # "running"
<1>1. IInv /\ [Next]_vars => A
  <2> SUFFICES ASSUME IInv, [Next]_vars, NEW v \in VMs, NEW s \in Seqs,
                      tasks[v][s].status = "failed", tasks[v][s].attempts > MaxRetries,
                      tasks'[v][s].status = "running"
               PROVE  FALSE
    OBVIOUS
  <2>1. TypeOK /\ Control /\ VmInv(v) /\ tasks[v] \in Queues
    BY DEF IInv, TypeOK
  <2>2. QueueStep(v)
    BY <2>1, QueueSteps
  <2>3. s \in Tried(tasks'[v])
    BY DEF Tried, Rows
  <2>4. CASE Followed(v)
    BY <2>3, <2>4 DEF Followed, Follows
  <2>5. CASE Started(v)
    <3>1. v # cur /\ batch[v] # NoJob
      BY <2>5, Nulls DEF Started
    <3>2. s = batch[v].seq
      <4>1. batch[v].seq \in Seqs
        BY <2>1, <3>1 DEF TypeOK, Job
      <4> QED BY <2>1, <2>5, <4>1 DEF Started, MarkRunning, Queues
    <3>3. tasks[v][s].attempts <= MaxRetries
      BY <2>1, <3>1, <3>2 DEF VmInv, Budget
    <3>4. tasks[v][s].attempts \in Nat
      BY <2>1 DEF Queues, Task, Attempts
    <3> QED BY <3>3, <3>4, RetryAssumption
  <2>6. CASE Failed(v)
    BY <2>1, <2>6 DEF Failed, MarkFailed, Queues, Task
  <2>7. CASE Picked(v)
    BY <2>7 DEF Picked
  <2>8. CASE Purged(v)
    BY <2>1, <2>8, PurgedRows DEF NoTask
  <2> QED BY <2>2, <2>4, <2>5, <2>6, <2>7, <2>8 DEF QueueStep
<1>2. IInv /\ [Next]_vars => [A]_vars
  BY <1>1
<1> QED BY <1>2, Invariance, PTL DEF Spec, RetryBudget

--------------------------------------------------------------------------------
(* Deadlines.                                                              *)

\* The rows of r have no other deadlines than those of q and those of D.
Within(q, r, D) == \A s \in Seqs : r[s].due \in {q[s].due} \union D

Deletes(c, v) == req[c] # NoRequest /\ req[c].op = "delete" /\ req[c].vm = v

\* A deadline is set, by a deletion after the grace period or at once.
Sets(v, d) ==
  /\ d = "past" \/ (d = "future" /\ \E c \in Clients : Deletes(c, v))
  /\ row'[v].delReq /\ row'[v].delAfter = d
  /\ Within(tasks[v], tasks'[v], {"none", d}) /\ batch'[v].due = batch[v].due

\* The deadlines pass together.
Passes(v) ==
  /\ row'[v].delAfter = Reached(row[v].delAfter)
  /\ batch'[v].due = Reached(batch[v].due)
  /\ \A s \in Seqs : tasks'[v][s].due = Reached(tasks[v][s].due)

\* Nothing about deadlines changes, but that the worker may read the row's.
Keeps(v) ==
  /\ row'[v].delAfter = row[v].delAfter
  /\ Within(tasks[v], tasks'[v], {"none"})
  /\ batch'[v].due \in Deadlines(v) \union {"none", row[v].delAfter}

DueStep(v) ==
  \/ \E d \in Instants : Sets(v, d)
  \/ row'[v].delReq = row[v].delReq /\ (Passes(v) \/ Keeps(v))

\* What the statements do to the deadlines of the rows.
LEMMA StatementsWithin ==
  ASSUME NEW q \in Queues, NEW D, "none" \in D
  PROVE  /\ Within(q, q, D)
         /\ \A n \in Seqs : \A k : \A d \in D : Within(q, Enqueue(q, n, k, d), D)
         /\ \A S : Within(q, CancelDated(q, S), D)
         /\ \A S : Within(q, CancelUndated(q, S), D)
         /\ \A S : Within(q, Requeue(q, S), D)
         /\ \A s \in Seqs : /\ Within(q, MarkRunning(q, s), D)
                            /\ Within(q, MarkDone(q, s), D)
                            /\ Within(q, MarkFailed(q, s), D)
         /\ \A old : Within(q, Purge(q, old), D)
         /\ Within(q, EmptyQueue, D)
<1> USE DEF Queues, Task, Within
<1>1. Within(q, q, D)
  OBVIOUS
<1>2. ASSUME NEW n \in Seqs, NEW k, NEW d \in D PROVE Within(q, Enqueue(q, n, k, d), D)
  BY DEF Enqueue
<1>3. ASSUME NEW S PROVE /\ Within(q, CancelDated(q, S), D)
                         /\ Within(q, CancelUndated(q, S), D)
                         /\ Within(q, Requeue(q, S), D)
  BY DEF CancelDated, CancelUndated, Requeue
<1>4. ASSUME NEW s \in Seqs PROVE /\ Within(q, MarkRunning(q, s), D)
                                  /\ Within(q, MarkDone(q, s), D)
                                  /\ Within(q, MarkFailed(q, s), D)
  BY DEF MarkRunning, MarkDone, MarkFailed
<1>5. (\A old : Within(q, Purge(q, old), D)) /\ Within(q, EmptyQueue, D)
  BY DEF Purge, EmptyQueue, NoTask
<1> QED BY <1>1, <1>2, <1>3, <1>4, <1>5

LEMMA WithinTransitive ==
  ASSUME NEW q, NEW r, NEW t, NEW D, Within(q, r, D), Within(r, t, D)
  PROVE  Within(q, t, D)
BY DEF Within

\* Requests other than a restore set deadlines in row and payload at once.
LEMMA DueServer ==
  ASSUME TypeOK, NoneRestores, Server \/ UNCHANGED vars, NEW v \in VMs, Unborn(v),
         Clean(tasks[v], row[v], batch[v])
  PROVE  DueStep(v)
<1> USE DEF TypeOK
<1>0. batch' = batch
  BY DEF Server, CreateVM, PauseVMTasks, ResumeVMTasks, SetPaused, Load, RequestFails,
       CommitPatch, CommitPower, CommitDelete, CommitDeleteNow, CommitRestore, CommitRetry,
       Commit, vars, workerVars
<1>keep. ASSUME row'[v].delReq = row[v].delReq, row'[v].delAfter = row[v].delAfter,
                Within(tasks[v], tasks'[v], {"none"})
         PROVE  DueStep(v)
  BY <1>0, <1>keep DEF DueStep, Keeps, Deadlines
<1>same. ASSUME row'[v] = row[v], tasks'[v] = tasks[v] PROVE DueStep(v)
  BY <1>same, <1>keep, StatementsWithin
<1>req. ASSUME NEW c \in Clients, req[c].op \in TwoStepOps
        PROVE  /\ req[c] # NoRequest /\ req[c].vm \in VMs /\ req[c].seq \in Seqs
               /\ req[c].op # "restore"
  BY <1>req DEF TwoStepOps, NoRequest, Request, NoneRestores
<1>seq. \A n \in 1 .. ClientSeqs : n \in Seqs /\ (n < ClientSeqs => n + 1 \in Seqs)
  BY ClientSeqsAssumption, SeqAssumption DEF Seqs
<1>commit. ASSUME NEW c \in Clients, req[c].op \in TwoStepOps, NEW r, NEW q, Commit(c, r, q),
                  r.delReq = row[req[c].vm].delReq, r.delAfter = row[req[c].vm].delAfter,
                  Within(tasks[req[c].vm], q, {"none"})
           PROVE  DueStep(v)
  <2>1. CASE req[c].vm = v
    BY <1>commit, <2>1, <1>keep DEF Commit
  <2>2. CASE req[c].vm # v
    BY <1>commit, <2>2, <1>req, <1>same DEF Commit
  <2> QED BY <2>1, <2>2
<1>1. ASSUME NEW u \in VMs, CreateVM(u) PROVE DueStep(v)
  <2>1. CASE u = v
    <3>1. PICK n \in Seqs : /\ row'[v] = [NoRow EXCEPT !.life = "live"]
                           /\ tasks'[v] = Enqueue(tasks[v], n, "provision", "none")
      BY <1>1, <2>1 DEF CreateVM
    <3>2. row'[v].delReq = FALSE /\ row'[v].delAfter = "none"
      BY <3>1 DEF NoRow
    <3>3. Within(tasks[v], tasks'[v], {"none"})
      <4>1. tasks[v] \in Queues
        OBVIOUS
      <4>2. Within(tasks[v], Enqueue(tasks[v], n, "provision", "none"), {"none"})
        BY <4>1, StatementsWithin
      <4> QED BY <3>1, <4>2
    <3>4. row[v].delReq = FALSE /\ row[v].delAfter = "none"
      BY <1>1, <2>1 DEF CreateVM, Unborn, Clean, Row
    <3> QED BY <3>2, <3>3, <3>4, <1>keep
  <2>2. CASE u # v
    BY <1>1, <2>2, <1>same DEF CreateVM
  <2> QED BY <2>1, <2>2
<1>2. ASSUME NEW u \in VMs, NEW p \in BOOLEAN, SetPaused(u, p) PROVE DueStep(v)
  <2>1. /\ row'[v].delReq = row[v].delReq /\ row'[v].delAfter = row[v].delAfter
        /\ tasks' = tasks
    BY <1>2 DEF SetPaused, Row
  <2> QED BY <2>1, <1>keep, StatementsWithin
<1>3. ASSUME NEW c \in Clients, NEW op, NEW u, NEW s, Load(c, op, u, s) \/ RequestFails(c)
      PROVE  DueStep(v)
  BY <1>3, <1>same DEF Load, RequestFails, dbVars
<1>4. ASSUME NEW c \in Clients, CommitPatch(c) \/ CommitPower(c) PROVE DueStep(v)
  <2> DEFINE u == req[c].vm
             r == [row[u] EXCEPT !.sync = "pending", !.prefer = req[c].prefer]
  <2>1. req[c].op \in TwoStepOps
    BY <1>4 DEF CommitPatch, CommitPower, TwoStepOps
  <2>2. r.delReq = row[u].delReq /\ r.delAfter = row[u].delAfter
    BY <2>1, <1>req DEF Row
  <2>3. PICK n \in 1 .. ClientSeqs, k \in Kinds :
          LET q == Enqueue(tasks[u], n, k, "none")
          IN \/ Commit(c, r, q)
             \/ n < ClientSeqs /\ Commit(c, r, Enqueue(q, n + 1, "reboot", "none"))
    BY <1>4 DEF CommitPatch, CommitPower, Kinds
  <2> DEFINE q == Enqueue(tasks[u], n, k, "none")
  <2>4. tasks[u] \in Queues /\ q \in Queues
    BY <2>1, <1>req, <1>seq, StatementsKeepType DEF Instants
  <2>5. Within(tasks[u], q, {"none"})
    BY <2>4, <1>seq, StatementsWithin
  <2>6. n < ClientSeqs => Within(tasks[u], Enqueue(q, n + 1, "reboot", "none"), {"none"})
    BY <2>4, <2>5, <1>seq, StatementsWithin, WithinTransitive
  <2> QED BY <2>1, <2>2, <2>3, <2>5, <2>6, <1>commit
<1>5. ASSUME NEW c \in Clients, CommitDelete(c) \/ CommitDeleteNow(c) PROVE DueStep(v)
  <2> DEFINE u == req[c].vm
             r(d) == [row[u] EXCEPT !.sync = "deleting", !.delReq = TRUE, !.delAfter = d,
                        !.prefer = [intent |-> "delete_pending", after |-> d]]
  <2>1. req[c].op \in TwoStepOps /\ u \in VMs /\ row[u] \in Row /\ tasks[u] \in Queues
    BY <1>5, <1>req DEF CommitDelete, CommitDeleteNow, TwoStepOps
  <2>2. PICK d \in {"future", "past"}, e \in {"none", "future"}, n \in 1 .. ClientSeqs :
          /\ Commit(c, r(d), Enqueue(CancelOpen(tasks[u]), n, "delete", e))
          /\ e \in {"none", d} /\ (d = "future" => req[c].op = "delete")
    BY <1>5 DEF CommitDelete, CommitDeleteNow
  <2>3. r(d).delReq /\ r(d).delAfter = d
    BY <2>1 DEF Row
  <2>4. CancelOpen(tasks[u]) \in Queues
    BY <2>1, StatementsKeepType DEF CancelOpen, Open, Rows
  <2>5. Within(tasks[u], Enqueue(CancelOpen(tasks[u]), n, "delete", e), {"none", d})
    <3>1. Within(tasks[u], CancelOpen(tasks[u]), {"none", d})
      BY <2>1, StatementsWithin DEF CancelOpen
    <3>2. Within(CancelOpen(tasks[u]), Enqueue(CancelOpen(tasks[u]), n, "delete", e), {"none", d})
      BY <2>2, <2>4, <1>seq, StatementsWithin
    <3> QED BY <3>1, <3>2, WithinTransitive
  <2>6. CASE u = v
    <3>1. row'[v] = r(d) /\ tasks'[v] = Enqueue(CancelOpen(tasks[u]), n, "delete", e)
      BY <2>2, <2>6 DEF Commit
    <3>2. d = "past" \/ (d = "future" /\ Deletes(c, v))
      BY <2>1, <2>2, <2>6, <1>req DEF Deletes
    <3>3. Sets(v, d)
      BY <1>0, <2>3, <2>5, <2>6, <3>1, <3>2 DEF Sets
    <3> QED BY <3>3 DEF DueStep, Instants
  <2>7. CASE u # v
    BY <2>1, <2>2, <2>7, <1>same DEF Commit
  <2> QED BY <2>6, <2>7
<1>6. ASSUME NEW c \in Clients, CommitRestore(c) PROVE FALSE
  BY <1>6, <1>req DEF CommitRestore, TwoStepOps
<1>7. ASSUME NEW c \in Clients, CommitRetry(c) PROVE DueStep(v)
  <2> DEFINE u == req[c].vm
             s == req[c].seq
             r == [row[u] EXCEPT !.sync = IF row[u].delReq THEN "deleting" ELSE "pending"]
             q == IF tasks[u][s].status = "failed" THEN Requeue(tasks[u], {s}) ELSE tasks[u]
  <2>1. req[c].op \in TwoStepOps /\ u \in VMs /\ Commit(c, r, q)
    BY <1>7, <1>req DEF CommitRetry, TwoStepOps
  <2>2. r.delReq = row[u].delReq /\ r.delAfter = row[u].delAfter
    BY <2>1 DEF Row
  <2>3. Within(tasks[u], q, {"none"})
    BY <2>1, StatementsWithin
  <2> QED BY <2>1, <2>2, <2>3, <1>commit
<1>8. CASE UNCHANGED vars
  BY <1>8, <1>same DEF vars
<1> QED BY <1>1, <1>2, <1>3, <1>4, <1>5, <1>6, <1>7, <1>8
        DEF Server, PauseVMTasks, ResumeVMTasks

\* Picking a task is the only step of the worker that copies a deadline.
LEMMA DueRound ==
  ASSUME TypeOK, Round, NEW v \in VMs, Clean(tasks[v], row[v], batch[v]),
         Announced(v)
  PROVE  DueStep(v)
<1> USE DEF TypeOK
<1>0. row' = row
  BY DEF Round, StartWorker, Start, BeginRound, SelectExpired, QueueExpired,
       ExpiredQueued, CancelSuperseded, PickTasks, PurgeFinished, EndRound, dbVars
<1>keep. ASSUME Within(tasks[v], tasks'[v], {"none"}), batch' = batch PROVE DueStep(v)
  BY <1>0, <1>keep DEF DueStep, Keeps, Deadlines
<1>1. ASSUME NEW S \in SUBSET VMs, Start(S) \/ BeginRound(S) PROVE DueStep(v)
  BY <1>1, <1>keep, StatementsWithin DEF Start, BeginRound, RequeueRunning
<1>2. CASE SelectExpired \/ ExpiredQueued
  BY <1>2, <1>keep, StatementsWithin DEF SelectExpired, ExpiredQueued, dbVars
<1>3. ASSUME NEW u \in VMs, QueueExpired(u) PROVE DueStep(v)
  <2>1. \E n \in Seqs : tasks'[v] \in {tasks[v], Enqueue(tasks[v], n, "delete", "none")}
    BY <1>3 DEF QueueExpired
  <2> QED BY <1>3, <2>1, <1>keep, StatementsWithin DEF QueueExpired
<1>4. CASE CancelSuperseded
  BY <1>4, <1>keep, StatementsWithin DEF CancelSuperseded
<1>5. ASSUME NEW late \in SUBSET VMs, PickTasks(late) PROVE DueStep(v)
  <2>1. batch'[v] = NoJob \/ \E s \in Seqs : batch'[v] = JobOf(v, s)
    <3>1. Pickable(v) \subseteq Seqs
      BY DEF Pickable, Eligible, Rows
    <3>2. CASE \E s \in Pickable(v) : tasks[v][s].status = "pending" \/ v \notin late
      <4>1. (CHOOSE s \in Pickable(v) : TRUE) \in Pickable(v)
        BY <3>2
      <4> QED BY <1>5, <3>1, <3>2, <4>1 DEF PickTasks
    <3>3. CASE ~\E s \in Pickable(v) : tasks[v][s].status = "pending" \/ v \notin late
      BY <1>5, <3>3 DEF PickTasks
    <3> QED BY <3>2, <3>3
  <2>2. row[v].delAfter = "none" => row[v].prefer.after = "none"
    BY DEF Clean, Announced, PreferPresent
  <2>3. ASSUME NEW s \in Seqs
        PROVE  JobOf(v, s).due \in {tasks[v][s].due, row[v].delAfter}
    BY <2>2 DEF JobOf
  <2>4. batch'[v].due \in Deadlines(v) \union {"none", row[v].delAfter}
    BY <2>1, <2>3 DEF NoJob, Deadlines
  <2>5. tasks' = tasks
    BY <1>5 DEF PickTasks, dbVars
  <2> QED BY <1>0, <2>4, <2>5, StatementsWithin DEF DueStep, Keeps
<1>6. ASSUME NEW old, PurgeFinished(old) PROVE DueStep(v)
  BY <1>6, <1>keep, StatementsWithin DEF PurgeFinished
<1>7. ASSUME NEW S, EndRound(S) PROVE DueStep(v)
  BY <1>7, <1>keep, StatementsWithin DEF EndRound
<1> QED BY <1>1, <1>2, <1>3, <1>4, <1>5, <1>6, <1>7 DEF Round, StartWorker

\* The worker neither asks for deletions nor takes them back.
LEMMA DeletionsStand ==
  ASSUME TypeOK, Round \/ Execute \/ Faults, NEW v \in VMs
  PROVE  row'[v].delReq = row[v].delReq /\ row'[v].delAfter = row[v].delAfter
<1> USE DEF TypeOK
<1>1. \/ row' = row
      \/ \E y \in SyncStates : row' = [row EXCEPT ![cur].sync = y]
      \/ row' = [row EXCEPT ![cur] = Deleted(row[cur])]
  <2>1. CASE Round
    BY <2>1 DEF Round, StartWorker, Start, BeginRound, SelectExpired, QueueExpired,
         ExpiredQueued, CancelSuperseded, PickTasks, PurgeFinished, EndRound, dbVars
  <2>2. CASE Execute \/ Faults
    BY <2>2 DEF Execute, Faults, StartTask, FindVM, CloneVM, ConfigureVM, PowerVM, RebootVM,
         DeleteAbsentVM, DeferDelete, RefuseDelete, DestroyVM, MarkDeleted, CancelOutstanding,
         TaskDone, TaskFailed, VMFailed, SkipTask, StartWithoutRecovery, Start, RoundFails,
         PurgeFails, CloneLeftBehind, ConfigureFails, TaskErrs, MarkDeletedFails,
         CancelOutstandingFails, TaskDoneFails, TaskLeftRunning, VMFailedFails, CrashWorker,
         dbVars, SyncStates
  <2> QED BY <2>1, <2>2
<1>2. ASSUME NEW y \in SyncStates, row' = [row EXCEPT ![cur].sync = y]
      PROVE  row'[v].delReq = row[v].delReq /\ row'[v].delAfter = row[v].delAfter
  <2>1. CASE v = cur
    BY <1>2, <2>1 DEF Row
  <2>2. CASE v # cur
    BY <1>2, <2>2
  <2> QED BY <2>1, <2>2
<1>3. CASE row' = [row EXCEPT ![cur] = Deleted(row[cur])]
  <2>1. CASE v = cur
    BY <1>3, <2>1 DEF Row, Deleted
  <2>2. CASE v # cur
    BY <1>3, <2>2
  <2> QED BY <2>1, <2>2
<1> QED BY <1>1, <1>2, <1>3

LEMMA DueExecute ==
  ASSUME TypeOK, Control, Execute \/ Faults, NEW v \in VMs
  PROVE  DueStep(v)
<1> USE DEF TypeOK
<1>exec. ASSUME wpc \in ExecPcs PROVE cur \in VMs /\ batch[cur] # NoJob /\ batch[cur].seq \in Seqs
  BY <1>exec, Executed
<1>pcs. ExecPcs = {"run", "configure", "destroyed", "cancel", "done", "failed", "exhausted"}
  BY DEF ExecPcs, WorkerPcs, RoundPcs
<1>row. row'[v].delReq = row[v].delReq /\ row'[v].delAfter = row[v].delAfter
  BY DeletionsStand
<1>batch. batch'[v] = batch[v] \/ batch'[v] = NoJob
  <2>1. \/ batch' = batch
        \/ \E u : batch' = [batch EXCEPT ![u] = NoJob]
        \/ batch' = [u \in VMs |-> NoJob]
    BY DEF Execute, Faults, StartTask, FindVM, CloneVM, ConfigureVM, PowerVM, RebootVM,
         DeleteAbsentVM, DeferDelete, RefuseDelete, DestroyVM, MarkDeleted, CancelOutstanding,
         TaskDone, TaskFailed, VMFailed, SkipTask, StartWithoutRecovery, Start, RoundFails,
         PurgeFails, CloneLeftBehind, ConfigureFails, TaskErrs, MarkDeletedFails,
         CancelOutstandingFails, TaskDoneFails, TaskLeftRunning, VMFailedFails, CrashWorker,
         Goto, NextTask, AfterFailure
  <2> QED BY <2>1
<1>tasks. ASSUME Within(tasks[v], tasks'[v], {"none"}) PROVE DueStep(v)
  BY <1>tasks, <1>row, <1>batch DEF DueStep, Keeps, Deadlines, NoJob
<1>same. ASSUME tasks' = tasks PROVE DueStep(v)
  BY <1>same, <1>tasks, StatementsWithin
<1>1. ASSUME NEW u \in VMs, StartTask(u) PROVE DueStep(v)
  <2>1. batch[u].seq \in Seqs /\ tasks' = [tasks EXCEPT ![u] = MarkRunning(tasks[u], batch[u].seq)]
    BY <1>1 DEF StartTask, Job
  <2> QED BY <2>1, <1>tasks, StatementsWithin
<1>2. CASE CancelOutstanding
  BY <1>2, <1>tasks, StatementsWithin DEF CancelOutstanding
<1>3. CASE TaskDone \/ TaskFailed
  <2>1. batch[cur].seq \in Seqs
    BY <1>3, <1>exec, <1>pcs DEF TaskDone, TaskFailed
  <2>2. \/ tasks' = [tasks EXCEPT ![cur] = MarkDone(tasks[cur], batch[cur].seq)]
        \/ tasks' = [tasks EXCEPT ![cur] = MarkFailed(tasks[cur], batch[cur].seq)]
    BY <1>3 DEF TaskDone, TaskFailed
  <2> QED BY <2>1, <2>2, <1>tasks, StatementsWithin
<1>4. CASE \/ FindVM \/ CloneVM \/ ConfigureVM \/ PowerVM \/ RebootVM
           \/ DeleteAbsentVM \/ DeferDelete \/ RefuseDelete \/ DestroyVM \/ MarkDeleted
           \/ VMFailed
  BY <1>4, <1>same DEF FindVM, CloneVM, ConfigureVM, PowerVM, RebootVM, DeleteAbsentVM,
       DeferDelete, RefuseDelete, DestroyVM, MarkDeleted, VMFailed, dbVars
<1>5. CASE Faults
  BY <1>5, <1>same DEF Faults, SkipTask, StartWithoutRecovery, Start, RequeueRunning, RoundFails,
       PurgeFails, CloneLeftBehind, ConfigureFails, TaskErrs, MarkDeletedFails,
       CancelOutstandingFails, TaskDoneFails, TaskLeftRunning, VMFailedFails, CrashWorker,
       dbVars
<1> QED BY <1>1, <1>2, <1>3, <1>4, <1>5 DEF Execute

LEMMA DueTime ==
  ASSUME TypeOK, Time, NEW v \in VMs
  PROVE  DueStep(v)
<1> USE DEF TypeOK
<1>same. ASSUME row'[v].delReq = row[v].delReq, row'[v].delAfter = row[v].delAfter,
                Within(tasks[v], tasks'[v], {"none"}), batch'[v] = batch[v]
         PROVE  DueStep(v)
  BY <1>same DEF DueStep, Keeps, Deadlines
<1>1. ASSUME NEW u \in VMs, DeadlinePasses(u) PROVE DueStep(v)
  <2>1. CASE u = v
    <3>1. /\ row'[v] = [row[v] EXCEPT !.delAfter = Reached(row[v].delAfter),
                                      !.prefer = PreferReached(row[v].prefer)]
          /\ tasks'[v] = DeadlinesReached(tasks[v])
          /\ batch'[v] = [batch[v] EXCEPT !.due = Reached(batch[v].due)]
      BY <1>1, <2>1 DEF DeadlinePasses
    <3>2. row'[v].delReq = row[v].delReq /\ row'[v].delAfter = Reached(row[v].delAfter)
      BY <3>1 DEF Row
    <3>3. batch'[v].due = Reached(batch[v].due)
      BY <3>1 DEF Job, NoJob
    <3>4. \A s \in Seqs : tasks'[v][s].due = Reached(tasks[v][s].due)
      BY <3>1 DEF DeadlinesReached, Queues, Task
    <3> QED BY <3>2, <3>3, <3>4 DEF DueStep, Passes
  <2>2. CASE u # v
    <3>1. row'[v] = row[v] /\ tasks'[v] = tasks[v] /\ batch'[v] = batch[v]
      BY <1>1, <2>2 DEF DeadlinePasses
    <3> QED BY <3>1, <1>same, StatementsWithin
  <2> QED BY <2>1, <2>2
<1> QED BY <1>1 DEF Time

LEMMA DueSteps ==
  ASSUME IInv, NoneRestores, [Next]_vars, NEW v \in VMs, Announced(v)
  PROVE  DueStep(v)
<1>1. /\ TypeOK /\ Control /\ Unborn(v)
      /\ Clean(tasks[v], row[v], batch[v])
  BY DEF IInv, VmInv
<1> QED BY <1>1, DueServer, DueRound, DueExecute, DueTime DEF Next

\* Deadlines come with a deletion ...
LEMMA AnnouncedKept ==
  ASSUME TypeOK, NEW v \in VMs, Clean(tasks[v], row[v], batch[v]), Announced(v), DueStep(v)
  PROVE  Announced(v)'
<1>1. row[v].delAfter \in Instants /\ (~row[v].delReq => row[v].delAfter = "none")
  BY DEF TypeOK, Row, Clean
<1>2. ASSUME NEW d \in Instants, Sets(v, d) PROVE Announced(v)'
  BY <1>2 DEF Sets, Announced
<1>3. CASE row'[v].delReq = row[v].delReq /\ Keeps(v)
  <2>1. Deadlines(v)' \subseteq Deadlines(v) \union {"none", row[v].delAfter}
    BY <1>3 DEF Keeps, Within, Deadlines
  <2> QED BY <1>1, <1>3, <2>1 DEF Keeps, Announced
<1>4. CASE row'[v].delReq = row[v].delReq /\ Passes(v)
  <2>1. \A d \in Deadlines(v)' : \E e \in Deadlines(v) : d = Reached(e)
    BY <1>4 DEF Passes, Deadlines
  <2> QED BY <1>1, <1>4, <2>1 DEF Passes, Announced, Reached, Instants
<1> QED BY <1>2, <1>3, <1>4 DEF DueStep

\* ... and no step but a second deletion brings a copy of one forward.
LEMMA OnTimeKept ==
  ASSUME TypeOK, DeletesFresh, NEW v \in VMs, Announced(v), OnTime(v), DueStep(v)
  PROVE  OnTime(v)'
<1>1. row[v].delAfter \in Instants
  BY DEF TypeOK, Row
<1>2. ASSUME NEW d \in Instants, Sets(v, d) PROVE OnTime(v)'
  <2>1. Deadlines(v)' \subseteq Deadlines(v) \union {"none", d}
    BY <1>2 DEF Sets, Within, Deadlines
  <2>2. d = "future" => ~row[v].delReq
    BY <1>2 DEF Sets, Deletes, DeletesFresh
  <2> QED BY <1>2, <2>1, <2>2 DEF Sets, Announced, OnTime
<1>3. CASE row'[v].delReq = row[v].delReq /\ Keeps(v)
  <2>1. Deadlines(v)' \subseteq Deadlines(v) \union {"none", row[v].delAfter}
    BY <1>3 DEF Keeps, Within, Deadlines
  <2> QED BY <1>1, <1>3, <2>1 DEF Keeps, OnTime
<1>4. CASE row'[v].delReq = row[v].delReq /\ Passes(v)
  BY <1>1, <1>4 DEF Passes, OnTime, Reached, Instants
<1> QED BY <1>2, <1>3, <1>4 DEF DueStep

\* The worker does not touch requests.
LEMMA WorkerAlone ==
  ASSUME Round \/ Execute \/ Faults
  PROVE  req' = req
BY DEF Round, StartWorker, Start, BeginRound, SelectExpired, QueueExpired,
     ExpiredQueued, CancelSuperseded, PickTasks, PurgeFinished, EndRound,
     Execute, Faults, StartTask, FindVM, CloneVM, ConfigureVM, PowerVM, RebootVM,
     DeleteAbsentVM, DeferDelete, RefuseDelete, DestroyVM, MarkDeleted, CancelOutstanding,
     TaskDone, TaskFailed, VMFailed, SkipTask, StartWithoutRecovery, RoundFails,
     PurgeFails, CloneLeftBehind, ConfigureFails, TaskErrs, MarkDeletedFails,
     CancelOutstandingFails, TaskDoneFails, TaskLeftRunning, VMFailedFails, CrashWorker

\* A deletion that was checked is still the first one when it commits, as
\* nobody else has a request under way.
LEMMA DeletesFreshKept ==
  ASSUME OneAtATime, TypeOK, DeletesFresh, [Next]_vars
  PROVE  DeletesFresh'
<1> SUFFICES ASSUME NEW c \in Clients, req'[c] # NoRequest, req'[c].op = "delete"
             PROVE  ~row'[req'[c].vm].delReq
  BY DEF DeletesFresh
<1> USE DEF TypeOK
<1>one. \A b \in Clients : b = c
  BY DEF OneAtATime
<1>same. ASSUME req'[c] # NoRequest => req[c] # NoRequest /\ req'[c].op = req[c].op /\ req'[c].vm = req[c].vm,
                \A v \in VMs : row'[v].delReq => row[v].delReq
         PROVE  ~row'[req'[c].vm].delReq
  <2>1. req[c].vm \in VMs
    BY <1>same DEF Request
  <2> QED BY <1>same, <2>1 DEF DeletesFresh
<1>commit. ASSUME NEW b \in Clients, NEW r, NEW q, Commit(b, r, q) PROVE FALSE
  BY <1>commit, <1>one DEF Commit
<1>1. ASSUME NEW v \in VMs, CreateVM(v)
      PROVE  ~row'[req'[c].vm].delReq
  <2>1. req' = req /\ \A u \in VMs : row'[u].delReq => row[u].delReq
    BY <1>1 DEF CreateVM, NoRow
  <2> QED BY <2>1, <1>same
<1>2. ASSUME NEW v \in VMs, NEW p \in BOOLEAN, SetPaused(v, p)
      PROVE  ~row'[req'[c].vm].delReq
  <2>1. req' = req /\ \A u \in VMs : row'[u].delReq => row[u].delReq
    BY <1>2 DEF SetPaused, Row
  <2> QED BY <2>1, <1>same
<1>3. ASSUME NEW b \in Clients, NEW op \in Ops \intersect TwoStepOps, NEW v \in VMs, NEW s \in Seqs,
             Load(b, op, v, s)
      PROVE  ~row'[req'[c].vm].delReq
  <2>1. b = c /\ row' = row
    BY <1>3, <1>one DEF Load, dbVars
  <2>2. req'[c].op = op /\ req'[c].vm = v
    BY <1>3, <2>1 DEF Load
  <2>3. op = "delete" => ~row[v].delReq
    BY <1>3 DEF Load, MayLoad, PendingDeletion
  <2> QED BY <2>1, <2>2, <2>3
<1>4. ASSUME NEW b \in Clients, RequestFails(b) PROVE FALSE
  BY <1>4, <1>one DEF RequestFails
<1>5. ASSUME NEW b \in Clients,
             \/ CommitPatch(b) \/ CommitPower(b) \/ CommitDelete(b)
             \/ CommitDeleteNow(b) \/ CommitRestore(b) \/ CommitRetry(b)
      PROVE  FALSE
  BY <1>5, <1>commit DEF CommitPatch, CommitPower, CommitDelete, CommitDeleteNow,
       CommitRestore, CommitRetry
<1>6. CASE Round \/ Execute \/ Faults
  <2>1. req' = req
    BY <1>6, WorkerAlone
  <2>2. ASSUME NEW v \in VMs PROVE row'[v].delReq => row[v].delReq
    BY <1>6, DeletionsStand
  <2> QED BY <2>1, <2>2, <1>same
<1>7. CASE Time
  <2>1. ASSUME NEW v \in VMs, NEW u \in VMs, DeadlinePasses(u)
        PROVE  row'[v].delReq = row[v].delReq
    <3>1. PICK d, p : \/ row'[v] = row[v]
                      \/ row'[v] = [row[v] EXCEPT !.delAfter = d, !.prefer = p]
      BY <2>1 DEF DeadlinePasses
    <3> QED BY <3>1 DEF Row
  <2>2. ASSUME NEW u \in VMs, DeadlinePasses(u), req'[c] # NoRequest
        PROVE  req[c] # NoRequest /\ req'[c].op = req[c].op /\ req'[c].vm = req[c].vm
    <3>1. CASE req'[c] = req[c]
      BY <2>2, <3>1
    <3>2. CASE req'[c] # req[c]
      <4>1. req[c] \in Request /\ req[c] # NoRequest
            /\ req'[c] = [req[c] EXCEPT !.prefer = PreferReached(req[c].prefer)]
        BY <2>2, <3>2 DEF DeadlinePasses
      <4> QED BY <4>1 DEF Request
    <3> QED BY <3>1, <3>2
  <2> QED BY <1>7, <2>1, <2>2, <1>same DEF Time
<1>8. CASE UNCHANGED vars
  BY <1>8, <1>same DEF vars
<1> QED BY <1>1, <1>2, <1>3, <1>4, <1>5, <1>6, <1>7, <1>8
        DEF Next, Server, PauseVMTasks, ResumeVMTasks

LEMMA NoneRestoresKept ==
  ASSUME NoRestores, TypeOK, NoneRestores, [Next]_vars
  PROVE  NoneRestores'
<1> SUFFICES ASSUME NEW c \in Clients, req'[c] # NoRequest
             PROVE  req'[c].op # "restore"
  BY DEF NoneRestores
<1> USE DEF TypeOK
<1>same. ASSUME req'[c] \in {req[c], NoRequest} PROVE req'[c].op # "restore"
  BY <1>same DEF NoneRestores
<1>1. ASSUME NEW b \in Clients, NEW op \in Ops \intersect TwoStepOps, NEW v \in VMs, NEW s \in Seqs,
             Load(b, op, v, s)
      PROVE  req'[c].op # "restore"
  BY <1>1, <1>same DEF Load, NoRestores
<1>2. ASSUME NEW u \in VMs, DeadlinePasses(u) PROVE req'[c].op # "restore"
  <2>1. CASE req'[c] = req[c]
    BY <2>1, <1>same
  <2>2. CASE req'[c] # req[c]
    <3>1. /\ req[c] \in Request /\ req[c] # NoRequest
          /\ req'[c] = [req[c] EXCEPT !.prefer = PreferReached(req[c].prefer)]
      BY <1>2, <2>2 DEF DeadlinePasses
    <3> QED BY <3>1 DEF Request, NoneRestores
  <2> QED BY <2>1, <2>2
<1>3. ASSUME NEW b \in Clients,
             \/ RequestFails(b) \/ CommitPatch(b) \/ CommitPower(b) \/ CommitDelete(b)
             \/ CommitDeleteNow(b) \/ CommitRestore(b) \/ CommitRetry(b)
      PROVE  req'[c].op # "restore"
  <2>1. req' = [req EXCEPT ![b] = NoRequest]
    BY <1>3 DEF RequestFails, CommitPatch, CommitPower, CommitDelete, CommitDeleteNow,
         CommitRestore, CommitRetry, Commit
  <2> QED BY <2>1, <1>same
<1>4. ASSUME NEW v \in VMs, CreateVM(v) \/ PauseVMTasks(v) \/ ResumeVMTasks(v)
      PROVE  req'[c].op # "restore"
  BY <1>4, <1>same DEF CreateVM, PauseVMTasks, ResumeVMTasks, SetPaused
<1>5. CASE Round \/ Execute \/ Faults
  BY <1>5, <1>same, WorkerAlone
<1>6. CASE UNCHANGED vars
  BY <1>6, <1>same DEF vars
<1> QED BY <1>1, <1>2, <1>3, <1>4, <1>5, <1>6 DEF Next, Server, Time

\* Unless deletions are taken back, deadlines are kept only for VMs whose
\* deletion was asked for, whatever requests come at the same time.
THEOREM AnnouncedInvariance ==
  NoRestores => (Spec => [](NoneRestores /\ \A v \in VMs : Announced(v)))
<1> SUFFICES ASSUME NoRestores
             PROVE  Spec => [](NoneRestores /\ \A v \in VMs : Announced(v))
  OBVIOUS
<1> DEFINE I == NoneRestores /\ \A v \in VMs : Announced(v)
<1>1. Init => I
  BY DEF Init, NoneRestores, Announced, Deadlines, NoRow, NoJob, EmptyQueue, NoTask
<1>2. IInv /\ I /\ [Next]_vars => I'
  <2> SUFFICES ASSUME IInv, I, [Next]_vars PROVE I'
    OBVIOUS
  <2>1. ASSUME NEW v \in VMs PROVE Announced(v)'
    BY DueSteps, AnnouncedKept DEF IInv, VmInv
  <2>2. NoneRestores'
    BY NoneRestoresKept DEF IInv
  <2> QED BY <2>1, <2>2
<1> QED BY <1>1, <1>2, Invariance, PTL DEF Spec

\* Deletions are on time: while nobody restores and requests come one after
\* the other, no copy of a deadline is over before the row's.
THEOREM DueInvariance == NoRestores /\ OneAtATime => (Spec => []DueInv)
<1> SUFFICES ASSUME NoRestores, OneAtATime
             PROVE  Spec => []DueInv
  OBVIOUS
<1> DEFINE I == NoneRestores /\ \A v \in VMs : Announced(v)
           J == DeletesFresh /\ \A v \in VMs : OnTime(v)
<1>1. Spec => []I
  BY AnnouncedInvariance
<1>2. Init => J
  BY DEF Init, DeletesFresh, OnTime, NoRow
<1>3. IInv /\ I /\ J /\ [Next]_vars => J'
  <2> SUFFICES ASSUME IInv, I, J, [Next]_vars PROVE J'
    OBVIOUS
  <2>1. ASSUME NEW v \in VMs PROVE OnTime(v)'
    BY DueSteps, OnTimeKept DEF IInv
  <2>2. DeletesFresh'
    BY DeletesFreshKept DEF IInv
  <2> QED BY <2>1, <2>2
<1>4. I /\ J => DueInv
  BY DEF DueInv
<1> QED BY <1>1, <1>2, <1>3, <1>4, Invariance, PTL DEF Spec

LEMMA OnlyDestroyVM ==
  ASSUME [Next]_vars, wpc = "run", wpc' = "destroyed"
  PROVE  DestroyVM
BY DEF Next, vars, Server, CreateVM, PauseVMTasks, ResumeVMTasks, SetPaused, Load,
       RequestFails, CommitPatch, CommitPower, CommitDelete, CommitDeleteNow,
       CommitRestore, CommitRetry, Commit, workerVars,
       Round, StartWorker, Start, BeginRound, SelectExpired, QueueExpired,
       ExpiredQueued, CancelSuperseded, PickTasks, PurgeFinished, EndRound,
       Execute, Faults, StartTask, FindVM, CloneVM, ConfigureVM, PowerVM, RebootVM,
       DeleteAbsentVM, DeferDelete, RefuseDelete, MarkDeleted, CancelOutstanding,
       TaskDone, TaskFailed, VMFailed, SkipTask, StartWithoutRecovery, RoundFails,
       PurgeFails, CloneLeftBehind, ConfigureFails, TaskErrs, MarkDeletedFails,
       CancelOutstandingFails, TaskDoneFails, TaskLeftRunning, VMFailedFails, CrashWorker,
       Goto, NextTask, AfterFailure, BatchDone, Time, DeadlinePasses

\* The worker destroys a VM (syncDelete's DeleteVM) only while its deletion is
\* requested, if nobody restores: of the requests that may come at the same time
\* a patch or power request that was loaded before the deletion and writes back
\* the prefer_status_json without it (handlePatchVM, handlePowerVM) is one.
THEOREM DestroyedOnRequest ==
  NoRestores => (Spec => [][\A v \in VMs : wpc = "run" /\ wpc' = "destroyed" /\ cur = v
                              => row[v].delReq]_vars)
<1> SUFFICES ASSUME NoRestores
             PROVE  Spec => [][\A v \in VMs : wpc = "run" /\ wpc' = "destroyed" /\ cur = v
                                 => row[v].delReq]_vars
  OBVIOUS
<1> DEFINE A == \A v \in VMs : wpc = "run" /\ wpc' = "destroyed" /\ cur = v => row[v].delReq
           I == NoneRestores /\ \A v \in VMs : Announced(v)
<1>1. I /\ [Next]_vars => A
  <2> SUFFICES ASSUME I, [Next]_vars, NEW v \in VMs,
                      wpc = "run", wpc' = "destroyed", cur = v
               PROVE  row[v].delReq
    OBVIOUS
  <2>1. "past" \in Deadlines(v)
    BY OnlyDestroyVM DEF DestroyVM, Deadlines
  <2> QED BY <2>1 DEF Announced
<1>2. I /\ [Next]_vars => [A]_vars
  BY <1>1
<1>3. Spec => []I
  BY AnnouncedInvariance
<1> QED BY <1>2, <1>3, PTL DEF Spec

\* A VM is destroyed only while its deletion is requested and due, if nobody
\* restores and requests come one after the other.
THEOREM DestroyedWhenDueHolds == NoRestores /\ OneAtATime => (Spec => DestroyedWhenDue)
<1> SUFFICES ASSUME NoRestores, OneAtATime
             PROVE  Spec => DestroyedWhenDue
  OBVIOUS
<1> DEFINE A == \A v \in VMs : wpc = "run" /\ wpc' = "destroyed" /\ cur = v
                  => row[v].delReq /\ row[v].delAfter = "past"
<1>1. IInv /\ DueInv /\ [Next]_vars => A
  <2> SUFFICES ASSUME IInv, DueInv, [Next]_vars, NEW v \in VMs,
                      wpc = "run", wpc' = "destroyed", cur = v
               PROVE  row[v].delReq /\ row[v].delAfter = "past"
    OBVIOUS
  <2>1. "past" \in Deadlines(v)
    BY OnlyDestroyVM DEF DestroyVM, Deadlines
  <2>2. Announced(v) /\ OnTime(v) /\ row[v].delAfter \in Instants
    BY DEF DueInv, IInv, TypeOK, Row
  <2> QED BY <2>1, <2>2 DEF Announced, OnTime, Instants
<1>2. IInv /\ DueInv /\ [Next]_vars => [A]_vars
  BY <1>1
<1> QED BY <1>2, Invariance, DueInvariance, PTL DEF Spec, DestroyedWhenDue

--------------------------------------------------------------------------------
(* The queue.                                                              *)

OpenOf(v) == Open(tasks[v]) \union Claimed(batch[v])

LEMMA OpenTypes ==
  ASSUME TypeOK'
  PROVE  OpenTasks' \in [VMs -> SUBSET Seqs]
<1>1. ASSUME NEW v \in VMs
      PROVE  Open(tasks'[v]) \subseteq Seqs /\ Claimed(batch'[v]) \subseteq Seqs
  BY DEF Open, Rows, TypeOK, Job, Claimed
<1> QED BY <1>1 DEF OpenTasks

\* Every open task has a row.
LEMMA OpenHaveRows ==
  ASSUME NEW v \in VMs, InOrder(tasks[v], batch[v])
  PROVE  OpenOf(v) \subseteq Rows(tasks[v])
BY DEF OpenOf, Claimed, Open, InOrder

\* What becomes open comes behind what is.
LEMMA OpenContinues ==
  ASSUME TypeOK, NEW v \in VMs, QueueStep(v), InOrder(tasks[v], batch[v])
  PROVE  \A n \in OpenOf(v)' \ OpenOf(v), s \in OpenOf(v) : n > s
<1>q. tasks[v] \in Queues
  BY DEF TypeOK
<1>r. OpenOf(v) \subseteq Rows(tasks[v])
  BY OpenHaveRows
<1>1. CASE Followed(v)
  <2>1. Claimed(batch'[v]) \subseteq Claimed(batch[v])
    BY <1>1 DEF Followed, Kept, Claimed
  <2>2. \A n \in Open(tasks'[v]) :
          n \in Open(tasks[v]) \/ \A t \in Rows(tasks[v]) : t < n
    BY <1>1 DEF Followed, Follows
  <2>3. Open(tasks'[v]) \subseteq Nat /\ Rows(tasks[v]) \subseteq Nat
    BY DEF Open, Rows, Seqs
  <2> QED BY <1>r, <2>1, <2>2, <2>3 DEF OpenOf
<1>2. CASE Started(v) \/ Failed(v)
  <2>1. batch[v] # NoJob /\ batch[v].seq \in Rows(tasks[v])
    BY <1>2 DEF Started, Failed, InOrder
  <2>2. Open(tasks'[v]) = Open(tasks[v]) \union {batch[v].seq}
    BY <1>q, <1>2, <2>1, Marked DEF Started, Failed
  <2>3. Claimed(batch'[v]) \subseteq {batch[v].seq}
    BY <1>2 DEF Started, Failed, Claimed
  <2> QED BY <2>1, <2>2, <2>3 DEF OpenOf, Claimed
<1>3. CASE Picked(v)
  <2>1. PICK p \in Eligible(tasks[v]) : batch'[v] = JobOf(v, p)
    BY <1>3 DEF Picked, Pickable
  <2>2. p \in Open(tasks[v])
    BY <2>1 DEF Eligible, Retryable, Open
  <2>3. Claimed(batch'[v]) \subseteq Open(tasks[v])
    BY <2>1, <2>2 DEF Claimed, JobOf
  <2> QED BY <1>3, <2>3 DEF Picked, OpenOf
<1>4. CASE Purged(v)
  <2>1. Open(tasks'[v]) \subseteq Open(tasks[v])
    BY <1>q, <1>4, PurgedRows DEF NoTask, Open, Rows
  <2> QED BY <1>4, <2>1 DEF Purged, OpenOf, Claimed
<1> QED BY <1>1, <1>2, <1>3, <1>4 DEF QueueStep

--------------------------------------------------------------------------------
(* The steps with which the worker takes a task up or leaves one.          *)

\* The rows after TaskDone, TaskFailed, or a step that writes nothing.
LeftRows(s) ==
  \/ UNCHANGED tasks
  \/ tasks' = [tasks EXCEPT ![cur] = MarkDone(@, s)]
  \/ tasks' = [tasks EXCEPT ![cur] = MarkFailed(@, s)]

Leaves == cur # NoVM /\ NextTask /\ LeftRows(batch[cur].seq)

LEMMA WorkerMoves ==
  ASSUME TypeOK, Control, [Next]_vars, cur' # cur
  PROVE  (\E v \in VMs : StartTask(v)) \/ Leaves \/ CrashWorker
<1>1. CASE Server \/ Time \/ UNCHANGED vars
  BY <1>1 DEF Server, CreateVM, PauseVMTasks, ResumeVMTasks, SetPaused, Load, RequestFails,
       CommitPatch, CommitPower, CommitDelete, CommitDeleteNow, CommitRestore, CommitRetry,
       Commit, workerVars, Time, DeadlinePasses, vars
<1>2. CASE Round
  BY <1>2 DEF Round, StartWorker, Start, BeginRound, SelectExpired, QueueExpired,
       ExpiredQueued, CancelSuperseded, PickTasks, PurgeFinished, EndRound
<1>pcs. wpc \in {"done", "failed", "exhausted"} => cur # NoVM
  BY DEF Control, ExecPcs, RoundPcs, WorkerPcs
<1>3. CASE Execute
  <2>1. CASE FindVM \/ CloneVM \/ ConfigureVM \/ PowerVM \/ RebootVM \/ DeleteAbsentVM
             \/ DeferDelete \/ RefuseDelete \/ DestroyVM \/ MarkDeleted \/ CancelOutstanding
    BY <2>1 DEF FindVM, CloneVM, ConfigureVM, PowerVM, RebootVM, DeleteAbsentVM,
         DeferDelete, RefuseDelete, DestroyVM, MarkDeleted, CancelOutstanding, Goto
  <2>2. CASE TaskDone \/ VMFailed
    BY <1>pcs, <2>2 DEF TaskDone, VMFailed, Leaves, LeftRows
  <2>3. CASE TaskFailed
    BY <1>pcs, <2>3 DEF TaskFailed, AfterFailure, Goto, Leaves, LeftRows
  <2> QED BY <1>3, <2>1, <2>2, <2>3 DEF Execute
<1>4. CASE Faults
  <2>1. CASE StartWithoutRecovery \/ RoundFails \/ PurgeFails \/ CloneLeftBehind
             \/ ConfigureFails \/ TaskErrs \/ MarkDeletedFails \/ CancelOutstandingFails
             \/ TaskDoneFails \/ \E v \in VMs : SkipTask(v)
    BY <2>1 DEF StartWithoutRecovery, Start, RoundFails, PurgeFails, CloneLeftBehind,
         ConfigureFails, TaskErrs, MarkDeletedFails, CancelOutstandingFails,
         TaskDoneFails, SkipTask, Goto
  <2>2. CASE TaskLeftRunning \/ VMFailedFails
    BY <1>pcs, <2>2 DEF TaskLeftRunning, VMFailedFails, AfterFailure, Goto, dbVars,
         Leaves, LeftRows
  <2> QED BY <1>4, <2>1, <2>2 DEF Faults
<1> QED BY <1>1, <1>2, <1>3, <1>4 DEF Next

--------------------------------------------------------------------------------
(* The refinement.                                                         *)

LEMMA Mapping ==
  /\ \A v \in VMs : OpenTasks[v] = OpenOf(v)
  /\ cur = NoVM => InExecution = Nothing
  /\ cur # NoVM => /\ InExecution # Nothing
                   /\ InExecution.vm = cur
                   /\ InExecution.seq = batch[cur].seq
BY DEF OpenTasks, OpenOf, InExecution, Nothing

LEMMA RefinesInit == Init => Queue!Init
<1> SUFFICES ASSUME Init PROVE Queue!Init
  OBVIOUS
<1>1. ASSUME NEW v \in VMs PROVE Open(tasks[v]) \union Claimed(batch[v]) = {}
  BY DEF Init, EmptyQueue, NoTask, Open, Rows, Claimed
<1>2. OpenTasks = [v \in VMs |-> {}]
  BY <1>1 DEF OpenTasks
<1>3. InExecution = Nothing
  BY DEF Init, InExecution
<1> QED BY <1>2, <1>3 DEF Queue!Init

\* Whatever the handlers and the worker do short of taking up or leaving a
\* task keeps the order of the queues.
LEMMA RefinesChange ==
  ASSUME IInv, [Next]_vars, TypeOK', Control', cur' = cur
  PROVE  Queue!Change
<1>1. ASSUME NEW v \in VMs
      PROVE  QueueStep(v) /\ InOrder(tasks[v], batch[v])
  BY QueueSteps DEF IInv, VmInv
<1>2. OpenTasks' \in [VMs -> SUBSET Seqs]
  BY OpenTypes
<1>3. \A v \in VMs : \A n \in OpenTasks'[v] \ OpenTasks[v], s \in OpenTasks[v] : n > s
  BY <1>1, OpenContinues DEF IInv, OpenTasks, OpenOf
<1>4. ASSUME cur # NoVM
      PROVE  /\ batch'[cur] # NoJob
             /\ batch'[cur].seq = batch[cur].seq
  <2>1. cur \in VMs /\ batch[cur] # NoJob /\ batch'[cur] # NoJob
    BY <1>4 DEF IInv, TypeOK, Control
  <2> QED BY <1>1, <1>4, <2>1
             DEF QueueStep, Followed, Kept, Started, Failed, Picked, Purged
<1>5. InExecution' = InExecution
  BY <1>4 DEF InExecution
<1>6. InExecution # Nothing => InExecution.seq \in OpenTasks'[InExecution.vm]
  <2> SUFFICES ASSUME cur # NoVM PROVE batch[cur].seq \in OpenTasks'[cur]
    BY Mapping
  <2>1. cur \in VMs
    BY DEF IInv, TypeOK
  <2> QED BY <1>4, <2>1 DEF OpenTasks, Claimed
<1> QED BY <1>2, <1>3, <1>5, <1>6 DEF Queue!Change, Queue!Continues

\* The worker takes up the first open task of its VM.
LEMMA RefinesBegin ==
  ASSUME IInv, TypeOK', NEW v \in VMs, StartTask(v)
  PROVE  \E s \in Seqs : Queue!Begin(v, s)
<1>1. batch[v] # NoJob /\ batch[v].seq \in Seqs /\ tasks[v] \in Queues
  BY DEF StartTask, IInv, TypeOK, Job
<1> DEFINE s == batch[v].seq
<1>2. cur = NoVM
  BY DEF IInv, Control, StartTask, ExecPcs, WorkerPcs
<1>3. s \in Rows(tasks[v]) /\ IsHead(tasks[v], s)
  BY <1>1 DEF IInv, VmInv, InOrder
<1>4. Queue!First(v, s)
  BY <1>1, <1>3 DEF Queue!First, OpenTasks, Claimed, IsHead, Seqs
<1>5. ASSUME NEW w \in VMs
      PROVE  Open(tasks'[w]) \union Claimed(batch'[w]) = Open(tasks[w]) \union Claimed(batch[w])
  <2>1. CASE w # v
    BY <2>1 DEF StartTask, IInv, TypeOK
  <2>2. CASE w = v
    <3>1. tasks'[v] = MarkRunning(tasks[v], s)
      BY DEF StartTask, IInv, TypeOK
    <3>2. Open(tasks'[v]) = Open(tasks[v]) \union {s}
      BY <1>1, <1>3, <3>1, Marked
    <3> QED BY <1>1, <2>2, <3>2 DEF StartTask, Claimed
  <2> QED BY <2>1, <2>2
<1>6. OpenTasks' = OpenTasks
  BY <1>5 DEF OpenTasks
<1>7. InExecution = Nothing /\ InExecution' = [vm |-> v, seq |-> s]
  BY <1>2, Nulls DEF InExecution, StartTask
<1>8. Queue!Begin(v, s)
  BY <1>4, <1>6, <1>7 DEF Queue!Begin
<1> QED BY <1>1, <1>8

\* The worker leaves its task, which is closed or stays the first.
LEMMA RefinesEnd ==
  ASSUME IInv, Leaves
  PROVE  Queue!End
<1> DEFINE s == batch[cur].seq
           q == tasks[cur]
<1>1. cur \in VMs /\ batch[cur] # NoJob /\ s \in Seqs /\ q \in Queues
      /\ s \in Rows(q) /\ batch \in [VMs -> Job \union {NoJob}] /\ tasks \in [VMs -> Queues]
  BY DEF Leaves, IInv, TypeOK, Control, Job, VmInv, InOrder
<1>2. InExecution # Nothing /\ InExecution.vm = cur /\ InExecution.seq = s
  BY Mapping DEF Leaves
<1>3. InExecution' = Nothing
  BY DEF Leaves, NextTask, InExecution
<1>4. OpenTasks[cur] = Open(q) \union {s}
  BY <1>1 DEF OpenTasks, Claimed
<1>5. ASSUME NEW w \in VMs, w # cur
      PROVE  OpenTasks'[w] = OpenTasks[w]
  BY <1>1, <1>5 DEF OpenTasks, Leaves, LeftRows, NextTask
<1>6. OpenTasks'[cur] = Open(tasks'[cur])
  BY <1>1 DEF OpenTasks, Claimed, Leaves, NextTask
<1>7. OpenTasks'[cur] \in {OpenTasks[cur], OpenTasks[cur] \ {s}}
  <2>1. CASE UNCHANGED tasks
    BY <1>4, <1>6, <2>1
  <2>2. CASE tasks' = [tasks EXCEPT ![cur] = MarkDone(@, s)]
    <3>1. tasks'[cur] = MarkDone(q, s)
      BY <1>1, <2>2
    <3>2. Open(tasks'[cur]) = Open(q) \ {s}
      BY <1>1, <3>1 DEF MarkDone, Open, Rows, Queues, Task
    <3> QED BY <1>4, <1>6, <3>2
  <2>3. CASE tasks' = [tasks EXCEPT ![cur] = MarkFailed(@, s)]
    <3>1. tasks'[cur] = MarkFailed(q, s)
      BY <1>1, <2>3
    <3>2. Open(tasks'[cur]) = Open(q) \union {s}
      BY <1>1, <3>1, Marked
    <3> QED BY <1>4, <1>6, <3>2
  <2> QED BY <2>1, <2>2, <2>3 DEF Leaves, LeftRows
<1>8. \/ OpenTasks' = OpenTasks
      \/ OpenTasks' = [OpenTasks EXCEPT ![cur] = OpenTasks[cur] \ {s}]
  <2> DEFINE O == OpenTasks
             P == OpenTasks'
  <2>1. DOMAIN O = VMs /\ O = [v \in VMs |-> O[v]] /\ P = [v \in VMs |-> P[v]]
    BY DEF OpenTasks
  <2>2. /\ \A w \in VMs : w # cur => P[w] = O[w]
        /\ P[cur] = O[cur] \/ P[cur] = O[cur] \ {s}
    BY <1>5, <1>7
  <2> HIDE DEF O, P, s
  <2>3. P = O \/ P = [O EXCEPT ![cur] = O[cur] \ {s}]
    <3>1. CASE P[cur] = O[cur]
      BY <2>1, <2>2, <3>1
    <3>2. CASE P[cur] = O[cur] \ {s}
      <4>1. \A w \in VMs : P[w] = [O EXCEPT ![cur] = O[cur] \ {s}][w]
        BY <2>1, <2>2, <3>2
      <4> QED BY <2>1, <4>1
    <3> QED BY <2>2, <3>1, <3>2
  <2> QED BY <2>3 DEF O, P, s
<1> QED BY <1>2, <1>3, <1>8 DEF Queue!End

\* The worker dies and its batch with it.
LEMMA RefinesDie ==
  ASSUME IInv, TypeOK', CrashWorker
  PROVE  Queue!Die
<1>1. InExecution' = Nothing
  BY DEF CrashWorker, InExecution
<1>2. \A v \in VMs : OpenTasks'[v] \subseteq OpenTasks[v]
  BY DEF CrashWorker, dbVars, OpenTasks, Claimed
<1>3. OpenTasks' \in [VMs -> SUBSET Seqs]
  BY OpenTypes
<1> QED BY <1>1, <1>2, <1>3 DEF Queue!Die

\* VmLifecycle implements SerialQueue: whatever handlers, retries, recovery,
\* purging and crashes do to rows, statuses and copies, the tasks of a VM are
\* queued at the back and carried out from the front, one at a time.
THEOREM QueuesAreSerialHolds == Spec => QueuesAreSerial
<1>1. IInv /\ IInv' /\ [Next]_vars => [Queue!Next]_(Queue!vars)
  <2> SUFFICES ASSUME IInv, IInv', [Next]_vars PROVE Queue!Next
    OBVIOUS
  <2>1. TypeOK /\ Control /\ TypeOK' /\ Control'
    BY DEF IInv
  <2>2. CASE cur' = cur
    BY <2>1, <2>2, RefinesChange DEF Queue!Next
  <2>3. CASE cur' # cur
    BY <2>1, <2>3, WorkerMoves, RefinesBegin, RefinesEnd, RefinesDie DEF Queue!Next
  <2> QED BY <2>2, <2>3
<1> QED BY <1>1, RefinesInit, Invariance, PTL DEF Spec, QueuesAreSerial, Queue!Spec
================================================================================
