------------------------------ MODULE Maintenance ------------------------------
(***************************************************************************)
(* The worker's rounds as maintenance_tasks sees them (Run, syncOnce,      *)
(* ensureMaintenanceTasks, scanPVE and the statements that mark, recover   *)
(* and purge rows).  What a scan finds is Inventory's, what the worker     *)
(* does with vm_tasks is VmLifecycle's; here they are steps of the round.  *)
(*                                                                         *)
(* Time is the age of a row, in ticks since it was last written: for a     *)
(* finished row updated_at and finished_at are the same moment.            *)
(***************************************************************************)
EXTENDS Naturals, Sequences, FiniteSets, FiniteSetsExt

CONSTANTS
  Clusters,
  RetryAfter,   \* maintenanceTaskRetryAfter
  Interval,     \* maintenanceTaskInterval
  StaleAfter,   \* abandonedRunningTaskAfter
  PurgeAfter,   \* 24 hours; bound: rows grow no older
  Limit,        \* LIMIT of pendingMaintenanceTasks
  MaxRows       \* bound: no further row falls due beyond as many rows

ASSUME AgesAssumption ==
  /\ {RetryAfter, Interval, StaleAfter, PurgeAfter} \subseteq Nat
  /\ 0 < RetryAfter /\ RetryAfter < Interval /\ Interval < StaleAfter /\ StaleAfter < PurgeAfter
ASSUME RowsAssumption == Limit \in Nat \ {0} /\ MaxRows \in Nat \ {0}

VARIABLES
  rows,    \* maintenance_tasks in the order of id
  wpc,     \* where the worker is
  batch,   \* ids of the rows this round is still to run, the first one under way
  part,    \* the part of the scan that is next
  failed,  \* a part of the scan has failed
  outcome  \* history: the clusters that the last part served and failed at

roundVars == <<rows, wpc, batch, part, failed, outcome>>
scanVars == <<batch, part, failed, outcome>>

--------------------------------------------------------------------------------
Finished == {"done", "failed"}
Row == [status : {"pending", "running"} \union Finished, age : 0 .. PurgeAfter]
Fresh(status) == [status |-> status, age |-> 0]

Parts == <<"templates", "nodes", "vms", "metrics">>

\* syncTemplates and syncUnmanagedVMs return at the first cluster that fails,
\* syncNodeMetrics and syncVMMetrics go on with the next node or VM.
Gated == {"templates", "vms"}

RoundTypeOK ==
  /\ rows \in Seq(Row) /\ Len(rows) <= MaxRows
  /\ wpc \in {"down", "recover", "begin", "ensure", "pick", "mark", "scan", "finish", "vmTasks", "purge", "sleep"}
  /\ batch \subseteq DOMAIN rows /\ Cardinality(batch) <= Limit
  /\ part \in 1 .. Len(Parts) + 1
  /\ failed \in BOOLEAN
  /\ outcome \in [served : SUBSET Clusters, bad : SUBSET Clusters]

Nowhere == [served |-> {}, bad |-> {}]

RoundInit ==
  /\ rows = <<>> /\ wpc = "down" /\ batch = {}
  /\ part = 1 /\ failed = FALSE /\ outcome = Nowhere

\* ORDER BY id: how many of the ids come before i.
Rank(ids, i) == Cardinality({j \in ids : j < i})

Proceed(step) == wpc' = step
Is(step) == wpc = step

\* UPDATE maintenance_tasks SET status = 'pending' WHERE status = 'running' ...
Requeued(ids) ==
  [i \in DOMAIN rows |-> IF i \in ids /\ rows[i].status = "running" THEN Fresh("pending") ELSE rows[i]]

\* Mutant: running rows are recovered at the start only.
NeverStale == {}

Stale == {i \in DOMAIN rows : rows[i].age >= StaleAfter}

StartWorker == Is("down") /\ Proceed("recover") /\ UNCHANGED <<rows, scanVars>>

\* recoverAbandonedRunningTasks; the worker goes on without it if it fails.
Recover == Is("recover") /\ Proceed("begin") /\ rows' = Requeued(DOMAIN rows) /\ UNCHANGED scanVars
RecoverFails == Is("recover") /\ Proceed("begin") /\ UNCHANGED <<rows, scanVars>>

\* recoverStaleRunningTasks
BeginRound == Is("begin") /\ Proceed("ensure") /\ rows' = Requeued(Stale) /\ UNCHANGED scanVars
BeginRoundFails == Is("begin") /\ Proceed("ensure") /\ UNCHANGED <<rows, scanVars>>

Latest == rows[Len(rows)]

\* Mutant: an open row that is old enough does not count.
DueByAge == rows # <<>> => Latest.age >= Interval

\* ensureMaintenanceTasks: a new row unless the last one is open or recent.
Due == rows # <<>> => Latest.status \in Finished /\ Latest.age >= Interval

Ensure ==
  /\ Is("ensure") /\ Proceed("pick")
  /\ rows' = IF Due THEN Append(rows, Fresh("pending")) ELSE rows
  /\ UNCHANGED scanVars

\* pendingMaintenanceTasks, in the order of id.
Pickable(i) ==
  \/ rows[i].status = "pending"
  \/ rows[i].status = "failed" /\ rows[i].age >= RetryAfter

Picked ==
  LET ids == {i \in DOMAIN rows : Pickable(i)}
  IN {i \in ids : Rank(ids, i) < Limit}

Pick ==
  /\ Is("pick") /\ Proceed("mark")
  /\ batch' = Picked
  /\ UNCHANGED <<rows, part, failed, outcome>>

\* ensureMaintenanceTasks or pendingMaintenanceTasks fails and ends the round.
RoundFails == wpc \in {"ensure", "pick"} /\ Proceed("sleep") /\ UNCHANGED <<rows, scanVars>>

UnderWay == Min(batch)
Others   == batch \ {UnderWay}

Mark(status) == rows' = [rows EXCEPT ![UnderWay] = Fresh(status)]

\* markMaintenanceTaskRunning; the row is left out if that fails.
MarkRunning ==
  /\ Is("mark") /\ batch # {}
  /\ Mark("running")
  /\ Proceed("scan")
  /\ UNCHANGED scanVars

MarkRunningFails ==
  /\ Is("mark") /\ batch # {}
  /\ batch' = Others
  /\ UNCHANGED <<rows, wpc, part, failed, outcome>>

\* Mutant: scanPVE returns at the first part that fails.
AfterAbort(bad) == IF bad = {} THEN part + 1 ELSE Len(Parts) + 1

\* scanPVE goes on with the next part whether this one failed or not.
After(bad) == part + 1

\* A part of the scan.  It starts with the cluster called first (the order of
\* a Go map is random), serves the clusters served and fails at those in bad.
ScanPart(first, served, bad) ==
  /\ Is("scan") /\ part <= Len(Parts)
  /\ served \intersect bad = {}
  /\ IF Parts[part] \in Gated
     THEN /\ first \in IF served = {} THEN bad ELSE served
          /\ Cardinality(bad) <= 1 /\ (bad = {} => served = Clusters)
     ELSE served \union bad = Clusters
  /\ part' = After(bad)
  /\ failed' = (failed \/ bad # {})
  /\ outcome' = [served |-> served, bad |-> bad]
  /\ UNCHANGED <<rows, wpc, batch>>

ScanEnds ==
  /\ Is("scan") /\ part > Len(Parts)
  /\ Proceed("finish") /\ outcome' = Nowhere
  /\ UNCHANGED <<rows, batch, part, failed>>

\* markMaintenanceTaskDone, markMaintenanceTaskFailed; if that fails the row
\* stays running.
FinishTask ==
  /\ Is("finish")
  /\ Mark(IF failed THEN "failed" ELSE "done")
  /\ Proceed("mark") /\ batch' = Others
  /\ part' = 1 /\ failed' = FALSE
  /\ UNCHANGED outcome

FinishTaskFails ==
  /\ Is("finish")
  /\ Proceed("mark") /\ batch' = Others
  /\ part' = 1 /\ failed' = FALSE
  /\ UNCHANGED <<rows, outcome>>

BatchDone == Is("mark") /\ batch = {} /\ Proceed("vmTasks") /\ UNCHANGED <<rows, scanVars>>

\* The part of the round that VmLifecycle models.
RunVMTasks == Is("vmTasks") /\ Proceed("purge") /\ UNCHANGED <<rows, scanVars>>
VMTasksFail == Is("vmTasks") /\ Proceed("sleep") /\ UNCHANGED <<rows, scanVars>>

\* purgeOldMaintenanceTasks
Kept(r) == ~(r.status \in Finished /\ r.age >= PurgeAfter)
Purged ==
  LET ids == {i \in DOMAIN rows : Kept(rows[i])}
  IN [n \in 1 .. Cardinality(ids) |-> rows[CHOOSE i \in ids : Rank(ids, i) = n - 1]]

Purge == Is("purge") /\ Proceed("sleep") /\ rows' = Purged /\ UNCHANGED scanVars
PurgeFails == Is("purge") /\ Proceed("sleep") /\ UNCHANGED <<rows, scanVars>>

\* The ticker.
Wake == Is("sleep") /\ Proceed("begin") /\ UNCHANGED <<rows, scanVars>>

\* The process is stopped or dies.
WorkerEnds ==
  /\ ~Is("down") /\ Proceed("down")
  /\ batch' = {} /\ part' = 1 /\ failed' = FALSE /\ outcome' = Nowhere
  /\ UNCHANGED rows

\* Time passes while the worker sleeps, scans or is down.
Older(i) ==
  LET oldest == IF i = MaxRows /\ rows[i].status \in Finished THEN Interval - 1 ELSE PurgeAfter
  IN [rows[i] EXCEPT !.age = IF @ < oldest THEN @ + 1 ELSE @]

Tick ==
  /\ wpc \in {"down", "scan", "sleep"}
  /\ rows' = [i \in DOMAIN rows |-> Older(i)]
  /\ UNCHANGED <<wpc, scanVars>>

RoundFaults ==
  RecoverFails \/ BeginRoundFails \/ RoundFails \/ MarkRunningFails \/ FinishTaskFails \/ VMTasksFail \/ PurgeFails

RoundStep ==
  \/ Recover \/ BeginRound \/ Ensure \/ Pick \/ MarkRunning
  \/ \E first \in Clusters, served, bad \in SUBSET Clusters : ScanPart(first, served, bad)
  \/ ScanEnds \/ FinishTask \/ BatchDone \/ RunVMTasks \/ Purge \/ Wake

--------------------------------------------------------------------------------
(* The parts of the inductive invariant.                                   *)

\* The ids that were picked stay those of the same rows: nothing is purged
\* before the batch is through.
BatchInRound ==
  /\ batch # {} => wpc \in {"mark", "scan", "finish"}
  /\ wpc \in {"scan", "finish"} => batch # {}

\* What keeps the bound on the rows: the last row is not yet due.
LastNotDue ==
  MaxRows \in DOMAIN rows /\ rows[MaxRows].status \in Finished => rows[MaxRows].age < Interval

RoundInv == RoundTypeOK /\ BatchInRound /\ LastNotDue
================================================================================
