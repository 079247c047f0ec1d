-------------------------------- MODULE Provision --------------------------------
(***************************************************************************)
(* How the worker brings one VM about on the cluster: clone the template,  *)
(* migrate the clone to its node, configure it, move its disk and its TPM  *)
(* state, enlarge the disk, start or stop it (syncPresent).                *)
(*                                                                         *)
(* Most of these steps are tasks of PVE, which the worker starts and waits *)
(* for.  It may stop waiting (after 30 minutes, 10 for power) or die; the  *)
(* task goes on.  The next attempt starts over from what it finds, and     *)
(* works with the configuration it read at its beginning.  An attempt that *)
(* fails removes the VM if it is the one that cloned it.                   *)
(*                                                                         *)
(* The order of tasks in the queue, their retries and deletions are in     *)
(* VmLifecycle, settings that one request writes in ConfigSync, the        *)
(* firewall in VmFirewall.  Nobody but the worker touches the VM.          *)
(***************************************************************************)
EXTENDS Naturals

CONSTANTS
  Nodes, TemplateNode,
  TargetNode,    \* the node the VM was placed on
  Storages, TPM, \* config: where TPM states are to be
  TemplateDisk,  \* size of the template's disk
  Disks,         \* bound: sizes that are asked for
  Powers,        \* bound: power states that are asked for
  Attempts,      \* automatic attempts of a task
  Adopted        \* bound: VMs that were there before they were managed

ASSUME NodeAssumption    == {TemplateNode, TargetNode} \subseteq Nodes
ASSUME StorageAssumption == TPM \in Storages
ASSUME DiskAssumption    == TemplateDisk \in Nat /\ Disks \subseteq Nat
                              /\ \A d \in Disks : TemplateDisk <= d
ASSUME PowerAssumption   == Powers \subseteq {"running", "stopped"}

ASSUME AttemptAssumption == Attempts \in Nat \ {0}

VARIABLES
  vm,     \* the VM, as the cluster has it
  op,     \* the PVE task that runs on the VM
  want,   \* what the row asks for: prefer_status_json
  sync,   \* sync_state
  open,   \* attempts that the next apply task is good for, 0 if there is none
  wpc,    \* what the worker does next
  job,    \* the copy of the row it works from, and what it has found out
  astray, \* history: the VM was not seen to its node
  late,   \* history: a task has gone on after the worker stopped waiting for it
  blind   \* history: ... and was still running when the configuration was read

vars == <<vm, op, want, sync, open, wpc, job, astray, late, blind>>

NoVM    == [node |-> "none"]
Machine == [node : Nodes, disk : Nat, storage : Storages, tpm : Storages,
            power : {"running", "stopped"}]
Wanted  == [disk : Disks, storage : Storages, power : Powers]

ASSUME AdoptedAssumption ==
  Adopted \subseteq {m \in Machine : m.node = TargetNode /\ \A d \in Disks : m.disk <= d}

Steps == {"find", "migrate", "read", "config", "move", "tpm", "resize", "power", "mark"}

\* then: the worker's step once the task is done.
NoTask == [kind |-> "none", awaited |-> FALSE]
Task   == [kind : {"clone", "migrate", "move", "tpm"}, to : Storages, then : Steps, awaited : BOOLEAN]
            \union [kind : {"resize"}, add : Nat, then : Steps, awaited : BOOLEAN]
            \union [kind : {"start", "shutdown", "stop"}, then : Steps, awaited : BOOLEAN]

NoJob == [created |-> FALSE]
Job   == [want : Wanted, created : BOOLEAN, cfg : Machine \union {NoVM}, left : 0 .. Attempts - 1]

TypeOK ==
  /\ vm \in Machine \union {NoVM}
  /\ op \in Task \union {NoTask}
  /\ want \in Wanted
  /\ sync \in {"pending", "synced", "failed"}
  /\ wpc \in Steps \union {"idle"}
  /\ job \in Job \union {NoJob} /\ (job = NoJob <=> wpc = "idle")
  /\ open \in 0 .. Attempts
  /\ {astray, late, blind} \subseteq BOOLEAN
  /\ op.awaited => wpc # "idle"
  /\ vm = NoVM => op.kind \in {"none", "clone"}

Init ==
  /\ vm \in Adopted \union {NoVM} /\ op = NoTask
  /\ want \in Wanted
  /\ sync = "pending" /\ open = Attempts
  /\ wpc = "idle" /\ job = NoJob
  /\ astray = FALSE /\ late = FALSE /\ blind = FALSE

histories == <<astray, late, blind>>

--------------------------------------------------------------------------------
\* handlePatchVM: disks only grow.
PatchVM(w) ==
  /\ w # want /\ w.disk >= want.disk
  /\ want' = w /\ sync' = "pending" /\ open' = Attempts
  /\ UNCHANGED <<vm, op, wpc, job, histories>>

--------------------------------------------------------------------------------
(* The cluster.                                                            *)

\* What a task does to the VM when it succeeds.
Done(t) ==
  CASE t.kind = "clone"   -> [node |-> TemplateNode, disk |-> TemplateDisk, storage |-> t.to,
                              tpm |-> t.to, power |-> "stopped"]
    [] t.kind = "migrate" -> [vm EXCEPT !.node = TargetNode, !.storage = t.to, !.tpm = t.to]
    [] t.kind = "move"    -> [vm EXCEPT !.storage = t.to]
    [] t.kind = "tpm"     -> [vm EXCEPT !.tpm = t.to]
    [] t.kind = "resize"  -> [vm EXCEPT !.disk = @ + t.add]
    [] t.kind = "start"   -> [vm EXCEPT !.power = "running"]
    [] t.kind \in {"shutdown", "stop"} -> [vm EXCEPT !.power = "stopped"]

\* A disk is not moved to where it is.
Possible(t) ==
  /\ t.kind = "move" => t.to # vm.storage
  /\ t.kind = "tpm" => t.to # vm.tpm

TaskSucceeds ==
  /\ op # NoTask /\ Possible(op)
  /\ vm' = Done(op)
  /\ op' = NoTask
  /\ IF op.awaited
     THEN /\ wpc' = op.then
          /\ job' = [job EXCEPT !.created = @ \/ (op.then = "read")]
     ELSE UNCHANGED <<wpc, job>>
  /\ UNCHANGED <<want, sync, open, histories>>

UnwatchedTaskFails ==
  /\ op # NoTask /\ ~op.awaited
  /\ op' = NoTask
  /\ UNCHANGED <<vm, want, sync, open, wpc, job, histories>>

Cluster == TaskSucceeds \/ UnwatchedTaskFails

--------------------------------------------------------------------------------
(* The worker.                                                             *)

At(step) == wpc = step /\ ~op.awaited
Goto(step) == wpc' = step /\ UNCHANGED job

\* PVE locks the VM for a task: another one is refused meanwhile.
Begins(t) ==
  /\ op = NoTask /\ op' = t
  /\ UNCHANGED <<vm, want, sync, open, wpc, job, histories>>

Skips(step) == Goto(step) /\ UNCHANGED <<vm, op, want, sync, open, histories>>

PickTask ==
  /\ wpc = "idle" /\ open > 0
  /\ wpc' = "find"
  /\ job' = [want |-> want, created |-> FALSE, cfg |-> NoVM, left |-> open - 1]
  /\ open' = 0
  /\ UNCHANGED <<vm, op, want, sync, histories>>

\* FindVMNode lists a VM from the moment its clone has begun.
Listed == vm # NoVM \/ op.kind = "clone"

FindVM == At("find") /\ Listed /\ Skips("read")

\* createVM; the clone goes to the template's node...
CloneVM ==
  /\ At("find") /\ ~Listed
  /\ Begins([kind |-> "clone", to |-> job.want.storage, awaited |-> TRUE,
             then |-> IF TargetNode = TemplateNode THEN "read" ELSE "migrate"])

\* ... and from there to its own.
MigrateVM ==
  /\ At("migrate")
  /\ Begins([kind |-> "migrate", to |-> job.want.storage, awaited |-> TRUE, then |-> "read"])

\* configureVM reads the configuration once, for all the steps that follow; a
\* clone that is still being made has no disk to be seen.
GetVMConfig ==
  /\ At("read") /\ vm # NoVM
  /\ wpc' = "config"
  /\ job' = [job EXCEPT !.cfg = vm]
  /\ blind' = (op # NoTask)
  /\ UNCHANGED <<vm, op, want, sync, open, astray, late>>

\* applyVMConfigIfNeeded
SetVMConfig == At("config") /\ op = NoTask /\ Skips("move")

MoveDisk ==
  /\ At("move") /\ job.cfg.storage # job.want.storage
  /\ Begins([kind |-> "move", to |-> job.want.storage, awaited |-> TRUE, then |-> "tpm"])

DiskInPlace == At("move") /\ job.cfg.storage = job.want.storage /\ Skips("tpm")

\* moveTPMIfNeeded, ensureVMStopped
StopForTPM ==
  /\ At("tpm") /\ job.cfg.tpm # TPM /\ vm.power = "running"
  /\ Begins([kind |-> "shutdown", awaited |-> TRUE, then |-> "tpm"])

MoveTPM ==
  /\ At("tpm") /\ job.cfg.tpm # TPM /\ vm.power = "stopped"
  /\ Begins([kind |-> "tpm", to |-> TPM, awaited |-> TRUE, then |-> "resize"])

TPMInPlace == At("tpm") /\ job.cfg.tpm = TPM /\ Skips("resize")

\* Mutant: the disk is enlarged by all it is to have.
GrowthToFullSize == job.want.disk

\* resizeDisk asks for the difference to the size that was read.
Growth == job.want.disk - job.cfg.disk

\* Mutant: a disk that is too large already is not noticed.
ResizeDiskEitherWay ==
  /\ At("resize") /\ job.want.disk # job.cfg.disk
  /\ Begins([kind |-> "resize", add |-> Growth, awaited |-> TRUE, then |-> "power"])

ResizeDisk ==
  /\ At("resize") /\ job.want.disk > job.cfg.disk
  /\ Begins([kind |-> "resize", add |-> Growth, awaited |-> TRUE, then |-> "power"])

DiskLargeEnough == At("resize") /\ job.want.disk = job.cfg.disk /\ Skips("power")

\* Mutant: what was true when the configuration was read is taken to be so.
PowerSeenBefore == job.cfg.power

PowerSeen == vm.power

\* applyPower asks for the state first.  (Reboots are in ConfigSync.)
ApplyPower ==
  /\ At("power")
  /\ \/ /\ job.want.power = "running" /\ PowerSeen = "stopped"
        /\ Begins([kind |-> "start", awaited |-> TRUE, then |-> "mark"])
     \/ /\ job.want.power = "stopped" /\ PowerSeen = "running"
        /\ Begins([kind |-> "shutdown", awaited |-> TRUE, then |-> "mark"])

PowerAsAsked == At("power") /\ job.want.power = PowerSeen /\ Skips("mark")

\* A shutdown that fails or takes too long gives way to a hard stop.
HardStop ==
  /\ op.awaited /\ op.kind = "shutdown"
  /\ op' = [op EXCEPT !.kind = "stop"]
  /\ UNCHANGED <<vm, want, sync, open, wpc, job, histories>>

MarkSynced ==
  /\ At("mark")
  /\ sync' = "synced"
  /\ wpc' = "idle" /\ job' = NoJob
  /\ UNCHANGED <<vm, op, want, open, histories>>

Attempt ==
  \/ PickTask \/ FindVM \/ CloneVM \/ MigrateVM \/ GetVMConfig \/ SetVMConfig
  \/ MoveDisk \/ DiskInPlace \/ StopForTPM \/ MoveTPM \/ TPMInPlace
  \/ ResizeDisk \/ DiskLargeEnough \/ ApplyPower \/ PowerAsAsked \/ MarkSynced

--------------------------------------------------------------------------------
(* Failures.                                                               *)

\* rollbackProvision, and createVM if the migration fails.
Removes == job.created \/ wpc = "migrate"

\* DeleteVM: a VM that is locked or runs is not removed.
Rollback ==
  \/ UNCHANGED vm
  \/ Removes /\ op' = NoTask /\ (vm # NoVM => vm.power = "stopped") /\ vm' = NoVM

\* Attempts that are left come before those of a task queued behind.
Requeue(left) == open' = (IF open = 0 THEN left ELSE open) /\ UNCHANGED sync

\* Mutant: a task is never given up.
RetryForever == Requeue(1)

\* The task is tried again or, after its last attempt, given up.
Retry == IF job.left > 0 THEN Requeue(job.left) ELSE sync' = "failed" /\ UNCHANGED open

\* The worker is done with the attempt.
Ends ==
  /\ wpc' = "idle" /\ job' = NoJob
  /\ astray' = (IF vm' = NoVM /\ op' = NoTask THEN FALSE
                ELSE astray \/ wpc = "migrate" \/ (wpc = "find" /\ op.awaited))
  /\ late' = (IF vm' = NoVM /\ op' = NoTask THEN FALSE ELSE late \/ op'.kind # "none")

\* A task the worker waits for fails, or a request of its own does.
AttemptFails ==
  /\ wpc # "idle"
  /\ op' = IF op.awaited THEN NoTask ELSE op
  /\ Rollback
  /\ Ends /\ Retry
  /\ UNCHANGED <<want, blind>>

\* It stops waiting.
WaitTimesOut ==
  /\ op.awaited
  /\ op' = [op EXCEPT !.awaited = FALSE]
  /\ UNCHANGED vm
  /\ Ends /\ Retry
  /\ UNCHANGED <<want, blind>>

\* It dies, and takes the task up again (recoverAbandonedRunningTasks).
CrashWorker ==
  /\ wpc # "idle"
  /\ op' = [op EXCEPT !.awaited = FALSE]
  /\ UNCHANGED <<vm, want, blind>>
  /\ Ends /\ Requeue(job.left + 1)

\* What cannot succeed: the VM is locked, the disk is too large already or is
\* where it is to go.
Refused ==
  \/ wpc \in Steps \ {"find"} /\ op # NoTask /\ ~op.awaited
  \/ At("read") /\ vm = NoVM
  \/ At("resize") /\ job.want.disk < job.cfg.disk
  \/ op.awaited /\ ~Possible(op)

AttemptRefused == Refused /\ AttemptFails

Next ==
  \/ \E w \in Wanted : PatchVM(w)
  \/ Cluster \/ Attempt \/ HardStop
  \/ AttemptFails \/ WaitTimesOut \/ CrashWorker

Spec == Init /\ [][Next]_vars

\* PVE tasks end, and the worker goes on.
FairSpec == Spec /\ WF_vars(Cluster) /\ WF_vars(Attempt \/ AttemptRefused)

--------------------------------------------------------------------------------
\* A VM shown as synced, with nothing left to do for it, is where its row asks
\* for and as large, on or off, however many attempts failed half way and
\* whatever they left; provided no task of PVE was still running when the last
\* attempt read the configuration, and on its own node provided no attempt
\* ended between clone and migration (syncPresent, createVM, rollbackProvision).
DoneAsAsked ==
  sync = "synced" /\ open = 0 /\ wpc = "idle" =>
    /\ vm # NoVM
    /\ ~astray => vm.node = TargetNode
    /\ ~blind => /\ vm.storage = want.storage /\ vm.tpm = TPM
                 /\ vm.disk = want.disk
                 /\ vm.power = want.power

\* The disk never gets larger than asked for, so that the worker could never
\* finish: resizeDisk adds a difference, and adds it once, unless a task went
\* on behind the worker's back.
DiskWithin == vm # NoVM /\ ~late => vm.disk <= want.disk

(* The parts of the inductive invariant.                                   *)

Configuring == {"config", "move", "tpm", "resize", "power", "mark"}

\* The task the worker waits for is one that its step begins.
AwaitedTask ==
  op.awaited =>
    \/ /\ wpc = "find" /\ op.kind = "clone"
       /\ op.then = IF TargetNode = TemplateNode THEN "read" ELSE "migrate"
    \/ wpc = "migrate" /\ op.kind = "migrate" /\ op.then = "read"
    \/ wpc = "move" /\ op.kind = "move" /\ op.to = job.want.storage /\ op.then = "tpm"
    \/ wpc = "tpm" /\ op.kind \in {"shutdown", "stop"} /\ op.then = "tpm"
    \/ wpc = "tpm" /\ op.kind = "tpm" /\ op.to = TPM /\ op.then = "resize"
    \/ wpc = "resize" /\ op.kind = "resize" /\ job.cfg.disk + op.add = job.want.disk
                       /\ op.then = "power"
    \/ /\ wpc = "power" /\ op.then = "mark"
       /\ \/ op.kind = "start" /\ job.want.power = "running"
          \/ op.kind \in {"shutdown", "stop"} /\ job.want.power = "stopped"

\* There is a VM to work on, and no clone is made of one that is there.
Present ==
  /\ wpc \in {"migrate"} \union Configuring => vm # NoVM
  /\ wpc \in Configuring => job.cfg # NoVM
  /\ op.kind = "clone" => vm = NoVM

\* The copy is as good as the row unless a task is queued behind it.
CopyGood ==
  wpc # "idle" => job.want.disk <= want.disk /\ (open = 0 => job.want = want)

\* What the configuration that was read and the steps since then say of the VM,
\* unless a task of PVE ran when it was read.
Seen ==
  wpc \in Configuring /\ ~blind =>
    /\ op # NoTask => op.awaited
    /\ wpc \in {"config", "move"} => vm = job.cfg
    /\ wpc \in {"tpm", "resize", "power", "mark"} => vm.storage = job.want.storage
    /\ wpc = "tpm" => vm.tpm = job.cfg.tpm
    /\ wpc \in {"resize", "power", "mark"} => vm.tpm = TPM
    /\ wpc \in {"tpm", "resize"} => vm.disk = job.cfg.disk
    /\ wpc \in {"power", "mark"} => vm.disk = job.want.disk
    /\ wpc = "mark" => vm.power = job.want.power /\ op = NoTask

\* No task goes on behind the worker's back before one was abandoned.
Watched ==
  ~late => /\ op # NoTask => op.awaited
           /\ wpc \in Configuring => ~blind

\* A VM is away from its node only between its clone and its migration.
OnItsNode ==
  ~astray => /\ vm # NoVM /\ wpc # "migrate" => vm.node = TargetNode
             /\ op.kind = "clone" => op.awaited

\* Nothing happens to a VM that is done.
Settled == sync = "synced" /\ open = 0 /\ wpc = "idle" /\ ~blind => op = NoTask

IInv ==
  /\ TypeOK /\ AwaitedTask /\ Present /\ CopyGood /\ Seen /\ Watched /\ OnItsNode
  /\ Settled /\ DoneAsAsked /\ DiskWithin

\* Nobody asks for anything and no request fails.
EventuallyCalm == <>[][Attempt \/ AttemptRefused \/ Cluster]_vars

\* Every apply task comes to an end: no step waits for something that does not
\* happen (waitProxmoxTask, syncPresent).
AttemptsEnd == EventuallyCalm => <>[](wpc = "idle" /\ open = 0)
================================================================================
