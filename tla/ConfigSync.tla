------------------------------ MODULE ConfigSync -------------------------------
(***************************************************************************)
(* How an edit of a VM's configuration, password or power gets from the    *)
(* vms row to the cluster, and what the row then says about the cluster.   *)
(* One VM: vms rows do not influence each other here.                      *)
(*                                                                         *)
(* handlePatchVM and handlePowerVM load the row, and later overwrite JSON  *)
(* columns of it with what they loaded plus their change.  The worker      *)
(* carries a task out from the copy of the row that came with it.  After   *)
(* it pushed a password it sets password_synced by reading config_json and *)
(* writing it back.                                                        *)
(*                                                                         *)
(* Deletion and the queue's statuses are VmLifecycle's.  A guest does not  *)
(* power itself off.  The attempt that uses up the retries and markFailed  *)
(* are one step.                                                           *)
(***************************************************************************)
EXTENDS Naturals, Sequences

CONSTANTS
  Clients,    \* requests that may be in flight at the same time
  Ops,        \* bound: the requests that are made
  Configs,    \* what prefer_status_json may ask for (cores, memory, name ...)
  Passwords,
  Powers,     \* bound: what power requests ask for
  Blank,      \* configuration and password of a fresh clone of the template
  Faulty,     \* bound: may calls fail and the worker crash?
  MaxTasks    \* bound: requests are made only while fewer tasks are open

AllOps == {"settings", "password", "power"}

ASSUME BlankAssumption   == Blank \notin Configs /\ Blank \notin Passwords
ASSUME OpsAssumption     == Ops \subseteq AllOps
ASSUME PowersAssumption  == Powers \subseteq {"running", "stopped", "reboot"}
ASSUME FaultyAssumption  == Faulty \in BOOLEAN
ASSUME TasksAssumption   == MaxTasks \in Nat \ {0}

VARIABLES
  row,     \* the vms row
  queue,   \* its open tasks in the order of seq, the one under way first
  stuck,   \* the first task has used up its retries
  pve,     \* the VM on the cluster
  req,     \* requests between load and commit
  wpc,     \* where the worker is
  copy,    \* the row that was read with the task under way
  raw,     \* config_json as markPasswordSynced read it
  created, \* this attempt cloned the VM
  purged   \* history: a task was purged that nobody had carried out

vars == <<row, queue, stuck, pve, req, wpc, copy, raw, created, purged>>
workVars == <<queue, stuck, req, copy, raw, purged>>

--------------------------------------------------------------------------------
Asked == Powers \union {"running", "stopped"}
Seen  == {"running", "stopped"}

\* prefer_status_json; config_json: the same settings, and password_synced.
PreferStatus == [settings : Configs, power : Asked]
ConfigJSON   == [settings : Configs, synced : BOOLEAN]

\* real is the power of real_status_json, node says that vms.node is set.
Row == [prefer : PreferStatus, config : ConfigJSON, password : Passwords,
        state : {"pending", "synced", "failed"}, real : Seen \union {"unknown"},
        node : BOOLEAN]

\* provision tasks do what apply tasks do (syncVM).
Task == [kind : {"apply", "power", "reboot"}, power : Asked \union {"none"}]
ApplyTask    == [kind |-> "apply", power |-> "none"]
RebootTask   == [kind |-> "reboot", power |-> "none"]
PowerTask(p) == [kind |-> "power", power |-> p]

\* A request carries the columns it is going to write, its change made, and
\* whether the VM is to be rebooted.
NoRequest    == [op |-> "idle"]
PatchRequest == [op : {"patch"}, prefer : PreferStatus, config : ConfigJSON,
                 password : Passwords, reboot : BOOLEAN]
PowerRequest == [op : {"power"}, prefer : PreferStatus]
Request      == PatchRequest \union PowerRequest

Machine == [settings : Configs \union {Blank}, password : Passwords \union {Blank},
            power : Seen, exists : BOOLEAN]
Absent  == [settings |-> Blank, password |-> Blank, power |-> "stopped", exists |-> FALSE]
Cloned  == [Absent EXCEPT !.exists = TRUE]

Steps == {"idle", "find", "set", "read", "write", "power", "sync", "do", "done"}

TypeOK ==
  /\ row \in Row
  /\ queue \in Seq(Task)
  /\ stuck \in BOOLEAN
  /\ pve \in Machine
  /\ req \in [Clients -> Request \union {NoRequest}]
  /\ wpc \in Steps
  /\ copy \in Row
  /\ raw \in ConfigJSON
  /\ created \in BOOLEAN
  /\ purged \in BOOLEAN

\* handleCreateVM committed: the provision task is queued.
NewRow(x, p, w) ==
  [prefer |-> [settings |-> x, power |-> w],
   config |-> [settings |-> x, synced |-> FALSE],
   password |-> p, state |-> "pending", real |-> "unknown", node |-> FALSE]

Init ==
  /\ row \in {NewRow(x, p, w) : x \in Configs, p \in Passwords, w \in Seen}
  /\ queue = <<ApplyTask>>
  /\ stuck = FALSE
  /\ pve = Absent
  /\ req = [c \in Clients |-> NoRequest]
  /\ wpc = "idle"
  /\ copy = row
  /\ raw = row.config
  /\ created = FALSE
  /\ purged = FALSE

--------------------------------------------------------------------------------
(* handlePatchVM, handlePowerVM                                            *)

\* The request that would write the row as it is; a running VM is rebooted
\* after the new configuration was applied.
Patch == [op |-> "patch", prefer |-> row.prefer, config |-> row.config,
          password |-> row.password, reboot |-> row.real = "running"]

PatchSettings(x) == [Patch EXCEPT !.prefer.settings = x, !.config.settings = x]
PatchPassword(p) == [Patch EXCEPT !.password = p, !.config.synced = FALSE]
Power(w)         == [op |-> "power", prefer |-> [row.prefer EXCEPT !.power = w]]

Load(c, request) ==
  /\ req[c] = NoRequest
  /\ req' = [req EXCEPT ![c] = request]
  /\ UNCHANGED <<row, queue, stuck, pve, wpc, copy, raw, created, purged>>

LoadSettings(c, x) == "settings" \in Ops /\ Load(c, PatchSettings(x))
LoadPassword(c, p) == "password" \in Ops /\ Load(c, PatchPassword(p))
LoadPower(c, w)    == "power" \in Ops /\ Load(c, Power(w))

Commits(c, op) ==
  /\ req[c].op = op
  /\ Len(queue) < MaxTasks
  /\ req' = [req EXCEPT ![c] = NoRequest]
  /\ UNCHANGED <<stuck, pve, wpc, copy, raw, created, purged>>

Patched(c) == [row EXCEPT !.prefer = req[c].prefer, !.config = req[c].config,
                          !.password = req[c].password, !.state = "pending"]

PatchTasks(c) == IF req[c].reboot THEN <<ApplyTask, RebootTask>> ELSE <<ApplyTask>>

\* Mutant: a patch queues nothing when tasks are open already.
CommitPatchQuietly(c) ==
  /\ Commits(c, "patch")
  /\ row' = Patched(c)
  /\ queue' = IF queue = <<>> THEN PatchTasks(c) ELSE queue

CommitPatch(c) ==
  /\ Commits(c, "patch")
  /\ row' = Patched(c)
  /\ queue' = queue \o PatchTasks(c)

\* Mutant: the power task is queued, prefer_status_json is left as it is.
CommitPowerTaskOnly(c) ==
  /\ Commits(c, "power")
  /\ row' = [row EXCEPT !.state = "pending"]
  /\ queue' = Append(queue, PowerTask(req[c].prefer.power))

\* queueVMPowerTaskTx writes the whole of prefer_status_json.
CommitPower(c) ==
  /\ Commits(c, "power")
  /\ row' = [row EXCEPT !.prefer = req[c].prefer, !.state = "pending"]
  /\ queue' = Append(queue, PowerTask(req[c].prefer.power))

\* handleRetryVMTask on the exhausted task.
RetryByHand ==
  /\ stuck
  /\ stuck' = FALSE
  /\ row' = [row EXCEPT !.state = "pending"]
  /\ UNCHANGED <<queue, pve, req, wpc, copy, raw, created, purged>>

--------------------------------------------------------------------------------
(* The worker: runTask.                                                    *)

Goto(to) == wpc' = to

\* pendingTasks
TakeTask ==
  /\ wpc = "idle" /\ ~stuck
  /\ queue # <<>>
  /\ copy' = row
  /\ created' = FALSE
  /\ Goto(IF Head(queue).kind = "apply" THEN "find" ELSE "do")
  /\ UNCHANGED <<row, queue, stuck, pve, req, raw, purged>>

\* FindVMNode, createVM when no node has the VM, markNode.
FindOrClone ==
  /\ wpc = "find"
  /\ created' = ~pve.exists
  /\ pve' = IF pve.exists THEN pve ELSE Cloned
  /\ row' = [row EXCEPT !.node = TRUE]
  /\ Goto("set")
  /\ UNCHANGED workVars

\* applyVMConfigIfNeeded: whatever differs from the copy is set, the
\* password only if the copy does not say that it has been.
SetVMConfig ==
  /\ wpc = "set"
  /\ pve' = [pve EXCEPT !.settings = copy.prefer.settings,
                        !.password = IF copy.config.synced THEN pve.password
                                     ELSE copy.password]
  /\ Goto(IF copy.config.synced THEN "power" ELSE "read")
  /\ UNCHANGED <<row, created>> /\ UNCHANGED workVars

\* markPasswordSynced
ReadConfig ==
  /\ wpc = "read"
  /\ raw' = row.config
  /\ Goto("write")
  /\ UNCHANGED <<row, queue, stuck, pve, req, copy, created, purged>>

WriteConfig ==
  /\ wpc = "write"
  /\ row' = [row EXCEPT !.config = [raw EXCEPT !.synced = TRUE]]
  /\ Goto("power")
  /\ UNCHANGED <<pve, created>> /\ UNCHANGED workVars

\* applyPower: a stopped VM is not rebooted.
Powered(w) == IF w \in Seen THEN [pve EXCEPT !.power = w] ELSE pve

\* Disks and firewall went well; applyPower with the power the copy asks for.
ApplyPower ==
  /\ wpc = "power"
  /\ pve' = Powered(copy.prefer.power)
  /\ Goto("sync")
  /\ UNCHANGED <<row, created>> /\ UNCHANGED workVars

\* VMStatus and markSynced: after a reboot the VM is taken to be running.
MarkSynced ==
  /\ wpc = "sync"
  /\ row' = [row EXCEPT !.state = "synced",
                        !.real = IF copy.prefer.power = "reboot" THEN "running"
                                 ELSE pve.power]
  /\ Goto("done")
  /\ UNCHANGED <<pve, created>> /\ UNCHANGED workVars

\* Mutant: the power state is not read back into the row.
RunPowerTaskBlindly ==
  /\ wpc = "do" /\ Head(queue).kind = "power"
  /\ \/ /\ pve.exists
        /\ pve' = Powered(Head(queue).power)
        /\ row' = [row EXCEPT !.state = "synced"]
     \/ ~pve.exists /\ ~copy.node /\ UNCHANGED <<row, pve>>
  /\ Goto("done")
  /\ UNCHANGED created /\ UNCHANGED workVars

\* runPowerTask; on the node where the VM was before it went missing it fails.
RunPowerTask ==
  /\ wpc = "do" /\ Head(queue).kind = "power"
  /\ \/ /\ pve.exists
        /\ pve' = Powered(Head(queue).power)
        /\ row' = [row EXCEPT !.state = "synced", !.real = pve'.power]
     \/ ~pve.exists /\ ~copy.node /\ UNCHANGED <<row, pve>>
  /\ Goto("done")
  /\ UNCHANGED created /\ UNCHANGED workVars

\* runRebootTask: a running VM is running again afterwards.
RunRebootTask ==
  /\ wpc = "do" /\ Head(queue).kind = "reboot"
  /\ pve.exists \/ ~copy.node
  /\ Goto("done")
  /\ UNCHANGED <<row, pve, created>> /\ UNCHANGED workVars

\* markTaskDone
TaskDone ==
  /\ wpc = "done"
  /\ queue' = Tail(queue)
  /\ Goto("idle")
  /\ UNCHANGED <<row, stuck, pve, req, copy, raw, created, purged>>

--------------------------------------------------------------------------------
\* Mutant: markFailed writes a state that nobody knows.
LeaveTaskMisspelt ==
  /\ Goto("idle")
  /\ \/ UNCHANGED <<row, stuck>>
     \/ stuck' = TRUE /\ row' = [row EXCEPT !.state = "error"]
  /\ UNCHANGED <<queue, req, copy, raw, created, purged>>

\* The task is left to be retried, or was tried for the last time (markFailed).
LeaveTask ==
  /\ Goto("idle")
  /\ \/ UNCHANGED <<row, stuck>>
     \/ stuck' = TRUE /\ row' = [row EXCEPT !.state = "failed"]
  /\ UNCHANGED <<queue, req, copy, raw, created, purged>>

\* A call fails; a VM that this attempt created is removed, if that works
\* (rollbackProvision).  The worker may die as well.
TaskFails ==
  /\ Faulty
  /\ wpc # "idle"
  /\ \/ created /\ wpc # "done" /\ pve' = Absent
     \/ UNCHANGED pve
  /\ LeaveTask

\* purgeOldTasks removes failed tasks after 24 hours.
Purge ==
  /\ stuck
  /\ queue' = Tail(queue)
  /\ stuck' = FALSE
  /\ purged' = TRUE
  /\ UNCHANGED <<row, pve, req, wpc, copy, raw, created>>

--------------------------------------------------------------------------------
Server ==
  \/ \E c \in Clients :
       \/ \E x \in Configs : LoadSettings(c, x)
       \/ \E p \in Passwords : LoadPassword(c, p)
       \/ \E w \in Powers : LoadPower(c, w)
       \/ CommitPatch(c)
       \/ CommitPower(c)
  \/ RetryByHand

Apply == FindOrClone \/ SetVMConfig \/ ReadConfig \/ WriteConfig \/ ApplyPower \/ MarkSynced

Worker == TakeTask \/ Apply \/ RunPowerTask \/ RunRebootTask \/ TaskDone

Next == Server \/ Worker \/ TaskFails \/ Purge

Spec == Init /\ [][Next]_vars

--------------------------------------------------------------------------------
Quiet == queue = <<>> /\ wpc = "idle"

\* When no task is open, and none was purged undone, the VM on the cluster is
\* configured as the row asks, although tasks are carried out from copies that
\* handlePatchVM has overwritten meanwhile, and attempts fail half-way: every
\* overwriting queues a task that will read the row again.  Not so with power
\* requests, which write the settings they loaded and queue no such task.
Converged == Quiet /\ ~purged => pve.exists /\ pve.settings = row.prefer.settings

\* When no task is open, and none was purged undone, the VM is on or off as the
\* row asks: whatever the order in which power requests and patches load and
\* commit, the last task is carried out with the power that the row says.
PowerConverged ==
  Quiet /\ ~purged /\ row.prefer.power \in Seen => pve.power = row.prefer.power

\* When no task is open and the row is shown as synced, the power state it
\* shows is that of the VM.  Not so once a reboot was asked for: markSynced
\* after an apply task takes "reboot" to mean running for ever after.
RealTruthful == Quiet /\ row.state = "synced" => row.real = pve.power

\* When no task is open the password of the row is the one that was set on
\* the VM ("root 登录密码", docs/sql-tables.md).  Not so: see password_synced.
PasswordConverged == Quiet => pve.password = row.password
================================================================================
