# pve-manage in TLA+

`cloud-manage` lets the members of an organisation run virtual machines on a
Proxmox VE cluster. A server process answers HTTP requests by writing rows of
a PostgreSQL database; a worker process reads tasks from that database and
carries them out on the cluster. This directory holds a model of the parts of
the program where two actors meet - handlers, worker, scanner, cluster,
administrators, crashes - with model checking runs (TLC) and proofs (TLAPS).

`PROJECT.json` lists components, runs, mutants, theorems, the source lines of
every definition, and the hazards the properties are for.

## 1. The system

### Processes and shared state

| process | code | concurrency |
|---|---|---|
| `serve` | `internal/api` | one goroutine per request, several statements per request, `READ COMMITTED` |
| `worker` | `internal/worker/worker.go` | one goroutine, a round (`syncOnce`) every 10 s, restarted when it dies |
| `Migrate` | `internal/db/migrate.go` | called by `serve` and `worker` at every start, and by the command `migrate` |
| `pve-sso-login-pool-provisioner` | `tool/` | a bash script, per PVE node, by systemd timer and path units |

Everything the server and the worker tell each other goes through tables:
`vms` (what a user asked for, what the cluster was last seen to have),
`vm_tasks` (a queue per VM, ordered by `seq`), `maintenance_tasks`,
`security_groups`, `ssh_keys`, `templates`, `users`, `node_metrics`. No row is
locked: a handler loads a row, checks it, computes, and writes back whole
columns in a transaction of its own; the worker reads a batch of tasks with
their `vms` rows and works from these copies.

### Components

| component | state | operations | what makes it hard | what makes it correct |
|---|---|---|---|---|
| task queue | `vm_tasks` | enqueue, cancel, retry, mark running / done / failed, requeue, purge | statements by id overwrite each other's statuses | one task of a VM at a time, in order; bounded retries |
| VM lifecycle | `vms`, queue, VM on the cluster | create, patch, power, delete, restore, delete now, pause, resume, retry; a round of the worker | stale copies, crashes between PVE call and database, deadlines | nothing is destroyed early or kept for ever, no orphans, rows do not lie |
| configuration, password, power | `prefer_status_json`, `config_json`, `password`, `real_status_json` | patch, power, apply, reboot, roll-back | whole columns written back by several actors | the VM ends up as the row asks; what is shown is true |
| inventory | `vms` (unmanaged rows), cluster | scan, sweep, adopt, create, administrator edits | scan races with adoption; VMs nobody told us of | adopted VMs stay, strangers stay untouched, addresses are unique |
| quotas | `vms.config_json`, `users` | create, patch, transfer, exempt, adopt, log in | sum first, insert later | no request takes a user over his limits |
| placement | `vms` | choose a vmid and a node | two creations choose before either inserts | nodes stay level |
| provisioning | the VM on the cluster, the PVE task that runs on it | clone, migrate, configure, move, resize, start, stop, roll back | tasks that outlive the wait, stale configuration, attempts that end anywhere | the VM is what the row asks for; nothing is done twice |
| security groups, firewall | `security_groups`, IP sets and rules on the cluster | create, patch, delete, sync | partial updates of remote lists | the VM's rules are the group's |
| maintenance | `maintenance_tasks` | schedule, run, retry, recover, purge | a retry and a successor at once, rows left running, clusters that fail | every part of the scan goes on to serve every cluster that answers |
| migrations | `schema_migrations` | apply | several processes at once, each of which may die | each migration once and in order; nobody works on half a schema |
| pool provisioner | `/etc/pve` directory lock, pools, ACLs | lock, break, create, grant | dead holders | one node at a time, every user served |
| authentication, SSH keys, templates, web front end | - | - | little shared mutable state | not modelled (section 7) |

## 2. Modules

| module | models | kind |
|---|---|---|
| `VmTasks` | each SQL statement on `vm_tasks`, as an operator on the rows of one VM | operators |
| `VmLifecycle` | handlers, worker round, every kind of task, faults, time | state machine on `VmTasks` |
| `VmLifecycleInv` | the inductive invariants of `VmLifecycle` | predicates |
| `VmLifecycleProofs` | lemmas on the statements; invariants and what follows from them; the refinement of `SerialQueue` | proofs |
| `SerialQueue` | what a VM's queue promises: a first task that is carried out alone, others behind it | abstract specification |
| `VmQueue` | `VmLifecycle` as an implementation of it | refinement mapping |
| `ConfigSync` | the columns and the VM, step by step, for one VM | state machine |
| `ConfigSyncProofs` | types, convergence, and that what is shown is true | proofs |
| `Inventory` | the scan of the cluster against creation, adoption and changes of address; vmids and addresses | state machine, and `addIPv4` as an operator |
| `InventoryProofs` | what `addIPv4` computes; invariant and safety of the inventory | proofs |
| `PoolProvisioner` | the script on several nodes | state machine |
| `PoolProvisionerProofs` | mutual exclusion | proofs |
| `VmFirewall` | `EnsureFirewall` on one VM, request by request | actions |
| `SecurityGroups` | groups, the VMs that refer to them, the worker that applies them | state machine, EXTENDS `VmFirewall` |
| `SecurityGroupsProofs` | groups are kept, firewalls shown as synced are as asked | proofs |
| `Admission` | quotas, vmids and nodes: what the server lets in and where it puts it | state machine; `EffectiveUserLimit`, `Chosen` as operators |
| `AdmissionProofs` | what sums over rows do when a row is written; quotas are respected, nodes kept level | proofs |
| `Provision` | `syncPresent` on the cluster: PVE tasks started, awaited, abandoned | state machine |
| `ProvisionProofs` | a VM shown as synced is as asked; disks do not outgrow what was asked for | proofs |
| `Migrations` | `Migrate` in several processes, statement by statement | state machine |
| `Maintenance` | the worker's rounds as `maintenance_tasks` sees them, and `scanPVE` part by part | actions |
| `Deployment` | server and worker of `docker-compose.yml`: they start, migrate, work, end | state machine, EXTENDS `Migrations` and `Maintenance` |
| `DeploymentProofs` | each migration is applied once and in order, no round works on half a schema; the worker's rounds are well typed | proofs |
| `MC*` | sets and functions of values for TLC; `MCRequestFamilies` also joins two sets of requests | instances |

### VmTasks and VmLifecycle

`tasks[v][s]` is the row of `vm_tasks` with `vm_id = v` and `seq = s`.
`row[v]` is the `vms` row as far as deletion and the queue look at it, `pve[v]`
says whether the cluster has the VM. A handler that loads and later writes is
two steps, `Load` and its `Commit...`; `req[c]` is what the request carries
between them (for patch and power the `prefer_status_json` it will write back,
for retry the task). A transaction is atomic; it may fail (`RequestFails`), as
it does when another one took the same `seq` (`UNIQUE(vm_id, seq)`).

The worker's program counter `wpc` follows `syncOnce`: `round` (stale tasks
requeued) - `expired`, `queue` (`ensureExpiredDeleteTasks`, its query and its
inserts apart) - `supersede` - `pick` (`pendingTasks`) - `next` (the loop over
the batch) - `run`, `configure`, `destroyed`, `cancel`, `done`, `failed`,
`exhausted` (`runTask` and what follows) and back, `purge` between the two
statements of `purgeOldTasks`. `batch[v]` is a copy: the
seq, what `syncVM` will decide from the row that came with it, and the deadline
`syncDelete` will compare. Every statement and every PVE operation another
actor or a crash could see is a step; every one of them may fail.
`handleAdminPatchVM` and `handleAdminSetQuotaExempt` are, for this module, the
same as a patch: they write the row and queue apply (and reboot) tasks.
`DestroyVM` is the clean-up of snapshots and backups together with `DeleteVM`: nothing
else looks at what it removes.

Time is kept as far as the code compares it: a deadline is `future` or `past`,
`finished_at` is set or not. Where the code asks how old something is, the step
chooses: which failed tasks are not late enough (`PickTasks(late)`), which running
ones are 30 minutes old (`BeginRound(S)`), which finished rows are a day old
(`PurgeFinished(old)`, row by row), which deleted VMs are (`EndRound(S)`).

### SerialQueue and VmQueue

`SerialQueue` knows nothing of rows, statuses, batches or attempts: a VM has a set of
numbered tasks, `Change` puts new ones behind those that are there and withdraws any but
the one being carried out, `Begin` starts the first task of a VM if none is under way,
`End` leaves it in the queue or takes it out, `Die` is the end of the worker.
`VmQueue` says how the rows, the batch and the program counter of `VmLifecycle` make
up such a queue. A task is open while its row is neither done nor canceled, and as long as
the worker has a copy of it in its batch: statements by id may bring a canceled row back.
`QueuesAreSerial` is that every step of `VmLifecycle` is a step of the abstract queue or none.

### ConfigSync

One VM; `queue` holds the open tasks in the order `VmLifecycle` shows they are
executed in. `row` has the columns that are written as wholes: `prefer` (settings
and power), `config` (settings and `password_synced`), `password`, `real`. A
patch carries all of them from `Load` to `CommitPatch`, a power request carries
`prefer`. An apply task is `FindOrClone`, `SetVMConfig`, `ReadConfig` and
`WriteConfig` (the two statements of `markPasswordSynced`), `ApplyPower`,
`MarkSynced`; each may fail (`TaskFails`), and a VM that the attempt created may
be rolled back. The settings stand for all of cores, memory, disks, addresses
and firewall, which are pushed from the same copy.

### PoolProvisioner

`lock` is the directory, its owner file and whether its mtime is older than the
limit; `pc[n]` is the command node `n` is at. One process per node, as `flock`
and systemd see to. `ensure_user`'s roles are granted as one. The script has no timeout and never
renews the mtime of its lock; that a run takes seconds is said only in a comment of
the `.service` file. `RunOutlastsTTL` is a run that takes longer than
`CLUSTER_LOCK_TTL_SECONDS`, with its lock looking stale meanwhile. `disturbed` is a
history variable: mutual exclusion is claimed until a node dies or a run outlasts the
TTL (section 3 says why not beyond).

### Inventory

`rows` is the `vms` table in the order of `id`, `pve` the VMs of the cluster with
their addresses, by vmid. The scan is `syncUnmanagedVMs` statement by statement:
`ListVMs`, for every VM `LookUp` and `UpdateUnmanaged` or `InsertUnmanaged`, then
`SelectMissing` and `SweepRow` for each row it selected; it may end at any of them
(`ScanFails`, or the unique index refuses the insert). Creation
(`ChooseVMID`, `CommitCreate`), adoption (`LoadAdopt`, `CommitAdopt`) and change of
address (`LoadAddress`, `CheckAddress`, `CommitAddress`) interleave with it; tasks
do not, since the worker does one thing at a time, and are single steps.
`VMAppears` and `VMVanishes` are the other users of the cluster. A row says who
wrote its address (`ipFrom`) and its configuration (`config`). `found` is a history
variable: the VMs a scan has written to the table.

Addresses are four octets and `AddIPv4` is the loop of `addIPv4`; the network
prefix that the text form carries is left out.

### SecurityGroups and VmFirewall

`groups` is the `security_groups` table by owner and name, `row` what a `vms` row says
of owner, group, address and restriction. A VM refers to a group by its owner and
the group's name; nothing in the database keeps that reference valid. Handlers check
(`Load...`) and commit as elsewhere; `PatchGroup` is one transaction. Two variables are
history: `overtaken` are the VMs whose group was patched while the worker had a copy of
it, `crossed` those that were left without a group by a check made too early, or by an
adoption that names another user's group (section 3). The queue is
reduced to `open`, the VMs with an apply task to come, deletion to `DestroyVM`: both
are `VmLifecycle`'s.

`VmFirewall` is what PVE has for a VM - the list of rules, the policies, the set of
addresses - and `EnsureFirewall` as the sequence of its requests: read the list
(`StartFirewall`), `DeleteRule` from its end, `AddRule` one after the other,
`SetOptions`, `AddEntry` and `DeleteEntry` until the set is right, `AddGroupRule`.
`ApplyFails` may end it at each of them. A rule is opaque, in- and outbound policy are
one value, and the assumption about PVE is that a rule posted comes after those that
are there (the code posts without a position).

### Admission

`rows` is what counts against quotas and nodes: owner, exemption, size, node. A
creation is `LoadCreate` (checks), `PlaceVM` (`nextClusterVMID` and
`choosePlacementNode`, in the transaction) and `CommitCreate` (the insert, which the
unique index may refuse). `LoadPatch` is `handlePatchVM` with size and owner,
`LoadAdopt` the adoption, `LoadExempt` the switch of an administrator, `Login` the
groups a user has from now on. `beside` marks a request whose figures have become
stale, `settled` says that nothing but creations that place one after the other has
happened; both are history. Scores are kept as integers over a common denominator: the
code's weights 0.35 and 0.65 and its ratios are rational, and `Before` compares them
in the order of `betterStaticAllocationNode`. A limit that is not positive gives a ratio
of zero, as in `resourceRatio`: the configuration does not rule it out.

### Provision

`vm` is the VM on the cluster, `op` the PVE task that runs on it, `job` the worker's
copy of the row and the configuration it has read. A step such as `MoveDisk` starts a
task; `TaskSucceeds` lets it take effect and, if the worker still waits for it
(`awaited`), lets the worker go on. `AttemptFails` covers a failing task and a failing
request, with `Rollback`; `WaitTimesOut` and `CrashWorker` leave the task running.
What the model assumes of PVE is in the comments next to it: a VM has one task at a
time, a disk is not moved to where it is, a running VM is not removed. The migration
of a clone and the configuration step (cloud-init, pools, boot order) have no state
beyond their place in the sequence. `astray`, `late` and `blind` are history.

### Migrations, Maintenance, Deployment

`Migrations`: `recorded` is the table `schema_migrations`, `effects` counts how often
what a migration does is in the database, `pc[p]` follows `applyMigration` (`check` -
`execute` - `record` - `commit`). Of a migration only its kind is kept, which is what
its SQL does where the effect is there already: fail, nothing, or its work once more;
the fifteen of the code are of these kinds, and one has no effect. PostgreSQL is
READ COMMITTED: the SQL of a transaction waits for the locks that the same SQL of another one
holds, an INSERT of a version for another INSERT of it. A process whose `Migrate` fails exits
(`Fails`) and docker starts it again.

`Maintenance`: `rows` is `maintenance_tasks` in the order of `id`, each with its age, `wpc`
follows `Run` and `syncOnce`, `batch` is the set of ids that `pendingMaintenanceTasks` returned and
that are still to be worked off, the least one first (`UnderWay`); `Rank` is a row's place in
ORDER BY `id`. A scan is
four parts; `ScanPart` says which clusters a part serves and which it fails at:
`syncTemplates` and `syncUnmanagedVMs` return at the first failing cluster, the metrics go on.
A step in `RoundFaults` is the failure of one statement. What a scan writes is
`Inventory`'s; the worker's VM tasks are one step here.

`Deployment` puts them together: the worker's loop begins when its `Migrate` has returned
and ends with the process (`WithWorker`).

## 3. Runs

Each run finishes within three minutes with two TLC workers.

| run | bounds | question | result |
|---|---|---|---|
| `core` | 1 VM, 1 request in flight, all handlers but power, 3 seqs, 1 retry | `TypeOK`, `SerialExecution`, `NoOrphan`, `SyncedVMExists`, `IInv`, `RetryBudget`, `QueuesAreSerial` | hold |
| `live` | delete, delete-now, power; 3 seqs; fairness | `DueInv`, `DestroyedWhenDue`, `DeletionCompletes` | hold |
| `due` | delete, restore, delete-now; 4 seqs | `DestroyedWhenDue` | violated |
| `config` | 2 requests in flight, patches of 2 settings and passwords, or patches and power requests; faults, 2 open tasks | `TypeOK`, `Converged`, `PowerConverged`, `RealTruthful` | hold |
| `password_race` | 1 request in flight, two passwords | `PasswordConverged` | violated |
| `inventory` | 2 requests, 2 vmids, 1 of them used by strangers, 2 births; fairness | `IInv`, `DerivedAddresses`, `ScannedKept`, `ManagedNotSwept`, `InventoryConverges` | hold |
| `pool` | 2 nodes that may die or take longer than the TTL, 2 users; fairness | `IInv`, `MutualExclusion`, `UsersProvisioned` | hold |
| `network` | 1 VM, a request that writes and one that deletes a group in flight, 2 users, adoptions by groups of others, 1 name, 2 contents; fairness | `IInv`, `SyncedFirewall`, `GroupKept`, `AppliesEnd` | hold |
| `group_patch` | 1 VM, 1 request of any kind, 1 user | `PendingHasTask` | violated |
| `admission` | 2 requests in flight, 2 users, 2 vmids, 2 nodes, 2 sizes, 2 groups | `IInv`, `Balanced`, `QuotaRespected` | hold |
| `provision` | 2 nodes, 2 storages, 2 sizes, 2 attempts, VMs new or adopted; fairness | `IInv`, `DoneAsAsked`, `DiskWithin`, `AttemptsEnd` | hold |
| `deployment` | server and worker, 3 migrations, 2 clusters, 2 open or finished rows, ages up to 4; fairness | `RoundInv`, `IInv`, `AppliedOnce`, `RoundsMigrated`, `ScansDrain`, `EveryPartRuns` | hold |

Why the bounds are enough. VMs share nothing but the worker, so one VM shows
what handlers and worker do to each other; the theorems are for any number. One
request in flight already interleaves with every step of the worker; two make
stale commits meet (`config`, `inventory`, `network`, `admission`; for `VmLifecycle` the
proof of `IInv` covers any number of requests). Three or four tasks are a running one,
one behind it, and one queued by a request that did not see the others; with one
automatic retry (the code has five) a task can fail, be retried and be exhausted.
Two settings are a stale one and a new one. In the inventory two births are two
creations that compete for a vmid, or a creation and a stranger that do; the first
address is `x.255`, so that the second needs the carry, and the second one is also
the one that strangers use and administrators choose. In `network` a content with
two rules and one without let the list shrink and grow, and VMs have rules
nobody asked for from the start; two users let a VM change hands. Two requests meet there
in one way that matters, a deletion of a group and something that refers to it, and `Ops`
has these two; requests of one step (a patch of a group, a deletion of a VM) come at any time.
The proofs are for any two requests. In `admission` the weaker
group beats the other in the number of VMs alone, so that limits of two groups mix,
and the two sizes differ in opposite directions. In `provision` a disk may have to grow
twice, and an adopted VM runs when its TPM state has to be moved. In `config` the variable `family`
chooses, once, whether the requests are patches of settings and passwords or patches and
power requests: all three at once are too many states, and `Converged` is for runs
without power requests anyway. In `deployment` the ages are those of the code in their order
(one minute, ten, thirty, a day); with two rows a failed task waits for its retry beside its
successor, and a limit of one makes the batch shorter than what is ready; of two clusters
one may fail for ever; the migrations are one that must not be repeated, one without an
effect and one that fails if repeated. `MaxSeq`,
`ClientSeqs`, `MaxTasks`, `MaxRetries`, `Ops`, `Powers`, `Faulty`, `MaxBirths`,
`Strangers`, `Chosen`, `Contents`, `Addresses`, `Strange`, `Untouched`, `Restrictions`,
`ForeignGroups`, `Sizes`, `Memberships`, `Found`, `Disks`, `Attempts`, `Adopted` and `MaxRows` are
the bounds; the proofs are for all values of theirs, apart from the hypotheses the
theorems name. Deadlock is not checked in the runs of `ConfigSync`: users may stop
asking for things, and `MaxTasks` stops them.

`Converged` and `PowerConverged` speak of states in which no exhausted task was
purged (`purged`, a history variable): a task that was purged was never carried out.
`RealTruthful` is for runs without reboots, for the reason given below.

### What the violated runs show

- `due`: restoring a VM does not stop a deletion the worker holds a copy of, nor
  one that has failed and waits for its retry. The VM may be destroyed although
  its row no longer asks for it, or asks for it later.
- `password_race`: `markPasswordSynced` marks a password it did not push.
- `group_patch`: a patch of a security group marks the VMs of the group pending and
  answers `"requeued": true`, but queues no task. The VMs stay pending, with the old
  rules, until something else about them changes.

### Met while modelling, without a run of their own

Where a property is restricted, this is what lies outside it. The models contain all
of these steps.

Lifecycle and configuration:

- Of two deletions that are both checked before either is committed (`vm_handlers.go:1105`) the
  second one moves the deadline on, while the worker may hold a task with the first. `DueInv`
  and `DestroyedWhenDue` are for one request at a time; that a deletion is requested when a VM
  is destroyed is proved for any number of them.
- A failed deletion survives a restore (`vm_handlers.go:1220`): the restore cancels
  pending and running tasks only, and the retry is due later.
- A power request writes back the `prefer_status_json` it loaded
  (`vm_handlers.go:117`): settings of a patch that committed meanwhile are undone in the
  row, and the power task does not apply settings. `Converged` is for runs without power
  requests.
- `reboot` stays the desired power; every later apply reports the VM as running
  (`worker.go:874`), also one that had to stop it to move its TPM state.
- After a day an exhausted apply task is purged, and a power task behind it marks the
  row as synced (`worker.go:413`).
- A password marked as pushed stays marked when the VM is rolled back
  (`worker.go:907`), and marking it writes back a `config_json` that may have been
  replaced (`worker.go:1902`).

Inventory and addresses:

- The scan looks a row up, asks the cluster for the VM's configuration, and updates by
  id (`worker.go:1786`): a VM that was adopted in between is managed and has its name,
  address and configuration replaced by what was scanned.
- The address of a new VM is not compared with addresses that were scanned or chosen;
  `DerivedAddresses` is about derived ones for that reason.
- A creation gets a vmid that a stranger has taken since the last scan, and its task
  then configures the stranger's VM; `ScannedKept` says this is over once a scan has
  seen it.
- Adopting a row that a sweep has just marked deleted leaves a managed row that is
  deleted.

Quotas:

- Two requests of one user that add up his VMs before either writes are both let in
  (`vm_handlers.go:394`); `QuotaRespected` is for requests whose figures are still good.
- A patch takes the VM's old size away from the new owner's usage, which does not
  contain it (`vm_handlers.go:940`): a change of owner may exceed his quota.
- The end of an exemption is not checked (`template_handlers.go:430`; `docs/api.md:187`
  says it is, against the owner's quota), and an adoption
  always writes that the VM is not exempt (`vm_handlers.go:1720`).
- `storage_key` may be changed by a patch (`vm_handlers.go:833`), although `docs/api.md:185` calls it immutable.

Security groups:

- Group deletion counts and then deletes (`security_handlers.go:213`): a request that has
  found the group and commits around the deletion leaves its VM without it. `GroupKept`
  holds for any number of requests but for these VMs (`crossed`).
- An adoption may name a group of another user (`security_group_owner`); the worker
  looks for the group under the owner's name. These VMs are `crossed` too.
- A group patched while the worker applies it is marked synced with the old rules
  (`overtaken`).

Provisioning:

- An attempt that ends between clone and migration leaves the VM on the template's
  node; the next attempt takes it as found and never migrates it (`astray`).
- A resize that goes on after the worker stopped waiting may be followed by another
  one computed from the old size; the disk is then larger than asked for, and every
  later attempt fails (`late`; `DiskWithin` excepts these runs).
- A configuration read while such a task still runs is out of date when it is used
  (`blind`).
- A roll-back cannot remove a VM that is already running.

Pool provisioner:

- Two nodes that both found the lock of a dead node stale remove it one after the other,
  the second one removing the lock the first has just made
  (`tool/pve-sso-login-pool-provisioner:249`); both then work.
- A run that outlasts `CLUSTER_LOCK_TTL_SECONDS` loses its lock to the next node that
  looks, and removes that one's lock when it ends.

## 4. Fairness

`VmLifecycle!FairSpec`: the worker is a loop in a process its supervisor
restarts (`restart: unless-stopped`), so its steps happen (`WF`); a task that has
been running or backing off long enough is noticed (`SF` on `BeginRound` and
`PickTasks` with nobody late); deadlines pass (`SF` on `DeadlinePasses`), and where finished rows are looked at by
one purge after the other, one of them has been a day old (`SF` on `PurgeRows`). Nothing is assumed
of users. The liveness properties speak of runs in which from some point on every
step is one of the regular actions and none a fault (`EventuallyReliable`), since a
PVE that is down for ever deletes nothing.

`PoolProvisioner!FairSpec`: a process that was started comes to its end, timers
start it again and again, and there are pauses, with nobody at work (`Quiet`), long enough
for a lock to age (`LockAges`): the timer fires every 5 minutes, and a run that finds the
lock taken ends at once. A run that outlasts the TTL is a fault, of which
`UsersProvisioned` supposes only that they come to an end.

`SecurityGroups!FairSpec` and `Provision!FairSpec`: the worker goes on with what is open,
and PVE tasks end. `AppliesEnd` and `AttemptsEnd` are about runs in which from some point
on nobody asks for anything and nothing fails; whatever has failed before, and at
whichever request, may have left anything behind. `AppliesEnd` says nothing of a VM whose
group may be gone (`crossed`): each attempt fails there, up to the limit that
`VmLifecycle` has. In `Provision` what cannot succeed is
not a fault and belongs to the regular steps (`AttemptRefused`).

`Deployment!DeploymentSpec`: processes that ended are started again and what they do at
start-up comes to an end (`WF` on `StartUp`), rounds go on (`WF` on `Rounds`), time passes
(`SF` on the clock, which stands still while the worker is between two statements of a
round). A Go map is iterated in a random order, each time anew: a part of the scan that is
reached again and again begins with each cluster again and again (`SF` on `BeginsWith`, for
the two parts where the order matters). Without that assumption `EveryPartRuns` fails:
a cluster that never answers could always come first. `ScansDrain` and `EveryPartRuns` are
about runs in which processes stay up and statements succeed from some point on
(`EventuallyReliable`); in the latter PVE may go on failing, but for the cluster it is about.

`Inventory!FairSpec`: a scan that can go on does, and a new one begins
(`ensureMaintenanceTasks` queues one every ten minutes, and the worker runs it
between its rounds). `InventoryConverges` is about runs in which from some point on
only the worker acts (`EventuallyCalm`): nothing is assumed of users, of tasks or of
the cluster before.

## 5. Proofs

| theorem | says, for all constants |
|---|---|
| `VmLifecycleProofs!TypeCorrect`, `Invariance` | `[]TypeOK`, `[]IInv` |
| `...!SerialExecutionHolds` | tasks of a VM one at a time and in order |
| `...!NoOrphanHolds`, `SyncedVMExistsHolds` | rows marked deleted have no VM, rows shown as synced have theirs |
| `...!RetryBudgetHolds` | an exhausted task is not started again without a user (action property) |
| `...!DueInvariance`, `DestroyedWhenDueHolds` | without restores and with one request at a time, `[]DueInv`, and a VM is destroyed only when its deletion is requested and due (action property) |
| `...!AnnouncedInvariance`, `DestroyedOnRequest` | without restores, deadlines are kept only for VMs whose deletion is requested, and only these are destroyed (action property) |
| `...!QueuesAreSerialHolds` | `VmLifecycle` implements `SerialQueue` |
| `ConfigSyncProofs!TypeCorrect` | `[]TypeOK` |
| `ConfigSyncProofs!ConvergedHolds` | without power requests, `[]Converged` |
| `ConfigSyncProofs!PowerConvergedHolds` | without reboots, `[]PowerConverged` |
| `ConfigSyncProofs!RealTruthfulHolds` | without reboots, `[]RealTruthful` |
| `InventoryProofs!AddIPv4Adds` | `addIPv4` is addition, with overflow exactly where a fifth octet would be needed, for every address and offset |
| `InventoryProofs!Invariance`, `ScannedKeptHolds` | `[]IInv`, `[]ScannedKept` |
| `InventoryProofs!DerivedAddressesHolds` | derived addresses follow their vmids and are pairwise different |
| `InventoryProofs!ManagedNotSweptHolds` | only a requested deletion marks a managed row deleted (action property) |
| `PoolProvisionerProofs!Invariance`, `MutualExclusionHolds` | `[]IInv`; `[]MutualExclusion`, which is until a node dies or a run outlasts the TTL |
| `SecurityGroupsProofs!TypeCorrect`, `Invariance` | `[]TypeOK`, `[]IInv`, for any number of requests in flight |
| `SecurityGroupsProofs!GroupKeptHolds`, `SyncedFirewallHolds` | `[]GroupKept`, `[]SyncedFirewall`, likewise, adoptions by groups of others included |
| `AdmissionProofs!TypeCorrect`, `Invariance` | `[]TypeOK`, `[]IInv`, for any number of requests, users, groups and limits |
| `AdmissionProofs!BalancedHolds` | while creations place one after the other, `[]Balanced` |
| `AdmissionProofs!QuotaRespectedHolds` | no request whose figures are still good takes anybody over his quota or further over it (action property) |
| `ProvisionProofs!TypeCorrect`, `Invariance` | `[]TypeOK`, `[]IInv` |
| `ProvisionProofs!DoneAsAskedHolds`, `DiskWithinHolds` | VMs shown as synced are as asked; disks are no larger than asked for |
| `DeploymentProofs!Invariance`, `AppliedOnceHolds`, `RoundsMigratedHolds` | `[]IInv`, `[]AppliedOnce`, `[]RoundsMigrated`, for any list of migrations of any kinds |
| `DeploymentProofs!RoundInvariance`, `RoundTypeCorrect` | `[]RoundInv`, `[]RoundTypeOK` |

Assumptions: the named `ASSUME`s of the modules (bounds are positive numbers,
model values are different from each other), nothing else.

**VmLifecycle.** `SerialExecution` is not inductive: that a running task is the
head of its queue depends on nothing being inserted before it (`IsNextSeq`), on
the batch holding only heads, and on statements by id hitting a row that is still
there. `IInv` says so: `Control` (what the program counter says of the worker's
variables), `Requests` (a request in flight refers to a row and carries no trace of a
deletion), and for every VM `InOrder` (started tasks and the task in the batch are
heads), `Fits` (a job of the batch still describes its task), `Budget` (a job of the
batch may be started: its task has attempts left unless a user retried it), `Gone`
(deleted rows have no VM and no work in hand that would make one), `Clean` (a row
without a deletion keeps no trace of one, except a failed delete task at the head of
its queue), `Settled` (synced rows have their VM and nothing in hand would destroy
it), `Unborn` (no deletion before there is a row). The lemmas on the
statements of `VmTasks` say what each of them keeps of the queue. The step proof first
describes what any step may do to the queue (`QueueStep`) and to the row (`RowStep`) of a
VM, going through the actions once, and then shows each part of `IInv` from these.

That deletions are on time has an invariant of its own. A deadline is kept in three places -
the row, the payload of the task, the worker's copy - and the task goes by whichever it
finds first. `Announced` is that payloads and batch hold a deadline only if the row has
one, `OnTime` that theirs is not over before the row's. Only a deletion sets one (`Sets`), a
task that is picked copies one, time lets all of them pass at once (`DueStep`).
`Announced` needs that nobody restores (`NoRestores`): a restore leaves a failed deletion
with its payload. `OnTime` needs `OneAtATime` too, for the reason given in section 3
(`DeletesFresh`). Run `live` has both.

**VmQueue.** Each step of `VmLifecycle` is mapped by what it does to the rows that are open
or claimed by the batch: `IInv` (`InOrder` and `Fits` above all) says that the task in hand
is the first of them, `IsNextSeq` that a new one comes last; what cancels, finishes, purges or
requeues a row is a `Change`, an `End`, a `Die`, or nothing.

**ConfigSync.** Tasks are executed from stale copies, so that "the VM is as the row
asks" is false nearly all the time. What is kept is a promise: either the VM is as
the row asks, or a task is queued that will read the row again, or the worker is
carrying out a copy that agrees with the row (`SettingsInv`; `PowerInv` the same with
the power that the last task in the queue will set). With an empty queue only the
first case is left. `RealTruthful` rests on a smaller one: a row shown as synced was
written by the worker, which had just set or read what it wrote, and everything that
changes the VM's power since then goes on to write the row or to mark it (`TruthInv`).

**PoolProvisioner.** Until a node dies or a run outlasts the TTL the directory exists
exactly while one node holds it; locks age while nobody is at work, so none becomes old
and nobody gets as far as breaking one.

**Inventory.** Everything is about `Holders(v)`, the live rows of a vmid. Lemma
`Steps` says once what any step does to them: nothing, take one row away (a task
that deletes, or the sweep of a row that was selected), or add one of a vmid that
nobody holds. `OnePerVMID` is the unique index at work; `References` and `Origins` tie
requests and the scan's locals to rows that exist and say which rows can have a
template; `FoundListed` says that a VM that was found is on the list of a scan under
way, so that its row is not among those that will be swept. `DerivedAddresses` then
is `OnePerVMID`, the addition theorem, and that addition of different offsets gives
different sums.

**SecurityGroups.** `Progress` says how far `EnsureFirewall` has come with the VM in hand:
the positions still to be removed are those of the rules that are there, the last one
first; then the rules that are there are the first ones of the group and the positions
still to be added those that follow; at the end the firewall is `Wanted`. Each request
to PVE keeps this, and leaving a task anywhere gives it up together with the copy, which
is why no fault needs a case of its own. What a request has checked still holds when it
commits, unless it is a VM's that has `crossed` the deletion of its group (`Checked`), from
which groups are kept; and the copy agrees with the row unless a task is queued behind it
(`CopyGood`). That a task is queued behind every change of a row is what `SyncedFirewall`
hangs on; a patch of a group queues none, so that the VM in hand is `overtaken` by it.
`Crossing` is no wider than the race: both requests have made their checks and neither has
committed. Without it `GroupKept` is false: a creation that has found its group commits
after the group was deleted.

**Admission.** A user's usage is a sum over the rows of `vms`, and the sum of the community
modules is a recursive function on sets of VMIDs, CHOSEN. That there is such a function is
shown for the sets of at most `n` elements, by induction on `n`: the induction theorems of the
library take an operator and cannot be used, but the set of the `n` for which it holds has a
least number outside (`NatLessThanWellFounded`, `WFMin`). From there on writing one row
changes a sum by that row alone (`SumChanges`, `UsageByAfter`), and the rest about quotas and
nodes is arithmetic. `IInv` says of every request in flight that what it was checked for
would still pass if it were checked now, unless somebody's figures changed `beside` it
(`StillFits`), that the row it is about is there (`Refers`), and that while creations are
alone the node one has chosen is still the one with the lowest score (`ChosenStillLeast`):
the new VM then goes on top of a node that is not above any other, which is `Balanced`.

**Provision.** The worker works from two copies: of the row, which is as good as the row unless
another task is queued (`CopyGood`), and of the VM's configuration, which together with the
steps done since then describes the VM unless a PVE task ran when it was read (`Seen`). For
that the task the worker waits for must be one its step begins (`AwaitedTask`), there must be
no other one (`Watched`: none is left behind before one was abandoned), and there must be a VM
(`Present`), which is on its node unless an attempt ended between clone and migration
(`OnItsNode`). At the end of an attempt `Seen` and `CopyGood` are `DoneAsAsked`, and `Settled`
that no task changes the VM afterwards. `DiskWithin` is kept since a growth is computed from the
size that was read, up to the size of the copy, and sizes asked for do not shrink.

**Deployment.** That a migration is not applied twice depends on the primary key of
`schema_migrations` alone: two transactions may both have run the SQL of a migration that does
its work once more, but only one of them can insert the version, and the effect of the
other is rolled back. `IInv` says so (`CommitsAlone`), and that whoever has come to a
migration has seen those before it recorded (`SeenBefore`). `RoundsMigrated` follows
since a process is `up` only after the last one. The worker's rounds need an
invariant because they work from ids that were read before: `BatchInRound` is that there is
a batch only between reading it and its last task, so that nothing is purged meanwhile and its
ids stay those of rows; `LastNotDue` that the last row the bound allows for is not finished
long enough to get a successor. The purge renumbers rows by `Rank`; ranks are an injection
of the rows into as many numbers, hence each is taken and there is no gap.

Left to TLC: liveness (the provers know neither fairness nor ENABLED). Every invariant and
every action property of a passing run is a theorem, some with hypotheses, which the table
names and the run's bounds satisfy.

## 6. Mutants

Each property of a passing run has a mutant in the module, an operator named
after the definition it replaces and marked `Mutant:`, that makes a mistake this
code might have made: a `NOT EXISTS` left out, a roll-back that does not ask who
created the VM, a task not queued. TLC finds the property violated with it.

## 7. Not modelled, and why

- *Authentication*: each request stands alone; cookies are signed, not stored.
- *SSH keys, templates, listings*: single statements guarded by unique indexes.
- *Node and VM metrics*: only which clusters a scan serves (`Maintenance`); the samples are
  appended (nodes; nothing reads or purges them) or replaced as a whole (VMs).
- *PVE client*: the cluster's behaviour is modelled where it is used, by what
  calls return and when they fail, above all in `Provision` and `VmFirewall`.
- *`migrate_sqlite_to_pg.py`*: run once by hand against a database that nobody uses yet.
- *Web front end*: no state the back end depends on.
- *Flags, files and the HTTP listener* of the two processes. That there is one worker is an
  assumption of `VmLifecycle`, `Deployment` and others (`docker-compose.yml`).
- *Limit of 20 tasks per round*: `VmLifecycle` is for 20 VMs or fewer. Beyond that, 20 VMs with
  lower ids that always have work keep the others waiting; nothing in the code prevents it.

## 8. Open ends

Each component of the program that keeps shared state is modelled, as far as section 7 does
not say otherwise. What could be added, in the order of what it would show:

1. `ConfigSync` with deletion and restore (the power a VM is restored to).
2. The limit of 20 tasks per round, with more VMs than that have work.
