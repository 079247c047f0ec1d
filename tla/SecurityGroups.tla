----------------------------- MODULE SecurityGroups -----------------------------
(***************************************************************************)
(* Security groups, the VMs that refer to them, and the firewall the VMs   *)
(* end up with.                                                            *)
(*                                                                         *)
(* A group belongs to a user and has a name; a VM's row has an owner and   *)
(* the name of a group, nothing else ties the two.  Users change groups    *)
(* and VMs; handlers check first and write later.  The worker carries out  *)
(* apply tasks from a copy of the row and reads the group only when it     *)
(* comes to the firewall.                                                  *)
(*                                                                         *)
(* The queue of a VM is here whether an apply task is open, and a deletion *)
(* is carried out at once: VmLifecycle has the details of both.            *)
(***************************************************************************)
EXTENDS VmFirewall, FiniteSets

CONSTANTS
  Clients,       \* requests that may be in flight at the same time
  Ops,           \* bound: what each of them may be, of those that take two steps
  Users, Names,  \* owners and names of groups
  Limit,         \* config: groups per user
  ForeignGroups, \* bound: adoptions name another user's group
  Restrictions   \* bound: of uestc_restricted

VARIABLES
  groups,    \* the security_groups table
  row,       \* the vms table
  open,      \* VMs with an apply task that is to be carried out
  req,       \* requests between their check and their commit
  overtaken, \* history: VMs whose group was patched while the worker applied it
  crossed    \* history: VMs whose request crossed the deletion of its group,
             \* or that were adopted by another user's group

vars == <<pve, wpc, job, todo, groups, row, open, req, overtaken, crossed>>

ASSUME LimitAssumption == Limit \in Nat \ {0}
ASSUME ForeignAssumption == ForeignGroups \in BOOLEAN
ASSUME RestrictedAssumption == Restrictions \subseteq BOOLEAN

Keys == Users \X Names

\* A managed VM; leaving: delete_requested_at is set.
Row == [known : {"managed"}, owner : Users, name : Names, addr : Addresses,
        restricted : Restrictions, leaving : BOOLEAN,
        sync : {"pending", "synced", "failed", "deleting"}]
NoRow     == [known |-> "no"]
Unmanaged == [known |-> "unmanaged"]  \* written by the scan

Key(r) == <<r.owner, r.name>>

NoRequest == [op |-> "idle"]
Request   == [op : {"create", "patch", "adopt"}, v : VMs, row : Row]
               \union [op : {"newGroup"}, key : Keys, content : Contents]
               \union [op : {"delete"}, key : Keys]

NoJob == [v |-> None]
Job   == [v : VMs, owner : Users, name : Names, addr : Addresses,
          restricted : Restrictions, content : Contents \union {None}]

TypeOK ==
  /\ pve \in [VMs -> Firewall]
  /\ wpc \in Working \union {"idle"}
  /\ job \in Job \union {NoJob} /\ (job = NoJob <=> wpc = "idle")
  /\ todo \in Seq(Nat)
  /\ groups \in [Keys -> Contents \union {None}]
  /\ row \in [VMs -> Row \union {NoRow, Unmanaged}]
  /\ open \subseteq VMs
  /\ req \in [Clients -> Request \union {NoRequest}]
  /\ overtaken \subseteq VMs /\ crossed \subseteq VMs

Init ==
  /\ pve \in [VMs -> Untouched]
  /\ wpc = "idle" /\ job = NoJob /\ todo = <<>>
  /\ groups = [k \in Keys |-> None]
  /\ row \in [VMs -> {NoRow, Unmanaged}]
  /\ open = {} /\ overtaken = {} /\ crossed = {}
  /\ req = [c \in Clients |-> NoRequest]

--------------------------------------------------------------------------------
(* The server.                                                             *)

Begins(c, q) == req[c] = NoRequest /\ q.op \in Ops[c] /\ req' = [req EXCEPT ![c] = q]
Ends(c)      == req' = [req EXCEPT ![c] = NoRequest]
Exists(k)    == groups[k] # None
GroupsOf(u)  == {n \in Names : Exists(<<u, n>>)}
Managed(v)   == row[v].known = "managed"
UsedBy(k)    == {v \in VMs : Managed(v) /\ Key(row[v]) = k}
Leaving(v)   == row[v].leaving \/ row[v].sync = "deleting"

LooksUp(c, q) == Begins(c, q) /\ UNCHANGED <<fwVars, groups, row, open, overtaken>>
Checks(c, q)  == LooksUp(c, q) /\ UNCHANGED crossed

\* The request c is to write v with the group that d deletes: both have passed
\* their checks, neither has written.
Crosses(c, d, v) ==
  /\ req[c].op \in {"create", "adopt", "patch"} /\ req[c].v = v
  /\ req[d].op = "delete" /\ req[d].key = Key(req[c].row)

\* The VMs for which c, the first of the two to write, meets such a request.
Crossing(c) == {v \in VMs : \E d \in Clients : Crosses(c, d, v) \/ Crosses(d, c, v)}

\* handleCreateSecurityGroup counts before it inserts; the unique index
\* refuses a name that exists.
LoadNewGroup(c, k, content) ==
  /\ Cardinality(GroupsOf(k[1])) + 1 <= Limit
  /\ Checks(c, [op |-> "newGroup", key |-> k, content |-> content])

CommitNewGroup(c) ==
  /\ req[c].op = "newGroup"
  /\ ~Exists(req[c].key)
  /\ groups' = [groups EXCEPT ![req[c].key] = req[c].content]
  /\ Ends(c)
  /\ UNCHANGED <<fwVars, row, open, overtaken, crossed>>

\* VMs whose firewall the worker is writing from what the group held before.
BeingApplied(k) == {v \in UsedBy(k) : wpc \notin {"idle", "picked"} /\ job.v = v}

\* handlePatchSecurityGroup, one transaction: the VMs of the group are marked
\* pending, no task is queued for them.
PatchGroup(c, k, content) ==
  /\ req[c] = NoRequest
  /\ Exists(k) /\ groups[k] # content
  /\ groups' = [groups EXCEPT ![k] = content]
  /\ row' = [v \in VMs |-> IF v \in UsedBy(k) /\ row[v].sync # "deleting"
                           THEN [row[v] EXCEPT !.sync = "pending"] ELSE row[v]]
  /\ overtaken' = overtaken \union BeingApplied(k)
  /\ UNCHANGED <<fwVars, open, req, crossed>>

\* Mutant: VMs that await their deletion do not count.
LoadDeleteGroupUnlessLeaving(c, k) ==
  /\ Exists(k) /\ \A v \in UsedBy(k) : row[v].sync = "deleting"
  /\ Checks(c, [op |-> "delete", key |-> k])

\* handleDeleteSecurityGroup counts the VMs and then deletes.
LoadDeleteGroup(c, k) ==
  /\ Exists(k) /\ UsedBy(k) = {}
  /\ Checks(c, [op |-> "delete", key |-> k])

CommitDeleteGroup(c) ==
  /\ req[c].op = "delete"
  /\ groups' = [groups EXCEPT ![req[c].key] = None]
  /\ crossed' = crossed \union Crossing(c)
  /\ Ends(c)
  /\ UNCHANGED <<fwVars, row, open, overtaken>>

NewRow(u, n, a, restricted) ==
  [known |-> "managed", owner |-> u, name |-> n, addr |-> a,
   restricted |-> restricted, leaving |-> FALSE, sync |-> "pending"]

\* handleCreateVM: the group must be the caller's.
LoadCreateVM(c, v, u, n, a, restricted) ==
  /\ row[v] = NoRow /\ Exists(<<u, n>>)
  /\ Checks(c, [op |-> "create", v |-> v, row |-> NewRow(u, n, a, restricted)])

\* handleAdminAdoptVM looks the group up under security_group_owner, which
\* need not be the owner.
LoadAdoptVM(c, v, u, n, a, restricted) ==
  /\ row[v] = Unmanaged
  /\ \E sgOwner \in Users :
       /\ sgOwner = u \/ ForeignGroups
       /\ Exists(<<sgOwner, n>>)
       /\ crossed' = IF sgOwner = u THEN crossed ELSE crossed \union {v}
  /\ LooksUp(c, [op |-> "adopt", v |-> v, row |-> NewRow(u, n, a, restricted)])

\* Mutant: a change of owner alone does not look for the group.
LoadPatchVMOwnerOnly(c, v, u, n, a, restricted) ==
  /\ Managed(v) /\ ~Leaving(v)
  /\ n # row[v].name => Exists(<<u, n>>)
  /\ Checks(c, [op |-> "patch", v |-> v,
                row |-> [row[v] EXCEPT !.owner = u, !.name = n, !.addr = a,
                                       !.restricted = restricted]])

\* handlePatchVM and handleAdminPatchVM, which changes the address: the group
\* the VM is to have must be there for the owner it is to have if either is
\* changed.
LoadPatchVM(c, v, u, n, a, restricted) ==
  /\ Managed(v) /\ ~Leaving(v)
  /\ <<u, n>> # Key(row[v]) => Exists(<<u, n>>)
  /\ Checks(c, [op |-> "patch", v |-> v,
                row |-> [row[v] EXCEPT !.owner = u, !.name = n, !.addr = a,
                                       !.restricted = restricted]])

\* Each of the three writes the row and queues a task for it.
CommitVM(c) ==
  /\ req[c].op \in {"create", "adopt", "patch"}
  /\ LET v == req[c].v
     IN /\ row[v].known = CASE req[c].op = "create" -> "no"
                            [] req[c].op = "adopt"  -> "unmanaged"
                            [] req[c].op = "patch"  -> "managed"
        /\ row' = [row EXCEPT ![v] = [req[c].row EXCEPT !.sync = "pending",
                                    !.leaving = req[c].op = "patch" /\ row[v].leaving]]
        /\ open' = open \union {v}
  /\ crossed' = crossed \union Crossing(c)
  /\ Ends(c)
  /\ UNCHANGED <<fwVars, groups, overtaken>>

\* Another error: nothing is written.
RequestFails(c) ==
  /\ req[c] # NoRequest
  /\ Ends(c)
  /\ UNCHANGED <<fwVars, groups, row, open, overtaken, crossed>>

\* handleDeleteVM cancels the VM's tasks; handleRestoreVM queues a new one.
DeleteVM(c, v) ==
  /\ req[c] = NoRequest
  /\ Managed(v) /\ ~Leaving(v)
  /\ row' = [row EXCEPT ![v].leaving = TRUE, ![v].sync = "deleting"]
  /\ open' = open \ {v}
  /\ UNCHANGED <<fwVars, groups, req, overtaken, crossed>>

RestoreVM(c, v) ==
  /\ req[c] = NoRequest
  /\ Managed(v) /\ Leaving(v)
  /\ row' = [row EXCEPT ![v].leaving = FALSE, ![v].sync = "pending"]
  /\ open' = open \union {v}
  /\ UNCHANGED <<fwVars, groups, req, overtaken, crossed>>

Server ==
  \E c \in Clients :
    \/ \E k \in Keys, content \in Contents : LoadNewGroup(c, k, content) \/ PatchGroup(c, k, content)
    \/ \E k \in Keys : LoadDeleteGroup(c, k)
    \/ \E v \in VMs : DeleteVM(c, v) \/ RestoreVM(c, v)
    \/ \E v \in VMs, u \in Users, n \in Names, a \in Addresses, restricted \in Restrictions :
         \/ LoadCreateVM(c, v, u, n, a, restricted)
         \/ LoadAdoptVM(c, v, u, n, a, restricted)
         \/ LoadPatchVM(c, v, u, n, a, restricted)
    \/ CommitNewGroup(c) \/ CommitDeleteGroup(c) \/ CommitVM(c) \/ RequestFails(c)

--------------------------------------------------------------------------------
(* The worker.                                                             *)

\* pendingTasks hands out a copy of the row; what syncPresent does before the
\* firewall is of no account here.
PickTask(v) ==
  /\ wpc = "idle" /\ v \in open /\ Managed(v) /\ ~row[v].leaving
  /\ wpc' = "picked"
  /\ job' = [v |-> v, owner |-> row[v].owner, name |-> row[v].name,
             addr |-> row[v].addr, restricted |-> row[v].restricted, content |-> None]
  /\ open' = open \ {v}
  /\ UNCHANGED <<pve, todo, groups, row, req, overtaken, crossed>>

\* syncFirewall, loadSecurityGroupConfig: the group as it is now, for the
\* owner and name of the copy.
LoadGroup ==
  /\ wpc = "picked" /\ Exists(Key(job))
  /\ StartFirewall(groups[Key(job)])
  /\ overtaken' = overtaken \ {job.v}
  /\ UNCHANGED <<groups, row, open, req, crossed>>

Apply == EnsureFirewall /\ UNCHANGED <<groups, row, open, req, overtaken, crossed>>

\* markSynced, by id.
MarkSynced ==
  /\ wpc = "mark"
  /\ row' = IF Managed(job.v) THEN [row EXCEPT ![job.v].sync = "synced"] ELSE row
  /\ wpc' = "idle" /\ job' = NoJob
  /\ UNCHANGED <<pve, todo, groups, open, req, overtaken, crossed>>

\* The task is tried again or, after the last attempt, given up (markFailed).
\* A VM that this attempt cloned is removed; the next one clones another.
LeaveTask ==
  /\ \/ open' = open \union {job.v} /\ UNCHANGED row
     \/ /\ row' = IF Managed(job.v) THEN [row EXCEPT ![job.v].sync = "failed"] ELSE row
        /\ UNCHANGED open
  /\ \/ UNCHANGED pve
     \/ \E f \in Untouched : Sets(f)
  /\ wpc' = "idle" /\ job' = NoJob /\ todo' = <<>>
  /\ UNCHANGED <<groups, req, overtaken, crossed>>

\* No group for the owner and name of the copy.
GroupMissing == wpc = "picked" /\ ~Exists(Key(job)) /\ LeaveTask

\* A request to PVE or to the database fails, or the worker dies.
ApplyFails == wpc # "idle" /\ LeaveTask

\* syncDelete and markDeleted.
DestroyVM(v) ==
  /\ wpc = "idle" /\ Managed(v) /\ row[v].leaving
  /\ row' = [row EXCEPT ![v] = NoRow]
  /\ open' = open \ {v}
  /\ \E f \in Untouched : pve' = [pve EXCEPT ![v] = f]
  /\ UNCHANGED <<wpc, job, todo, groups, req, overtaken, crossed>>

Worker ==
  (\E v \in VMs : PickTask(v) \/ DestroyVM(v))
    \/ LoadGroup \/ GroupMissing \/ Apply \/ MarkSynced

Next == Server \/ Worker \/ ApplyFails

Spec == Init /\ [][Next]_vars

\* The worker goes on with what is open.
FairSpec == Spec /\ WF_vars(Worker)

--------------------------------------------------------------------------------
\* A VM shown as synced, with nothing left to do for it, has the firewall
\* that its row and the present content of its group ask for, from whatever
\* it had, whichever request to PVE failed on the way (EnsureFirewall) and
\* however the requests that changed row and group were mixed.  A group patched
\* while the worker writes the rules is the one exception, for markSynced does
\* not look whether the row was marked pending again; VMs whose group may be
\* another by now (crossed) are the other.
SyncedFirewall ==
  \A v \in VMs \ (overtaken \union crossed) :
    Managed(v) /\ row[v].sync = "synced" /\ ~row[v].leaving /\ v \notin open /\ job.v # v
      => pve[v] = Wanted(row[v], groups[Key(row[v])])

\* The group of a VM exists, one that awaits its deletion and may be restored
\* included, whatever requests are in flight together: a VM can be left without
\* its group in two ways only.  One of its requests and the deletion of the
\* very group that request names had both passed their checks before either
\* wrote (handleDeleteSecurityGroup counts and deletes in two statements), or
\* an administrator adopted it by the group of another user.
GroupKept == \A v \in VMs \ crossed : Managed(v) => Exists(Key(row[v]))

(* The parts of the inductive invariant.                                   *)

\* A request that has passed its check can rely on it, but for what crossed it.
Checked ==
  \A c \in Clients :
    /\ req[c].op = "delete" => UsedBy(req[c].key) \subseteq crossed
    /\ req[c].op \in {"create", "adopt", "patch"} =>
         req[c].v \in crossed \/ Exists(Key(req[c].row))

\* How far the firewall of the VM in hand has come.
Progress ==
  wpc \notin {"idle", "picked"} =>
    LET f == pve[job.v]
        w == job.content
    IN /\ w # None
       /\ wpc = "clear" => todo = DeleteOrder(Len(f.rules))
       /\ wpc = "add"   => \E k \in 0 .. Len(w.rules) :
                            /\ f.rules = SubSeq(w.rules, 1, k)
                            /\ todo = [i \in 1 .. Len(w.rules) - k |-> k + i]
       /\ wpc = "ipset" => f.rules = w.rules /\ f.policy = w.policy
       /\ wpc = "mark"  => f = Wanted(job, w)

\* The copy is as good as the row unless a task is queued behind it.
CopyGood ==
  wpc # "idle" /\ Managed(job.v) /\ ~row[job.v].leaving /\ job.v \notin open =>
    LET r == row[job.v]
    IN /\ Key(job) = Key(r) /\ job.addr = r.addr /\ job.restricted = r.restricted
       /\ wpc # "picked" /\ job.v \notin overtaken \union crossed
            => job.content = groups[Key(r)]

IInv == TypeOK /\ Checked /\ Progress /\ CopyGood /\ GroupKept /\ SyncedFirewall

\* Nobody asks for anything and nothing fails.
EventuallyCalm == <>[][Worker]_vars

\* Every apply task comes to an end (clearFirewallRules and ensureVMIPSet
\* never wait for a rule or an entry that is not there).  A VM whose group is
\* not there may be tried in vain, here as often as one likes; VmLifecycle has
\* the limit of attempts.
AppliesEnd ==
  EventuallyCalm =>
    <>[](\A v \in VMs \ crossed :
           job.v # v /\ (v \in open => ~Managed(v) \/ row[v].leaving))

\* A VM marked for synchronisation is synchronised: there is a task for it
\* ("requeued" in the answer of handlePatchSecurityGroup).  Not so.
PendingHasTask ==
  \A v \in VMs : Managed(v) /\ row[v].sync = "pending" => v \in open \/ job.v = v
================================================================================
