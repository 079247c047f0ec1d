-------------------------------- MODULE Admission --------------------------------
(***************************************************************************)
(* Which VMs the server lets in, and on which node it puts them.           *)
(*                                                                         *)
(* A user's VMs count against a quota, the best his groups give him, except*)
(* for those that are exempt.  Creation, patch, change of owner and        *)
(* adoption add up what the user has, compare, and write some statements   *)
(* later.  A creation picks the node of the new VM in its transaction:     *)
(* the one that would be the least loaded with it.                         *)
(*                                                                         *)
(* One cluster with one cpu class and one storage.                         *)
(***************************************************************************)
EXTENDS Integers, FiniteSets, FiniteSetsExt

CONSTANTS
  Clients,      \* requests that may be in flight at the same time
  Users,
  VMIDs,        \* config: vmids that are given away
  Nodes,        \* config: nodes of the cpu class, numbered in the order of their names
  TemplateNode, \* where the template is
  CPULimit, MemoryLimit, \* config: of the cpu class
  DiskLimit,    \* config: of the storage
  GroupLimits,  \* config: user.limit, for every group that has one
  Memberships,  \* bound: sets of those groups a user may be in
  Sizes,        \* bound: what VMs are asked to have
  Found         \* bound: vmids and nodes of the VMs that are found

Quota == [number : Nat, cpu : Nat, memory : Nat, storage : Nat]
Size  == [cpu : Nat \ {0}, memory : Nat \ {0}, disk : Nat \ {0}]

ASSUME NodesAssumption  == Nodes \subseteq Nat /\ Nodes # {} /\ IsFiniteSet(Nodes)
ASSUME VmidAssumption   == VMIDs \subseteq Nat /\ IsFiniteSet(VMIDs)
ASSUME FoundAssumption  == Found \subseteq VMIDs \X Nodes
\* Validate does not look at the limits of the options.
ASSUME OptionAssumption == {CPULimit, MemoryLimit, DiskLimit} \subseteq Int
ASSUME SizeAssumption   == Sizes \subseteq Size
\* Validate: limits of groups are not negative.
ASSUME LimitAssumption  == /\ \A g \in DOMAIN GroupLimits : GroupLimits[g] \in Quota
                           /\ IsFiniteSet(DOMAIN GroupLimits)

ASSUME MemberAssumption == Memberships \subseteq SUBSET DOMAIN GroupLimits

VARIABLES
  rows,    \* the live rows of the vms table, by vmid
  member,  \* users.groups_json, as of the last login
  req,     \* requests between their check and their commit
  settled  \* history: nothing but creations, one at a time, has changed the table

vars == <<rows, member, req, settled>>

Groups == DOMAIN GroupLimits
NoRow  == [known |-> "no"]

\* node: the column node, or target_node while that one is empty.
Row == [known : {"managed"}, owner : Users, exempt : BOOLEAN, size : Sizes, node : Nodes]
Unmanaged == [known |-> "unmanaged"]

\* beside: the owner's VMs, or his groups, have changed since the request
\* added them up.
NoRequest == [op |-> "idle"]
Request ==
  [op : {"create"}, owner : Users, size : Sizes, beside : BOOLEAN]
    \union [op : {"placed"}, v : VMIDs, owner : Users, size : Sizes, node : Nodes, beside : BOOLEAN]
    \union [op : {"adopt", "patch", "exempt"}, v : VMIDs, owner : Users, size : Sizes,
            exempt : BOOLEAN, beside : BOOLEAN]

TypeOK ==
  /\ rows \in [VMIDs -> Row \union {NoRow, Unmanaged}]
  /\ member \in [Users -> Memberships]
  /\ req \in [Clients -> Request \union {NoRequest}]
  /\ settled \in BOOLEAN

Init ==
  /\ rows = [v \in VMIDs |-> NoRow]
  /\ member \in [Users -> Memberships]
  /\ req = [c \in Clients |-> NoRequest]
  /\ settled = TRUE

--------------------------------------------------------------------------------
(* Quotas.                                                                 *)

Best(S) == IF S = {} THEN 0 ELSE CHOOSE m \in S : \A n \in S : n <= m

\* EffectiveUserLimit: of every limit the highest one among the groups.
EffectiveUserLimit(gs) ==
  [number  |-> Best({GroupLimits[g].number : g \in gs}),
   cpu     |-> Best({GroupLimits[g].cpu : g \in gs}),
   memory  |-> Best({GroupLimits[g].memory : g \in gs}),
   storage |-> Best({GroupLimits[g].storage : g \in gs})]

EffectiveQuota(u) == EffectiveUserLimit(member[u])

\* listUserVMUsage
Managed(v)    == rows[v].known = "managed"
CountedVMs(u) == {v \in VMIDs : Managed(v) /\ rows[v].owner = u /\ ~rows[v].exempt}
Sum(h)        == MapThenSumSet(LAMBDA v : h[v], VMIDs)
Total(S, k)   == Sum([v \in VMIDs |-> IF v \in S THEN rows[v].size[k] ELSE 0])
UsageOf(S)    == [number |-> Cardinality(S), cpu |-> Total(S, "cpu"), memory |-> Total(S, "memory"),
                  storage |-> Total(S, "disk")]

\* Mutant: the VM that is asked for is not counted itself.
WithBare(use, size) ==
  [use EXCEPT !.cpu = @ + size.cpu, !.memory = @ + size.memory, !.storage = @ + size.disk]

With(use, size) ==
  [number |-> use.number + 1, cpu |-> use.cpu + size.cpu,
   memory |-> use.memory + size.memory, storage |-> use.storage + size.disk]

Fits(use, quota) ==
  /\ use.number <= quota.number /\ use.cpu <= quota.cpu
  /\ use.memory <= quota.memory /\ use.storage <= quota.storage

WithinOptions(size) ==
  size.cpu <= CPULimit /\ size.memory <= MemoryLimit /\ size.disk <= DiskLimit

Configured(quota) ==
  quota.number > 0 /\ quota.cpu > 0 /\ quota.memory > 0 /\ quota.storage > 0

--------------------------------------------------------------------------------
(* Nodes.                                                                  *)

\* resourceRatio: the two ratios of a node over the same denominator, the
\* product of the limits; without a positive limit a ratio is zero and its
\* limit is left out of the denominator.
Ratio(value, limit, other) ==
  IF limit <= 0 THEN 0 ELSE IF other <= 0 THEN value ELSE value * other

CPURatio(cpu)    == Ratio(cpu, CPULimit, MemoryLimit)
MemRatio(memory) == Ratio(memory, MemoryLimit, CPULimit)

\* staticAllocationScore, nodePlacementCPUWeight and nodePlacementMemWeight.
Score(cpu, memory) == 35 * CPURatio(cpu) + 65 * MemRatio(memory)

\* nodeStaticAllocation; VMs that are exempt from quotas count here.
PlacedOn(n)     == {v \in VMIDs : Managed(v) /\ rows[v].node = n}
AllocatedCPU(n) == UsageOf(PlacedOn(n)).cpu
AllocatedMem(n) == UsageOf(PlacedOn(n)).memory
NodeScore(n)    == Score(AllocatedCPU(n), AllocatedMem(n))

\* betterStaticAllocationNode: score, memory, cpu, the template's node, name.
Before(a, b) ==
  \E i \in DOMAIN a : a[i] < b[i] /\ \A j \in 1 .. i - 1 : a[j] = b[j]

Merits(n, size) ==
  LET cpu == AllocatedCPU(n) + size.cpu
      mem == AllocatedMem(n) + size.memory
  IN <<Score(cpu, mem), MemRatio(mem), CPURatio(cpu), IF n = TemplateNode THEN 0 ELSE 1, n>>

\* Mutant: the first node, whatever is on it.
ChosenByName(size) ==
  CHOOSE n \in Nodes : \A m \in Nodes \ {n} : n < m

\* choosePlacementNode, lowestStaticAllocationNode
Chosen(size) ==
  CHOOSE n \in Nodes : \A m \in Nodes \ {n} : Before(Merits(n, size), Merits(m, size))

\* nextClusterVMID
FreeVMIDs == {v \in VMIDs : rows[v] = NoRow}

\* Mutant: the vmid after the last one, gaps and the limit are overlooked.
NextVMIDAfterLast ==
  CHOOSE v \in VMIDs \union {w + 1 : w \in VMIDs} :
    \A w \in VMIDs : IF w < v THEN w = v - 1 => rows[w] # NoRow ELSE rows[w] = NoRow

NextVMID  == CHOOSE v \in FreeVMIDs : \A w \in FreeVMIDs : v <= w

--------------------------------------------------------------------------------
Idle(c)      == req[c] = NoRequest
Begins(c, q) == req' = [req EXCEPT ![c] = q] /\ UNCHANGED <<rows, member, settled>>

\* The write of c: requests that have added up the VMs of one of the owners
\* before it go by figures that are no longer good.
Writes(c, v, row) ==
  LET owners == {r.owner : r \in {r \in {rows[v], row} : r.known = "managed"}}
  IN /\ rows' = [rows EXCEPT ![v] = row]
     /\ req' = [d \in Clients |->
                  IF d = c THEN NoRequest
                  ELSE IF req[d] # NoRequest /\ req[d].owner \in owners
                  THEN [req[d] EXCEPT !.beside = TRUE] ELSE req[d]]
     /\ UNCHANGED member

\* Patches, adoptions and deletions move VMs and sizes as they like.
Unsettles == settled' = FALSE

\* handleCreateVM up to its transaction.
LoadCreate(c, u, size) ==
  /\ Idle(c) /\ WithinOptions(size)
  /\ Configured(EffectiveQuota(u))
  /\ Fits(With(UsageOf(CountedVMs(u)), size), EffectiveQuota(u))
  /\ Begins(c, [op |-> "create", owner |-> u, size |-> size, beside |-> FALSE])

\* The transaction reads the vms table for a vmid and a node...
PlaceVM(c) ==
  /\ req[c].op = "create" /\ FreeVMIDs # {}
  /\ req' = [req EXCEPT ![c] = [op |-> "placed", v |-> NextVMID, owner |-> req[c].owner,
                                size |-> req[c].size, node |-> Chosen(req[c].size),
                                beside |-> req[c].beside]]
  /\ UNCHANGED <<rows, member, settled>>

\* ... and inserts: the unique index refuses a vmid that is taken by now.
CommitCreate(c) ==
  /\ req[c].op = "placed" /\ rows[req[c].v] = NoRow
  /\ Writes(c, req[c].v, [known |-> "managed", owner |-> req[c].owner, exempt |-> FALSE,
                          size |-> req[c].size, node |-> req[c].node])
  /\ settled' = (settled /\ \A d \in Clients \ {c} : req[d].op # "placed")

\* handleAdminAdoptVM: as a creation, but any owner, and no need of a quota
\* that is configured.  quota_exempt is not looked at.
LoadAdopt(c, v, u, size) ==
  /\ Idle(c) /\ rows[v] = Unmanaged
  /\ WithinOptions(size)
  /\ Fits(With(UsageOf(CountedVMs(u)), size), EffectiveQuota(u))
  /\ Begins(c, [op |-> "adopt", v |-> v, owner |-> u, size |-> size, exempt |-> FALSE,
                beside |-> FALSE])

\* The VM runs where it was found.
CommitAdopt(c) ==
  /\ req[c].op = "adopt"
  /\ \E n \in {n \in Nodes : <<req[c].v, n>> \in Found} :
       Writes(c, req[c].v, [known |-> "managed", owner |-> req[c].owner, exempt |-> FALSE,
                            size |-> req[c].size,
                            node |-> IF Managed(req[c].v) THEN rows[req[c].v].node ELSE n])
  /\ Unsettles

\* The old size is taken away from the usage of the owner to be, even if the
\* VM was not his.
Less(use, size) ==
  [number |-> use.number - 1, cpu |-> use.cpu - size.cpu,
   memory |-> use.memory - size.memory, storage |-> use.storage - size.disk]

PatchFits(v, u, size) ==
  Fits(With(Less(UsageOf(CountedVMs(u)), rows[v].size), size), EffectiveQuota(u))

\* handlePatchVM: nothing is checked for a VM that is exempt, or if neither
\* size nor owner is in the request.
LoadPatch(c, v, u, size) ==
  /\ Idle(c) /\ Managed(v)
  /\ size.disk >= rows[v].size.disk
  /\ ~rows[v].exempt /\ <<u, size>> # <<rows[v].owner, rows[v].size>>
       => WithinOptions(size) /\ PatchFits(v, u, size)
  /\ Begins(c, [op |-> "patch", v |-> v, owner |-> u, size |-> size,
                exempt |-> rows[v].exempt, beside |-> FALSE])

\* handleAdminSetQuotaExempt: no quota is looked at, not even when the VM is to
\* count again.
LoadExempt(c, v) ==
  /\ Idle(c) /\ Managed(v)
  /\ Begins(c, [op |-> "exempt", v |-> v, owner |-> rows[v].owner, size |-> rows[v].size,
                exempt |-> ~rows[v].exempt, beside |-> FALSE])

\* Both write owner, size and exemption of the row they loaded, or have
\* changed; handleAdminSetQuotaExempt all but the owner.
CommitPatch(c) ==
  /\ req[c].op = "patch"
  /\ Writes(c, req[c].v, [rows[req[c].v] EXCEPT !.owner = req[c].owner, !.size = req[c].size,
                                                !.exempt = req[c].exempt])
  /\ Unsettles

CommitExempt(c) ==
  /\ req[c].op = "exempt"
  /\ Writes(c, req[c].v, [rows[req[c].v] EXCEPT !.size = req[c].size, !.exempt = req[c].exempt])
  /\ Unsettles

\* Another check fails, or the database.
RequestFails(c) ==
  /\ req[c] # NoRequest
  /\ req' = [req EXCEPT ![c] = NoRequest]
  /\ UNCHANGED <<rows, member, settled>>

\* The worker marks a row deleted; what is written to it now counts nowhere.
RowDeleted(v) ==
  /\ rows[v] # NoRow
  /\ rows' = [rows EXCEPT ![v] = NoRow]
  /\ req' = [c \in Clients |->
               IF req[c].op \in {"adopt", "patch", "exempt"} /\ req[c].v = v THEN NoRequest
               ELSE IF Managed(v) /\ req[c] # NoRequest /\ req[c].owner = rows[v].owner
               THEN [req[c] EXCEPT !.beside = TRUE] ELSE req[c]]
  /\ Unsettles
  /\ UNCHANGED member

\* The worker finds a VM that nobody manages.
VMFound(v) ==
  /\ rows[v] = NoRow /\ \E n \in Nodes : <<v, n>> \in Found
  /\ rows' = [rows EXCEPT ![v] = Unmanaged]
  /\ UNCHANGED <<member, req, settled>>

\* upsertUser: the groups are those of the identity provider.
Login(u, gs) ==
  /\ gs # member[u]
  /\ member' = [member EXCEPT ![u] = gs]
  /\ req' = [c \in Clients |-> IF req[c] # NoRequest /\ req[c].owner = u
                               THEN [req[c] EXCEPT !.beside = TRUE] ELSE req[c]]
  /\ UNCHANGED <<rows, settled>>

Next ==
  \/ \E c \in Clients :
       \/ \E u \in Users, size \in Sizes :
            \/ LoadCreate(c, u, size)
            \/ \E v \in VMIDs : LoadAdopt(c, v, u, size) \/ LoadPatch(c, v, u, size)
       \/ \E v \in VMIDs : LoadExempt(c, v)
       \/ PlaceVM(c) \/ CommitCreate(c) \/ CommitAdopt(c) \/ CommitPatch(c) \/ CommitExempt(c)
       \/ RequestFails(c)
  \/ \E v \in VMIDs : RowDeleted(v) \/ VMFound(v)
  \/ \E u \in Users, gs \in Memberships : Login(u, gs)

Spec == Init /\ [][Next]_vars

--------------------------------------------------------------------------------
Exceeded(u) ==
  {k \in {"number", "cpu", "memory", "storage"} : UsageOf(CountedVMs(u))[k] > EffectiveQuota(u)[k]}

Commits(c)    == req[c] # NoRequest /\ req'[c] = NoRequest
Transfers(c)  == req[c].op = "patch" /\ rows[req[c].v].owner # req[c].owner
Unexempts(c)  == req[c].op = "exempt" /\ ~req[c].exempt

\* Nobody's VMs come to exceed his quota, nor exceed it further, by a request
\* whose figures were still good when it wrote, whatever the mixture of
\* creations, adoptions, changes of size and exemptions before it; but for a
\* change of owner, which takes the VM away from what the new owner has before
\* he has it, and the end of an exemption, which is not checked
\* (handleCreateVM, handlePatchVM, handleAdminAdoptVM, listUserVMUsage).
QuotaRespected ==
  [][\A u \in Users, c \in Clients :
       Commits(c) /\ ~req[c].beside /\ ~Transfers(c) /\ ~Unexempts(c) =>
         \A k \in Exceeded(u)' :
           (UsageOf(CountedVMs(u))[k])' <= UsageOf(CountedVMs(u))[k]]_vars

\* Creations alone keep the nodes level: no node has more than any other by
\* more than the largest VM placed on it (choosePlacementNode).
Balanced ==
  settled => \A n, m \in Nodes :
    PlacedOn(n) # {} =>
      \E v \in PlacedOn(n) :
        NodeScore(n) <= NodeScore(m) + Score(rows[v].size.cpu, rows[v].size.memory)

(* The parts of the inductive invariant.                                   *)

\* What patches and adoptions are about is there: a row that is marked deleted
\* takes them along.
Refers ==
  \A c \in Clients :
    /\ req[c].op \in {"patch", "exempt"} => Managed(req[c].v)
    /\ req[c].op = "adopt" => rows[req[c].v] # NoRow

\* What a request was checked for would still pass, unless a write to a VM of
\* its owner, or his login, has come between.
StillFits ==
  \A c \in Clients : req[c] # NoRequest /\ ~req[c].beside =>
    /\ req[c].op \in {"create", "placed", "adopt"} =>
         Fits(With(UsageOf(CountedVMs(req[c].owner)), req[c].size), EffectiveQuota(req[c].owner))
    /\ req[c].op = "adopt" =>
         ~(Managed(req[c].v) /\ rows[req[c].v].owner = req[c].owner)
    /\ req[c].op = "patch" /\ rows[req[c].v].owner = req[c].owner =>
         /\ rows[req[c].v].exempt = req[c].exempt
         /\ \/ req[c].exempt \/ rows[req[c].v].size = req[c].size
            \/ PatchFits(req[c].v, req[c].owner, req[c].size)

\* While creations are alone, the node that one has chosen has the least.
ChosenStillLeast ==
  settled => \A c \in Clients : req[c].op = "placed" =>
               \A m \in Nodes : NodeScore(req[c].node) <= NodeScore(m)

IInv == TypeOK /\ Refers /\ StillFits /\ ChosenStillLeast /\ Balanced
================================================================================
