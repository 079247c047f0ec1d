------------------------------- MODULE Inventory --------------------------------
(***************************************************************************)
(* Which VMs of a cluster the vms table knows of, under which vmid and     *)
(* address, and who manages them.                                          *)
(*                                                                         *)
(* The worker scans the cluster: VMs it has no row for get an unmanaged    *)
(* row, unmanaged rows whose VM is gone are marked deleted.  Meanwhile     *)
(* users create VMs, which takes the first free vmid and the address that  *)
(* goes with it, administrators adopt unmanaged VMs and set addresses, and *)
(* VMs come and go on the cluster without the program being told.          *)
(*                                                                         *)
(* The worker does one thing at a time, so a task is a single step against *)
(* the scan; what happens inside of it is the matter of VmLifecycle and    *)
(* ConfigSync, and so are failed tasks and restored VMs.  One cluster with *)
(* one bridge.                                                             *)
(***************************************************************************)
EXTENDS Naturals, Sequences

CONSTANTS
  Clients,    \* requests that may be in flight at the same time
  StartVMID,  \* config: first vmid that is given away
  Limit,      \* config: how many are
  StartIP,    \* config: the bridge's address that goes with StartVMID
  Strangers,  \* bound: vmids under which VMs turn up on the cluster
  Chosen,     \* bound: addresses of such VMs, and that administrators choose
  MaxBirths,  \* bound: creations and VMs turning up, together
  Absent      \* instead of an address: the cluster has no such VM

Octet   == 0 .. 255
Address == [1 .. 4 -> Octet]
NoIP    == <<>>            \* the column is empty
Allocatable == StartVMID .. StartVMID + Limit - 1
VMIDs       == Allocatable \union Strangers

ASSUME VmidAssumption   == StartVMID \in Nat \ {0} /\ Limit \in Nat \ {0}
ASSUME StartAssumption  == StartIP \in Address
ASSUME StrangerAssumption == Strangers \subseteq Nat \ {0}
ASSUME ChosenAssumption == Chosen \subseteq Address
ASSUME AbsentAssumption == Absent \notin Address \union {NoIP}
ASSUME BirthsAssumption == MaxBirths \in Nat

VARIABLES
  rows,    \* the vms table, in the order of id
  pve,     \* for every vmid the address its VM has, or Absent
  req,     \* requests between their statements
  wpc,     \* where the scan is
  seen,    \* vmids ListVMResources returned
  left,    \* those of them upsertUnmanagedVM has still to deal with
  cur,     \* the vmid it is dealing with, and the row it found for it
  missing, \* ids markMissingUnmanagedVMsDeleted selected
  found,   \* history: strangers' vmids that a scan has written to the table
  births   \* bound: creations and arrivals so far

vars == <<rows, pve, req, wpc, seen, left, cur, missing, found, births>>
scanVars == <<wpc, seen, left, cur, missing>>

--------------------------------------------------------------------------------
(* addIPv4: four octets from the right, with a carry.                      *)

CarryOut(octet, carry) == (carry \div 256) + ((octet + (carry % 256)) \div 256)
Digit(octet, carry)    == (octet + (carry % 256)) % 256

\* Mutant: the sum of an octet is not cut off.
AddIPv4Wide(base, offset) ==
  LET c3 == CarryOut(base[4], offset)
      c2 == CarryOut(base[3], c3)
      c1 == CarryOut(base[2], c2)
  IN IF CarryOut(base[1], c1) # 0 THEN NoIP
     ELSE <<base[1] + (c1 % 256), base[2] + (c2 % 256), base[3] + (c3 % 256),
            base[4] + (offset % 256)>>

\* Mutant: the carry of the last octet is lost.
AddIPv4Local(base, offset) ==
  <<base[1], base[2], base[3], Digit(base[4], offset)>>

\* NoIP: the error for an overflow.
AddIPv4(base, offset) ==
  LET c3 == CarryOut(base[4], offset)
      c2 == CarryOut(base[3], c3)
      c1 == CarryOut(base[2], c2)
  IN IF CarryOut(base[1], c1) # 0 THEN NoIP
     ELSE <<Digit(base[1], c1), Digit(base[2], c2), Digit(base[3], c3),
            Digit(base[4], offset)>>

DeriveIPv4(vmid) == AddIPv4(StartIP, vmid - StartVMID)

--------------------------------------------------------------------------------
\* gone: deleted_at is set.  ipFrom, config: who wrote the ip column and the
\* vmname and config_json columns.  todo: the open task.  template:
\* prefer_status_json names a template.
Row == [vmid : VMIDs, managed : BOOLEAN, gone : BOOLEAN, template : BOOLEAN,
        ip : Address \union {NoIP}, ipFrom : {"derived", "chosen", "scan"},
        config : {"user", "scan"}, todo : {"none", "apply", "delete"}]

NoRequest == [op |-> "idle"]
CreateRequest == [op : {"create"}, vmid : Allocatable]
AdoptRequest  == [op : {"adopt"}, id : Nat, ip : Chosen]
IPRequest     == [op : {"ip", "checkedIP"}, id : Nat, ip : Chosen, config : {"user", "scan"}]
Request       == CreateRequest \union AdoptRequest \union IPRequest
NoHit         == [id |-> 0]

TypeOK ==
  /\ rows \in Seq(Row)
  /\ pve \in [VMIDs -> Address \union {NoIP, Absent}]
  /\ req \in [Clients -> Request \union {NoRequest}]
  /\ wpc \in {"idle", "scan", "write", "sweep"}
  /\ seen \subseteq VMIDs /\ left \subseteq seen
  /\ cur \in [vmid : VMIDs, id : Nat] \union {NoHit}
  /\ missing \subseteq DOMAIN rows
  /\ found \subseteq VMIDs
  /\ births \in 0 .. MaxBirths

Init ==
  /\ rows = <<>>
  /\ pve = [v \in VMIDs |-> Absent]
  /\ req = [c \in Clients |-> NoRequest]
  /\ wpc = "idle" /\ seen = {} /\ left = {} /\ cur = NoHit /\ missing = {}
  /\ found = {}
  /\ births = 0

--------------------------------------------------------------------------------
Live(r) == r \in DOMAIN rows /\ ~rows[r].gone
Holders(v) == {r \in DOMAIN rows : Live(r) /\ rows[r].vmid = v}

\* Mutant: the unique index leaves out the rows of unmanaged VMs.
TakenByManaged(v) == \E r \in Holders(v) : rows[r].managed

\* The partial unique index vms(cluster_key, vmid) WHERE deleted_at IS NULL.
Taken(v) == Holders(v) # {}

Ends(c)      == req' = [req EXCEPT ![c] = NoRequest]
Begins(c, q) == req[c] = NoRequest /\ req' = [req EXCEPT ![c] = q]
Born         == births < MaxBirths /\ births' = births + 1

\* nextClusterVMID
FirstFree(v) == ~Taken(v) /\ \A u \in StartVMID .. v - 1 : Taken(u)

\* handleCreateVM: without a free vmid, or with an address beyond the last
\* one, the request ends here.
ChooseVMID(c, v) ==
  /\ FirstFree(v)
  /\ DeriveIPv4(v) # NoIP
  /\ Begins(c, [op |-> "create", vmid |-> v])
  /\ Born
  /\ UNCHANGED <<rows, pve, scanVars, found>>

NewRow(v) == [vmid |-> v, managed |-> TRUE, gone |-> FALSE, template |-> TRUE,
              ip |-> DeriveIPv4(v), ipFrom |-> "derived", config |-> "user",
              todo |-> "apply"]

\* The INSERT, which fails when another one took the vmid meanwhile.
CommitCreate(c) ==
  /\ req[c].op = "create"
  /\ rows' = IF Taken(req[c].vmid) THEN rows ELSE Append(rows, NewRow(req[c].vmid))
  /\ Ends(c)
  /\ UNCHANGED <<pve, scanVars, found, births>>

\* handleAdminAdoptVM
LoadAdopt(c, r, a) ==
  /\ r \in DOMAIN rows /\ ~rows[r].managed
  /\ Begins(c, [op |-> "adopt", id |-> r, ip |-> a])
  /\ UNCHANGED <<rows, pve, scanVars, found, births>>

Adopted(row, a) == [row EXCEPT !.managed = TRUE, !.ip = a, !.ipFrom = "chosen",
                               !.config = "user", !.todo = "apply"]

CommitAdopt(c) ==
  /\ req[c].op = "adopt"
  /\ rows' = [rows EXCEPT ![req[c].id] = Adopted(rows[req[c].id], req[c].ip)]
  /\ Ends(c)
  /\ UNCHANGED <<pve, scanVars, found, births>>

\* handleAdminPatchVM: load, look for the address in other rows, overwrite.
LoadAddress(c, r, a) ==
  /\ r \in DOMAIN rows /\ rows[r].managed /\ rows[r].todo # "delete"
  /\ Begins(c, [op |-> "ip", id |-> r, ip |-> a, config |-> rows[r].config])
  /\ UNCHANGED <<rows, pve, scanVars, found, births>>

CheckAddress(c) ==
  /\ req[c].op = "ip"
  /\ IF \E r \in DOMAIN rows \ {req[c].id} : Live(r) /\ rows[r].ip = req[c].ip
     THEN Ends(c)
     ELSE req' = [req EXCEPT ![c].op = "checkedIP"]
  /\ UNCHANGED <<rows, pve, scanVars, found, births>>

Addressed(row, q) == [row EXCEPT !.ip = q.ip, !.ipFrom = "chosen", !.config = q.config,
                                 !.todo = IF row.todo = "delete" THEN "delete" ELSE "apply"]

CommitAddress(c) ==
  /\ req[c].op = "checkedIP"
  /\ rows' = [rows EXCEPT ![req[c].id] = Addressed(rows[req[c].id], req[c])]
  /\ Ends(c)
  /\ UNCHANGED <<pve, scanVars, found, births>>

\* handleDeleteVM, handleDeleteNowVM
DeleteVM(r) ==
  /\ r \in DOMAIN rows /\ rows[r].managed /\ rows[r].todo # "delete"
  /\ rows' = [rows EXCEPT ![r].todo = "delete"]
  /\ UNCHANGED <<pve, req, scanVars, found, births>>

--------------------------------------------------------------------------------
(* The worker between scans: pendingTasks leaves out rows that are         *)
(* unmanaged or marked deleted.                                            *)

Runnable(r, task) == wpc = "idle" /\ Live(r) /\ rows[r].managed /\ rows[r].todo = task

\* syncPresent clones the VM if the cluster has none with this vmid, which
\* needs a template, and gives it the address of the row.
ApplyTask(r) ==
  /\ Runnable(r, "apply")
  /\ pve[rows[r].vmid] # Absent \/ rows[r].template
  /\ pve' = [pve EXCEPT ![rows[r].vmid] = rows[r].ip]
  /\ rows' = [rows EXCEPT ![r].todo = "none"]
  /\ UNCHANGED <<req, scanVars, found, births>>

\* syncDelete deletes what the cluster has under this vmid, then markDeleted.
DeleteTask(r) ==
  /\ Runnable(r, "delete")
  /\ pve' = [pve EXCEPT ![rows[r].vmid] = Absent]
  /\ rows' = [rows EXCEPT ![r].gone = TRUE]
  /\ found' = found \ {rows[r].vmid}
  /\ UNCHANGED <<req, scanVars, births>>

--------------------------------------------------------------------------------
(* The scan: syncUnmanagedVMs.                                             *)

\* The scan's variables are locals.
Leave == wpc' = "idle" /\ seen' = {} /\ left' = {} /\ cur' = NoHit /\ missing' = {}

\* ListVMResources
ListVMs ==
  /\ wpc = "idle"
  /\ wpc' = "scan"
  /\ seen' = {v \in VMIDs : pve[v] # Absent}
  /\ left' = seen'
  /\ UNCHANGED <<rows, pve, req, cur, missing, found, births>>

\* upsertUnmanagedVM: the row with this vmid; managed ones are left alone.
LookUp(v) ==
  /\ wpc = "scan" /\ v \in left
  /\ left' = left \ {v}
  /\ \/ /\ \E r \in Holders(v) : rows[r].managed
        /\ UNCHANGED <<wpc, cur>>
     \/ /\ ~Taken(v)
        /\ cur' = [vmid |-> v, id |-> 0]
        /\ wpc' = "write"
     \/ \E r \in Holders(v) :
          /\ ~rows[r].managed
          /\ cur' = [vmid |-> v, id |-> r]
          /\ wpc' = "write"
  /\ UNCHANGED <<rows, pve, req, seen, missing, found, births>>

\* GetVMConfig; without an answer the address is empty.
ScannedIP == IF pve[cur.vmid] = Absent THEN NoIP ELSE pve[cur.vmid]

Find == found' = IF pve[cur.vmid] = Absent THEN found ELSE found \union {cur.vmid}

Rescanned(row) == [row EXCEPT !.ip = ScannedIP, !.ipFrom = "scan", !.config = "scan"]

\* The UPDATE, by id.
UpdateUnmanaged ==
  /\ wpc = "write" /\ cur.id # 0
  /\ rows' = [rows EXCEPT ![cur.id] = Rescanned(rows[cur.id])]
  /\ Find
  /\ wpc' = "scan" /\ cur' = NoHit
  /\ UNCHANGED <<pve, req, seen, left, missing, births>>

Unmanaged(v) == [vmid |-> v, managed |-> FALSE, gone |-> FALSE, template |-> FALSE,
                 ip |-> ScannedIP, ipFrom |-> "scan", config |-> "scan", todo |-> "none"]

\* The INSERT; when a request took the vmid meanwhile the scan ends.
InsertUnmanaged ==
  /\ wpc = "write" /\ cur.id = 0
  /\ \/ /\ Taken(cur.vmid)
        /\ Leave
        /\ UNCHANGED <<rows, found>>
     \/ /\ ~Taken(cur.vmid)
        /\ rows' = Append(rows, Unmanaged(cur.vmid))
        /\ Find
        /\ wpc' = "scan" /\ cur' = NoHit
        /\ UNCHANGED <<seen, left, missing>>
  /\ UNCHANGED <<pve, req, births>>

\* Mutant: the test for seen vmids is the wrong way round.
SelectMissingInverted ==
  /\ wpc = "scan" /\ left = {}
  /\ wpc' = "sweep"
  /\ missing' = {r \in DOMAIN rows : Live(r) /\ ~rows[r].managed /\ rows[r].vmid \in seen}
  /\ UNCHANGED <<rows, pve, req, seen, left, cur, found, births>>

\* markMissingUnmanagedVMsDeleted
SelectMissing ==
  /\ wpc = "scan" /\ left = {}
  /\ wpc' = "sweep"
  /\ missing' = {r \in DOMAIN rows : Live(r) /\ ~rows[r].managed /\ rows[r].vmid \notin seen}
  /\ UNCHANGED <<rows, pve, req, seen, left, cur, found, births>>

\* Mutant: the UPDATE does not repeat the condition of the SELECT.
SweepRowUnguarded(r) ==
  /\ wpc = "sweep" /\ r \in missing
  /\ missing' = missing \ {r}
  /\ rows' = [rows EXCEPT ![r].gone = TRUE]
  /\ UNCHANGED <<pve, req, wpc, seen, left, cur, found, births>>

\* The UPDATE repeats the condition of the SELECT.
SweepRow(r) ==
  /\ wpc = "sweep" /\ r \in missing
  /\ missing' = missing \ {r}
  /\ rows' = IF rows[r].managed THEN rows ELSE [rows EXCEPT ![r].gone = TRUE]
  /\ UNCHANGED <<pve, req, wpc, seen, left, cur, found, births>>

ScanDone ==
  /\ wpc = "sweep" /\ missing = {}
  /\ Leave
  /\ UNCHANGED <<rows, pve, req, found, births>>

\* A statement or a call fails, or the worker dies.
ScanFails ==
  /\ wpc # "idle"
  /\ Leave
  /\ UNCHANGED <<rows, pve, req, found, births>>

--------------------------------------------------------------------------------
(* The cluster, behind the program's back.                                 *)

VMAppears(v, a) ==
  /\ pve[v] = Absent
  /\ pve' = [pve EXCEPT ![v] = a]
  /\ Born
  /\ UNCHANGED <<rows, req, scanVars, found>>

VMVanishes(v) ==
  /\ pve[v] # Absent
  /\ pve' = [pve EXCEPT ![v] = Absent]
  /\ found' = found \ {v}
  /\ UNCHANGED <<rows, req, scanVars, births>>

--------------------------------------------------------------------------------
Server ==
  \/ \E c \in Clients :
       \/ \E v \in Allocatable : ChooseVMID(c, v)
       \/ CommitCreate(c)
       \/ \E r \in DOMAIN rows, a \in Chosen : LoadAdopt(c, r, a) \/ LoadAddress(c, r, a)
       \/ CommitAdopt(c) \/ CheckAddress(c) \/ CommitAddress(c)
  \/ \E r \in DOMAIN rows : DeleteVM(r)

Tasks == \E r \in DOMAIN rows : ApplyTask(r) \/ DeleteTask(r)

Scan ==
  \/ ListVMs
  \/ \E v \in left : LookUp(v)
  \/ UpdateUnmanaged \/ InsertUnmanaged
  \/ SelectMissing
  \/ \E r \in missing : SweepRow(r)
  \/ ScanDone

Cluster ==
  \/ \E v \in Strangers, a \in Chosen \union {NoIP} : VMAppears(v, a)
  \/ \E v \in VMIDs : VMVanishes(v)

Next == Server \/ Tasks \/ Scan \/ ScanFails \/ Cluster

Spec == Init /\ [][Next]_vars

\* ensureMaintenanceTasks queues a scan every ten minutes.
FairSpec == Spec /\ WF_vars(Scan)

--------------------------------------------------------------------------------
Number(ip) == 256 * (256 * (256 * ip[1] + ip[2]) + ip[3]) + ip[4]

\* A VM that users create gets the address that lies as far from start_ip as
\* its vmid from start_vmid, and no two such VMs the same, however creations,
\* scans and deletions overlap (deriveIPv4, nextClusterVMID and the index).
DerivedAddresses ==
  \A r \in DOMAIN rows : Live(r) /\ rows[r].ipFrom = "derived" =>
    /\ Number(rows[r].ip) = Number(StartIP) + rows[r].vmid - StartVMID
    /\ \A s \in DOMAIN rows \ {r} :
         Live(s) /\ rows[s].ipFrom = "derived" => rows[s].ip # rows[r].ip

\* "managed VM 不会因为库存扫描缺失而自动删除" (docs/sql-tables.md): only a
\* requested deletion marks the row of a managed VM as deleted, also when the
\* VM was adopted after the scan selected its row as missing.
ManagedNotSwept ==
  [][\A r \in DOMAIN rows :
       Live(r) /\ rows[r].managed /\ rows'[r].gone => rows[r].todo = "delete"]_vars

\* Once a scan has written a VM to the table, no VM that users create gets
\* its vmid, so that none of their tasks ever configures or destroys it
\* (docs/design.md on why unmanaged VMs are part of the inventory).
ScannedKept ==
  \A v \in found :
    /\ Taken(v)
    /\ \A r \in Holders(v) : ~rows[r].template

(* The parts of the inductive invariant.                                   *)

\* The unique index at work.
OnePerVMID == \A v \in VMIDs : \A r, s \in Holders(v) : r = s

\* Requests and the scan refer to rows that exist.
References ==
  /\ \A c \in Clients : req[c].op \in {"adopt", "ip", "checkedIP"} => req[c].id \in DOMAIN rows
  /\ wpc = "write" => /\ cur # NoHit /\ cur.vmid \in seen
                      /\ cur.id # 0 => cur.id \in Holders(cur.vmid)

\* Only created VMs have a template and an address that was derived, and a
\* creation in flight has one to give.
Origins ==
  /\ \A r \in DOMAIN rows :
       /\ rows[r].ipFrom = "derived" => rows[r].ip = DeriveIPv4(rows[r].vmid)
                                        /\ rows[r].vmid \in Allocatable
                                        /\ rows[r].ip # NoIP
       /\ ~rows[r].managed => ~rows[r].template
  /\ \A c \in Clients : req[c].op = "create" => DeriveIPv4(req[c].vmid) # NoIP
  /\ wpc = "write" /\ cur.id # 0 => /\ ~rows[cur.id].template

\* What was found is on the cluster, and a scan that is under way has it on
\* its list, so that its row will not be selected as missing.
FoundListed ==
  /\ \A v \in found : pve[v] # Absent
  /\ wpc # "idle" => found \subseteq seen
  /\ \A r \in missing : rows[r].vmid \notin seen
  /\ wpc = "idle" => missing = {}

IInv == TypeOK /\ OnePerVMID /\ References /\ Origins /\ FoundListed /\ ScannedKept

\* Nobody asks for anything, nothing happens on the cluster, nothing fails.
EventuallyCalm == <>[][Tasks \/ Scan]_vars

\* Once there is calm the table ends up with a row for every VM of the
\* cluster, with no unmanaged row for which there is none, and with the
\* addresses that unmanaged VMs have.
Accurate ==
  /\ \A v \in VMIDs : pve[v] # Absent => Taken(v)
  /\ \A r \in DOMAIN rows :
       Live(r) /\ ~rows[r].managed => rows[r].ip = pve[rows[r].vmid]

\* Scans make up for everything that they missed (syncUnmanagedVMs).
InventoryConverges == EventuallyCalm => <>[]Accurate
================================================================================
