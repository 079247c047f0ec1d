---------------------------- MODULE PoolProvisioner ----------------------------
(***************************************************************************)
(* tool/pve-sso-login-pool-provisioner: on every PVE node a timer and a    *)
(* path unit start "sync", which creates a pool and grants the roles for   *)
(* every SSO user.  A directory on the cluster file system, /etc/pve,      *)
(* keeps two nodes from doing so at the same time.                         *)
(*                                                                         *)
(* flock(1) and systemd admit one process per node, so that a node stands  *)
(* for its process.  The roles of a user are granted as one.               *)
(***************************************************************************)
EXTENDS FiniteSets

CONSTANTS
  Nodes,
  Users,    \* the users of the SSO realm
  NoUser

ASSUME NoUserAssumption == NoUser \notin Users

VARIABLES
  lock,   \* CLUSTER_LOCK_DIR: is it there, with its owner file, and old?
  pc,     \* where the script is on each node
  todo,   \* users the loop of sync_users has still to see
  cur,    \* the user of ensure_user
  pools,  \* users with a pool
  acls,   \* users with all roles on their pool
  disturbed \* history: a node has died in the middle of a run, or a run has
            \* outlasted CLUSTER_LOCK_TTL_SECONDS

vars == <<lock, pc, todo, cur, pools, acls, disturbed>>
pveVars == <<pools, acls>>
rest == <<pveVars, disturbed>>

--------------------------------------------------------------------------------
Working == {"work", "create", "acl", "grant"}
Holding == {"owner", "releaseOwner", "releaseDir"} \union Working
Breaking == {"stat", "rmOwner", "rmDir", "again"}

TypeOK ==
  /\ lock \in [dir : BOOLEAN, owner : BOOLEAN, old : BOOLEAN]
  /\ pc \in [Nodes -> {"idle", "mkdir"} \union Breaking \union Holding]
  /\ todo \in [Nodes -> SUBSET Users]
  /\ cur \in [Nodes -> Users \union {NoUser}]
  /\ pools \in SUBSET Users
  /\ acls \in SUBSET Users
  /\ disturbed \in BOOLEAN

Free == [dir |-> FALSE, owner |-> FALSE, old |-> FALSE]
Made == [dir |-> TRUE, owner |-> FALSE, old |-> FALSE]

Init ==
  /\ lock = Free
  /\ pc = [n \in Nodes |-> "idle"]
  /\ todo = [n \in Nodes |-> {}]
  /\ cur = [n \in Nodes |-> NoUser]
  /\ pools \in SUBSET Users
  /\ acls \in SUBSET pools
  /\ disturbed = FALSE

At(n, from) == pc[n] = from
Goto(n, to) == pc' = [pc EXCEPT ![n] = to]

--------------------------------------------------------------------------------
(* with_cluster_lock                                                       *)

Start(n) ==
  /\ At(n, "idle") /\ Goto(n, "mkdir")
  /\ UNCHANGED <<lock, todo, cur, rest>>

\* mkdir is atomic; the second attempt comes after a stale lock was removed.
MakeDir(n) ==
  /\ At(n, "mkdir") \/ At(n, "again")
  /\ ~lock.dir
  /\ lock' = Made
  /\ Goto(n, "owner")
  /\ UNCHANGED <<todo, cur, rest>>

DirTaken(n) ==
  /\ lock.dir
  /\ \/ At(n, "mkdir") /\ Goto(n, "stat")
     \/ At(n, "again") /\ Goto(n, "idle")
  /\ UNCHANGED <<lock, todo, cur, rest>>

\* Mutant: the age of the lock is not looked at.
StatNever(n) ==
  /\ At(n, "stat") /\ Goto(n, "idle")
  /\ UNCHANGED <<lock, todo, cur, rest>>

\* cluster_lock_is_stale
Stat(n) ==
  /\ At(n, "stat")
  /\ Goto(n, IF lock.dir /\ lock.old THEN "rmOwner" ELSE "idle")
  /\ UNCHANGED <<lock, todo, cur, rest>>

\* rm -f: removing an entry renews the directory's mtime.
WithoutOwner ==
  IF lock.owner THEN [lock EXCEPT !.owner = FALSE, !.old = FALSE] ELSE lock

RemoveOwner(n) ==
  /\ At(n, "rmOwner") /\ Goto(n, "rmDir")
  /\ lock' = WithoutOwner
  /\ UNCHANGED <<todo, cur, rest>>

\* rmdir fails on a directory that is gone or not empty.
WithoutDir == IF lock.dir /\ ~lock.owner THEN Free ELSE lock

RemoveDir(n) ==
  /\ At(n, "rmDir")
  /\ lock' = WithoutDir
  /\ Goto(n, IF lock.dir /\ ~lock.owner THEN "again" ELSE "idle")
  /\ UNCHANGED <<todo, cur, rest>>

WithOwner == IF lock.dir THEN [lock EXCEPT !.owner = TRUE, !.old = FALSE] ELSE lock

\* write_cluster_lock_owner, whose failure is not noticed, and sync_users,
\* which asks for the users.
WriteOwner(n) ==
  /\ At(n, "owner") /\ Goto(n, "work")
  /\ lock' = WithOwner
  /\ todo' = [todo EXCEPT ![n] = Users]
  /\ UNCHANGED <<cur, rest>>

\* Mutant: the lock is removed by whoever exits (CLUSTER_LOCK_HELD ignored).
ReleaseByAll(n) ==
  /\ \/ At(n, "releaseOwner") /\ Goto(n, "releaseDir") /\ lock' = WithoutOwner
     \/ At(n, "releaseDir") /\ Goto(n, "idle") /\ lock' = WithoutDir
     \/ At(n, "stat") /\ Goto(n, "releaseOwner") /\ UNCHANGED lock
  /\ UNCHANGED <<todo, cur, rest>>

\* release_cluster_lock removes the directory whosoever it is.
Release(n) ==
  /\ \/ At(n, "releaseOwner") /\ Goto(n, "releaseDir") /\ lock' = WithoutOwner
     \/ At(n, "releaseDir") /\ Goto(n, "idle") /\ lock' = WithoutDir
  /\ UNCHANGED <<todo, cur, rest>>

--------------------------------------------------------------------------------
(* sync_users and ensure_user                                              *)

\* pool_exists
NextUser(n, u) ==
  /\ At(n, "work")
  /\ u \in todo[n]
  /\ cur' = [cur EXCEPT ![n] = u]
  /\ Goto(n, IF u \in pools THEN "acl" ELSE "create")
  /\ UNCHANGED <<lock, todo, rest>>

\* Creating a pool that exists by now is an error and ends the script.
CreatePool(n) ==
  /\ At(n, "create")
  /\ pools' = pools \union {cur[n]}
  /\ Goto(n, IF cur[n] \in pools THEN "releaseOwner" ELSE "acl")
  /\ UNCHANGED <<lock, todo, cur, acls, disturbed>>

Done(n) ==
  /\ todo' = [todo EXCEPT ![n] = @ \ {cur[n]}]
  /\ cur' = [cur EXCEPT ![n] = NoUser]
  /\ Goto(n, "work")

\* acl_exists
CheckAcl(n) ==
  /\ At(n, "acl")
  /\ IF cur[n] \in acls THEN Done(n) ELSE Goto(n, "grant") /\ UNCHANGED <<todo, cur>>
  /\ UNCHANGED <<lock, rest>>

Grant(n) ==
  /\ At(n, "grant")
  /\ acls' = acls \union {cur[n]}
  /\ Done(n)
  /\ UNCHANGED <<lock, pools, disturbed>>

Finish(n) ==
  /\ At(n, "work")
  /\ todo[n] = {}
  /\ Goto(n, "releaseOwner")
  /\ UNCHANGED <<lock, todo, cur, rest>>

--------------------------------------------------------------------------------
\* A pvesh or pveum command fails: set -e ends the script, the EXIT trap
\* releases the lock.
CommandFails(n) ==
  /\ pc[n] \in Working
  /\ Goto(n, "releaseOwner")
  /\ UNCHANGED <<lock, todo, cur, rest>>

\* The node dies.
Crash(n) ==
  /\ pc[n] # "idle"
  /\ Goto(n, "idle")
  /\ disturbed' = TRUE
  /\ UNCHANGED <<lock, todo, cur, pveVars>>

\* No node holds the lock or is about to break it.
Quiet == \A n \in Nodes : pc[n] \in {"idle", "mkdir", "stat"}

\* CLUSTER_LOCK_TTL_SECONDS pass for a lock that was left behind.
LockAges ==
  /\ lock.dir /\ ~lock.old /\ Quiet
  /\ lock' = [lock EXCEPT !.old = TRUE]
  /\ UNCHANGED <<pc, todo, cur, rest>>

\* They pass while a node is still at work.  The script has no time limit and
\* does not touch the directory again, so nothing in it rules this out; that a
\* run takes seconds is what the .service file says.
RunOutlastsTTL ==
  /\ lock.dir /\ ~lock.old /\ ~Quiet
  /\ lock' = [lock EXCEPT !.old = TRUE]
  /\ disturbed' = TRUE
  /\ UNCHANGED <<pc, todo, cur, pveVars>>

Step(n) ==
  \/ MakeDir(n) \/ DirTaken(n) \/ Stat(n) \/ RemoveOwner(n) \/ RemoveDir(n)
  \/ WriteOwner(n) \/ Release(n)
  \/ \E u \in Users : NextUser(n, u)
  \/ CreatePool(n) \/ CheckAcl(n) \/ Grant(n) \/ Finish(n)

Faults == RunOutlastsTTL \/ \E n \in Nodes : CommandFails(n) \/ Crash(n)

Regular == LockAges \/ \E n \in Nodes : Start(n) \/ Step(n)

Next == Regular \/ Faults

Spec == Init /\ [][Next]_vars

\* A process that runs comes to its end, the timer starts the service on
\* every node again and again, and a lock that nobody holds becomes old.
FairSpec ==
  /\ Spec
  /\ \A n \in Nodes : WF_vars(Step(n)) /\ WF_vars(Start(n))
  /\ SF_vars(LockAges)

--------------------------------------------------------------------------------
\* As long as no node has died in the middle of a run and no run has outlasted
\* the TTL of the lock, no two nodes work on pools and roles at the same time,
\* failing commands and the clean-up of the EXIT trap included
\* (with_cluster_lock, release_cluster_lock).  A run that takes longer loses its
\* lock to the next node, and once a stale lock has to be removed, two nodes that
\* break it may both go to work.
MutualExclusion ==
  ~disturbed => \A m, n \in Nodes : pc[m] \in Working /\ pc[n] \in Working => m = n

(* The parts of the inductive invariant.                                   *)

UserInHand == \A n \in Nodes : pc[n] \in {"create", "acl", "grant"} => cur[n] \in Users

HeldByOne ==
  /\ lock.dir <=> \E n \in Nodes : pc[n] \in Holding
  /\ \A m, n \in Nodes : pc[m] \in Holding /\ pc[n] \in Holding => m = n
  /\ \A n \in Nodes : pc[n] = "releaseDir" => ~lock.owner

NeverBroken == ~lock.old /\ \A n \in Nodes : pc[n] \notin Breaking \ {"stat"}

\* The inductive invariant of the proof: until that happens, the
\* directory is there exactly while one node holds it, that node is the one
\* to remove it, and nobody finds a lock old enough to be broken.
IInv == TypeOK /\ UserInHand /\ (~disturbed => HeldByOne /\ NeverBroken)

\* Commands stop failing, nodes stop dying and runs are short again.
EventuallyReliable == <>[][Regular]_vars

\* Once failures stop, every user gets a pool and the roles on it: neither a
\* lock left behind by a dead node, nor one broken under a node at work, nor a
\* pool created by somebody else in the meantime keeps later runs from it.
UsersProvisioned == EventuallyReliable => <>(pools = Users /\ acls = Users)
================================================================================
