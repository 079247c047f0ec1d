------------------------------- MODULE Migrations ------------------------------
(***************************************************************************)
(* Migrate (db/migrate.go), which every process of a deployment calls      *)
(* before anything else, several of them at the same time: server, worker  *)
(* and the migrate command.  A process whose Migrate fails exits and is    *)
(* started again.                                                          *)
(*                                                                         *)
(* Each migration is a transaction of its own: look the version up, run    *)
(* the SQL, record the version, commit.  PostgreSQL in READ COMMITTED      *)
(* makes the SQL of one process wait for the locks that the same SQL took  *)
(* in another one, and the INSERT of a version for another INSERT of it.   *)
(***************************************************************************)
EXTENDS Naturals, Sequences

CONSTANTS
  Processes,
  Kinds       \* the migrations in the order of their versions

(* What the SQL of a migration does where its effect is there already:     *)
(* "add" fails (ADD COLUMN), "ensure" does nothing (IF NOT EXISTS,         *)
(* backfill), "rewrite" does its work once more (strips the owner's prefix *)
(* of vmname again, rebuilds vms); "nothing" never has an effect.          *)
AllKinds == {"add", "ensure", "rewrite", "nothing"}

ASSUME KindsAssumption == Kinds \in Seq(AllKinds) /\ Kinds # <<>>

VARIABLES
  recorded,  \* the versions in schema_migrations
  effects,   \* how often the effect of each migration is in the database
  pc,        \* where each process is in Migrate
  at         \* the migration it is at

vars == <<recorded, effects, pc, at>>

Versions == DOMAIN Kinds
LastVersion == Len(Kinds)

\* The transaction has run its SQL and holds its locks.
InTransaction == {"record", "commit"}

TypeOK ==
  /\ recorded \in SUBSET Versions
  /\ effects \in [Versions -> Nat]
  /\ pc \in [Processes -> {"down", "check", "execute", "up"} \union InTransaction]
  /\ at \in [Processes -> Versions]

\* What is left of a migration that has been applied once.
Once(v) == IF v \in recorded /\ Kinds[v] # "nothing" THEN 1 ELSE 0

\* A new database, or that of an earlier release.
Init ==
  /\ \E n \in 0 .. LastVersion : recorded = 1 .. n
  /\ effects = [v \in Versions |-> Once(v)]
  /\ pc = [p \in Processes |-> "down"]
  /\ at = [p \in Processes |-> 1]

At(p, step) == pc[p] = step

Goto(p, step) == pc' = [pc EXCEPT ![p] = step] /\ UNCHANGED at

\* On to the next migration; after the last one Migrate returns.
Advance(p) ==
  IF at[p] = LastVersion
  THEN Goto(p, "up")
  ELSE pc' = [pc EXCEPT ![p] = "check"] /\ at' = [at EXCEPT ![p] = @ + 1]

\* docker starts the process; CREATE TABLE IF NOT EXISTS schema_migrations.
Start(p) ==
  /\ At(p, "down")
  /\ pc' = [pc EXCEPT ![p] = "check"]
  /\ at' = [at EXCEPT ![p] = 1]
  /\ UNCHANGED <<recorded, effects>>

\* BEGIN, migrationApplied; ROLLBACK if it is.
Check(p) ==
  /\ At(p, "check")
  /\ IF at[p] \in recorded THEN Advance(p) ELSE Goto(p, "execute")
  /\ UNCHANGED <<recorded, effects>>

Locked(p) == \E q \in Processes \ {p} : pc[q] \in InTransaction /\ at[q] = at[p]

\* The migration's SQL goes through.
Execute(p) ==
  /\ At(p, "execute")
  /\ Kinds[at[p]] # "nothing" => ~Locked(p)
  /\ Kinds[at[p]] = "add" => effects[at[p]] = 0
  /\ Goto(p, "record")
  /\ UNCHANGED <<recorded, effects>>

\* Column or table have been created by another process meanwhile.
ExecuteFails(p) ==
  /\ At(p, "execute") /\ ~Locked(p)
  /\ Kinds[at[p]] \in {"add", "ensure"} /\ effects[at[p]] > 0
  /\ Goto(p, "down")
  /\ UNCHANGED <<recorded, effects>>

Inserted(p) == \E q \in Processes \ {p} : pc[q] = "commit" /\ at[q] = at[p]

\* Mutant: INSERT ... ON CONFLICT DO NOTHING.
RecordUnlessThere(p) ==
  /\ At(p, "record") /\ ~Inserted(p)
  /\ Goto(p, "commit")
  /\ UNCHANGED <<recorded, effects>>

Record(p) ==
  /\ At(p, "record") /\ ~Inserted(p)
  /\ at[p] \notin recorded
  /\ Goto(p, "commit")
  /\ UNCHANGED <<recorded, effects>>

\* The primary key of schema_migrations.
RecordFails(p) ==
  /\ At(p, "record")
  /\ at[p] \in recorded
  /\ Goto(p, "down")
  /\ UNCHANGED <<recorded, effects>>

\* The effect of the SQL, which waited for those of others to be committed.
Effect(kind, n) ==
  CASE kind = "nothing" -> 0
    [] kind = "ensure"  -> 1
    [] OTHER            -> n + 1

Committed(v) ==
  /\ recorded' = recorded \union {v}
  /\ effects' = [effects EXCEPT ![v] = Effect(Kinds[v], @)]

Commit(p) == At(p, "commit") /\ Committed(at[p]) /\ Advance(p)

\* The commit is done, its answer lost.
CommitUnanswered(p) == At(p, "commit") /\ Committed(at[p]) /\ Goto(p, "down")

\* Mutant: a process that could not migrate goes to work all the same.
FailsServing(p) ==
  /\ pc[p] # "down"
  /\ Goto(p, IF pc[p] = "up" THEN "down" ELSE "up")
  /\ UNCHANGED <<recorded, effects>>

\* A statement or the ten seconds' limit fails, or the process is stopped or
\* killed: the transaction is rolled back.
Fails(p) ==
  /\ pc[p] # "down"
  /\ Goto(p, "down")
  /\ UNCHANGED <<recorded, effects>>

Faults(p) == CommitUnanswered(p) \/ Fails(p)

Migrate(p) ==
  Check(p) \/ Execute(p) \/ ExecuteFails(p) \/ Record(p) \/ RecordFails(p) \/ Commit(p)

Next == \E p \in Processes : Start(p) \/ Migrate(p) \/ Faults(p)

Spec == Init /\ [][Next]_vars

--------------------------------------------------------------------------------
\* Migrations are applied in the order of their versions, and each exactly once
\* if it is recorded and not at all if it is not, however many processes
\* migrate at the same time and wherever one of them dies (applyMigration).
AppliedOnce ==
  /\ \A v \in Versions : effects[v] = Once(v)
  /\ \A v, w \in Versions : w \in recorded /\ v < w => v \in recorded

\* A process that serves or works has the whole schema (runServe, runWorker
\* and their calls of Migrate).
UpMigrated == \A p \in Processes : pc[p] = "up" => recorded = Versions

(* The parts of the inductive invariant.                                   *)

\* A process has seen everything before its migration applied.
SeenBefore ==
  \A p \in Processes : pc[p] # "down" => \A v \in Versions : v < at[p] => v \in recorded

\* Whoever is about to commit a version is alone with it, and it is missing.
CommitsAlone ==
  \A p \in Processes : pc[p] = "commit" =>
    /\ at[p] \notin recorded
    /\ ~Inserted(p)

IInv == TypeOK /\ AppliedOnce /\ UpMigrated /\ SeenBefore /\ CommitsAlone
================================================================================
