---------------------------- MODULE DeploymentProofs ---------------------------
(***************************************************************************)
(* What holds of Migrate for any number of migrations of any kind, and of  *)
(* the worker's rounds that depend on it.                                  *)
(*                                                                         *)
(* The invariant of Migrations says where each process can be: it has seen *)
(* everything before its migration recorded, and if it is about to commit  *)
(* a version then nobody has recorded it nor is about to.                  *)
(*                                                                         *)
(* That of the rounds says that the ids of a batch stay those of its rows  *)
(* and that no row falls due beyond the bound on them.                     *)
(***************************************************************************)
EXTENDS Deployment, FiniteSetTheorems, TLAPS

\* Kinds is a sequence, its versions are numbered from 1.
LEMMA VersionsAre ==
  /\ LastVersion \in Nat \ {0}
  /\ Versions = 1 .. LastVersion
  /\ \A v \in Versions : Kinds[v] \in AllKinds
BY KindsAssumption DEF LastVersion, Versions

\* Init
LEMMA InitEstablishes == Init => IInv
<1> SUFFICES ASSUME Init PROVE IInv
  OBVIOUS
<1> USE VersionsAre DEF Init
<1>1. recorded \in SUBSET Versions
  BY SMT
<1>2. \A v \in Versions : Once(v) \in Nat
  BY DEF Once
<1>3. TypeOK
  BY <1>1, <1>2 DEF TypeOK, InTransaction
<1>4. AppliedOnce
  BY SMT DEF AppliedOnce
<1>5. UpMigrated /\ SeenBefore /\ CommitsAlone
  BY DEF UpMigrated, SeenBefore, CommitsAlone
<1> QED
  BY <1>3, <1>4, <1>5 DEF IInv

\* A process moves on within its migration, up to "record", or goes down.
LEMMA GotoPreserves ==
  ASSUME IInv, NEW p \in Processes,
         NEW step \in {"down", "check", "execute", "record"}, Goto(p, step),
         step = "down" \/ pc[p] # "down",
         UNCHANGED <<recorded, effects>>
  PROVE  IInv'
<1> USE DEF IInv
<1>1. TypeOK'
  BY DEF TypeOK, Goto, InTransaction
<1>2. AppliedOnce'
  BY DEF AppliedOnce, Once
<1>3. UpMigrated'
  BY DEF UpMigrated, Goto, TypeOK
<1>4. SeenBefore'
  BY DEF SeenBefore, Goto, TypeOK
<1>5. CommitsAlone'
  BY DEF CommitsAlone, Inserted, Goto, TypeOK
<1> QED
  BY <1>1, <1>2, <1>3, <1>4, <1>5

\* The end of a migration: at is recorded, by this step or before it.
LEMMA AdvancePreserves ==
  ASSUME IInv, NEW p \in Processes, pc[p] # "down", Advance(p),
         recorded \subseteq recorded', at[p] \in recorded', recorded' \subseteq Versions
  PROVE  /\ pc' \in [Processes -> {"down", "check", "execute", "up"} \union InTransaction]
         /\ at' \in [Processes -> Versions]
         /\ UpMigrated' /\ SeenBefore'
<1> USE VersionsAre DEF IInv
<1>1. CASE at[p] = LastVersion
  <2>1. pc' = [pc EXCEPT ![p] = "up"] /\ at' = at
    BY <1>1 DEF Advance, Goto
  <2>2. Versions \subseteq recorded'
    BY <1>1 DEF SeenBefore, TypeOK
  <2> QED
    BY <2>1, <2>2 DEF UpMigrated, SeenBefore, TypeOK
<1>2. CASE at[p] # LastVersion
  <2>1. pc' = [pc EXCEPT ![p] = "check"] /\ at' = [at EXCEPT ![p] = @ + 1]
    BY <1>2 DEF Advance
  <2>2. at[p] + 1 \in Versions
    BY <1>2 DEF TypeOK
  <2>3. pc' \in [Processes -> {"down", "check", "execute", "up"} \union InTransaction] /\ at' \in [Processes -> Versions]
    BY <2>1, <2>2 DEF TypeOK
  <2>4. UpMigrated'
    BY <2>1 DEF UpMigrated, TypeOK
  <2>5. ASSUME NEW q \in Processes, pc'[q] # "down", NEW v \in Versions, v < at'[q]
        PROVE  v \in recorded'
    <3>1. CASE q = p
      BY <2>1, <2>5, <3>1 DEF SeenBefore, TypeOK
    <3>2. CASE q # p
      BY <2>1, <2>5, <3>2 DEF SeenBefore, TypeOK
    <3> QED
      BY <3>1, <3>2
  <2>6. SeenBefore'
    BY <2>5 DEF SeenBefore, Versions
  <2> QED
    BY <2>3, <2>4, <2>6
<1> QED
  BY <1>1, <1>2

\* The transaction of a version that is missing is committed.
LEMMA CommittedPreserves ==
  ASSUME IInv, NEW p \in Processes, pc[p] = "commit", Committed(at[p])
  PROVE  /\ recorded' \in SUBSET Versions /\ effects' \in [Versions -> Nat]
         /\ recorded' = recorded \union {at[p]}
         /\ AppliedOnce'
<1> USE VersionsAre DEF IInv, Committed
<1> DEFINE v == at[p]
<1>1. v \in Versions /\ v \notin recorded /\ effects[v] = 0
  BY DEF TypeOK, CommitsAlone, AppliedOnce, Once
<1>2. recorded' = recorded \union {v}
  OBVIOUS
<1>3. effects'[v] = IF Kinds[v] # "nothing" THEN 1 ELSE 0
  BY <1>1 DEF Effect, TypeOK
<1>4. \A w \in Versions : w # v => effects'[w] = effects[w]
  BY DEF TypeOK
<1>5. DOMAIN effects' = Versions
  BY DEF TypeOK
<1>6. \A w \in Versions : effects'[w] = IF w \in recorded' /\ Kinds[w] # "nothing" THEN 1 ELSE 0
  BY <1>1, <1>2, <1>3, <1>4 DEF AppliedOnce, Once
<1>7. effects' \in [Versions -> Nat]
  <2>1. effects' = [effects EXCEPT ![v] = Effect(Kinds[v], effects[v])]
    OBVIOUS
  <2>2. Effect(Kinds[v], effects[v]) \in Nat
    BY <1>1 DEF Effect, TypeOK
  <2> QED
    BY <2>1, <2>2 DEF TypeOK
<1>8. \A w, x \in Versions : x \in recorded' /\ w < x => w \in recorded'
  BY <1>1, <1>2 DEF AppliedOnce, SeenBefore
<1>9. AppliedOnce'
  BY <1>6, <1>8 DEF AppliedOnce, Once, Versions
<1> QED
  BY <1>1, <1>2, <1>7, <1>9 DEF TypeOK

\* Nobody else is about to commit the version that is committed.
LEMMA OthersCommit ==
  ASSUME IInv, NEW p \in Processes, pc[p] = "commit",
         recorded' = recorded \union {at[p]},
         \A q \in Processes \ {p} : pc'[q] = pc[q] /\ at'[q] = at[q],
         pc'[p] # "commit"
  PROVE  CommitsAlone'
<1>1. ASSUME NEW q \in Processes, pc'[q] = "commit"
      PROVE  at'[q] \notin recorded' /\ ~\E o \in Processes \ {q} : pc'[o] = "commit" /\ at'[o] = at'[q]
  <2>1. q # p /\ pc[q] = "commit" /\ at'[q] = at[q]
    BY <1>1
  <2>2. at[q] \notin recorded /\ at[q] # at[p]
    BY <2>1 DEF IInv, CommitsAlone, Inserted
  <2>3. ~\E o \in Processes \ {q} : pc[o] = "commit" /\ at[o] = at[q]
    BY <2>1 DEF IInv, CommitsAlone, Inserted
  <2> QED
    BY <2>1, <2>2, <2>3
<1> QED
  BY <1>1 DEF CommitsAlone, Inserted

\* Every step of every process.
LEMMA NextPreserves == IInv /\ [Next]_vars => IInv'
<1> SUFFICES ASSUME IInv, [Next]_vars PROVE IInv'
  OBVIOUS
<1>1. CASE UNCHANGED vars
  BY <1>1 DEF vars, IInv, TypeOK, AppliedOnce, Once, UpMigrated, SeenBefore, CommitsAlone, Inserted
<1>2. CASE Next
  <2> PICK p \in Processes : Start(p) \/ Migrate(p) \/ Faults(p)
    BY <1>2 DEF Next
  <2>1. CASE Start(p)
    <3> USE VersionsAre, <2>1 DEF Start, At, IInv
    <3>1. TypeOK'
      BY DEF TypeOK
    <3>2. AppliedOnce' /\ UpMigrated'
      BY DEF AppliedOnce, Once, UpMigrated, TypeOK
    <3>3. SeenBefore'
      BY DEF SeenBefore, TypeOK
    <3>4. CommitsAlone'
      BY DEF CommitsAlone, Inserted, TypeOK
    <3> QED
      BY <3>1, <3>2, <3>3, <3>4
  <2>2. CASE Check(p)
    <3>1. CASE at[p] \in recorded
      <4>1. Advance(p) /\ pc[p] = "check" /\ UNCHANGED <<recorded, effects>>
        BY <2>2, <3>1 DEF Check, At
      <4>2. recorded \subseteq Versions
        BY DEF IInv, TypeOK
      <4>3. /\ pc' \in [Processes -> {"down", "check", "execute", "up"} \union InTransaction]
            /\ at' \in [Processes -> Versions] /\ UpMigrated' /\ SeenBefore'
        BY <4>1, <4>2, <3>1, AdvancePreserves
      <4>4. TypeOK' /\ AppliedOnce'
        BY <4>1, <4>3 DEF IInv, TypeOK, AppliedOnce, Once
      <4>5. \A q \in Processes : pc'[q] = "commit" => pc[q] = "commit" /\ at'[q] = at[q]
        BY <4>1 DEF Advance, Goto, IInv, TypeOK
      <4>6. CommitsAlone'
        BY <4>1, <4>5 DEF IInv, CommitsAlone, Inserted
      <4> QED
        BY <4>3, <4>4, <4>6 DEF IInv
    <3>2. CASE at[p] \notin recorded
      BY <2>2, <3>2, GotoPreserves DEF Check, At
    <3> QED
      BY <3>1, <3>2
  <2>3. CASE Execute(p)
    BY <2>3, GotoPreserves DEF Execute, At
  <2>4. CASE ExecuteFails(p)
    BY <2>4, GotoPreserves DEF ExecuteFails, At
  <2>5. CASE Record(p)
    <3> USE <2>5 DEF Record, At, Goto, IInv
    <3>1. TypeOK'
      BY DEF TypeOK, InTransaction
    <3>2. AppliedOnce' /\ UpMigrated' /\ SeenBefore'
      BY DEF AppliedOnce, Once, UpMigrated, SeenBefore, TypeOK
    <3>3. CommitsAlone'
      BY DEF CommitsAlone, Inserted, TypeOK
    <3> QED
      BY <3>1, <3>2, <3>3
  <2>6. CASE RecordFails(p)
    BY <2>6, GotoPreserves DEF RecordFails, At
  <2>7. CASE Commit(p)
    <3>1. pc[p] = "commit" /\ Committed(at[p]) /\ Advance(p)
      BY <2>7 DEF Commit, At
    <3>2. /\ recorded' \in SUBSET Versions /\ effects' \in [Versions -> Nat]
          /\ recorded' = recorded \union {at[p]} /\ AppliedOnce'
      BY <3>1, CommittedPreserves
    <3>3. /\ pc' \in [Processes -> {"down", "check", "execute", "up"} \union InTransaction]
          /\ at' \in [Processes -> Versions] /\ UpMigrated' /\ SeenBefore'
      BY <3>1, <3>2, AdvancePreserves
    <3>4. /\ \A q \in Processes \ {p} : pc'[q] = pc[q] /\ at'[q] = at[q]
          /\ pc'[p] # "commit"
      BY <3>1 DEF Advance, Goto, IInv, TypeOK
    <3>5. CommitsAlone'
      BY <3>1, <3>2, <3>4, OthersCommit
    <3> QED
      BY <3>2, <3>3, <3>5 DEF IInv, TypeOK
  <2>8. CASE CommitUnanswered(p)
    <3>1. pc[p] = "commit" /\ Committed(at[p]) /\ Goto(p, "down")
      BY <2>8 DEF CommitUnanswered, At
    <3>2. /\ recorded' \in SUBSET Versions /\ effects' \in [Versions -> Nat]
          /\ recorded' = recorded \union {at[p]} /\ AppliedOnce'
      BY <3>1, CommittedPreserves
    <3>3. TypeOK'
      BY <3>1, <3>2 DEF Goto, IInv, TypeOK
    <3>4. UpMigrated' /\ SeenBefore'
      BY <3>1, <3>2 DEF Goto, IInv, TypeOK, UpMigrated, SeenBefore
    <3>5. /\ \A q \in Processes \ {p} : pc'[q] = pc[q] /\ at'[q] = at[q]
          /\ pc'[p] # "commit"
      BY <3>1 DEF Goto, IInv, TypeOK
    <3>6. CommitsAlone'
      BY <3>1, <3>2, <3>5, OthersCommit
    <3> QED
      BY <3>2, <3>3, <3>4, <3>6 DEF IInv
  <2>9. CASE Fails(p)
    BY <2>9, GotoPreserves DEF Fails
  <2> QED
    BY <2>1, <2>2, <2>3, <2>4, <2>5, <2>6, <2>7, <2>8, <2>9 DEF Migrate, Faults
<1> QED
  BY <1>1, <1>2

--------------------------------------------------------------------------------
\* A step of the deployment is a step of Migrate or leaves it alone.
LEMMA DeploymentSteps == [DeploymentNext]_allVars => [Next]_vars
BY DEF DeploymentNext, Regular, AllFaults, StartUp, Rounds, Clock, Next, vars, allVars

\* The inductive invariant of Migrations, in a deployment.
THEOREM Invariance == DeploymentSpec => []IInv
<1>1. DeploymentInit => IInv
  BY InitEstablishes DEF DeploymentInit
<1>2. IInv /\ [DeploymentNext]_allVars => IInv'
  BY DeploymentSteps, NextPreserves
<1> QED
  BY <1>1, <1>2, PTL DEF DeploymentSpec

\* Each migration takes effect exactly once and in order (applyMigration).
THEOREM AppliedOnceHolds == DeploymentSpec => []AppliedOnce
<1>1. IInv => AppliedOnce
  BY DEF IInv
<1> QED
  BY <1>1, Invariance, PTL

\* The worker is in its loop exactly while its process is up.
LoopWhileUp == wpc # "down" <=> pc[worker] = "up"

LEMMA LoopStarts == DeploymentInit => LoopWhileUp
BY ProcessesAssumption DEF DeploymentInit, Init, RoundInit, LoopWhileUp

LEMMA LoopGoesOn == LoopWhileUp /\ [DeploymentNext]_allVars => LoopWhileUp'
<1> SUFFICES ASSUME LoopWhileUp, [DeploymentNext]_allVars PROVE LoopWhileUp'
  OBVIOUS
<1> USE DEF LoopWhileUp
<1>1. CASE UNCHANGED allVars
  BY <1>1 DEF allVars, vars, roundVars
<1>2. CASE WithWorker
  BY <1>2 DEF WithWorker, StartWorker, WorkerEnds, Is, Proceed, roundVars
<1>3. CASE (RoundStep \/ RoundFaults) /\ UNCHANGED vars
  <2>1. wpc # "down" /\ wpc' # "down"
    BY <1>3 DEF RoundStep, RoundFaults, Is, Proceed, Recover, BeginRound, Ensure, Pick, MarkRunning, ScanPart,
       ScanEnds, FinishTask, BatchDone, RunVMTasks, Purge, Wake, RecoverFails, BeginRoundFails, RoundFails,
       MarkRunningFails, FinishTaskFails, VMTasksFail, PurgeFails
  <2> QED
    BY <1>3, <2>1 DEF vars
<1>4. CASE Tick /\ UNCHANGED vars
  BY <1>4 DEF Tick, vars
<1> QED
  BY <1>1, <1>2, <1>3, <1>4 DEF DeploymentNext, Regular, AllFaults, StartUp, Rounds, Clock

\* The worker's loop never meets a schema that is not complete (runWorker).
THEOREM RoundsMigratedHolds == DeploymentSpec => []RoundsMigrated
<1>1. IInv /\ LoopWhileUp => RoundsMigrated
  BY ProcessesAssumption DEF IInv, UpMigrated, LoopWhileUp, RoundsMigrated
<1>2. DeploymentSpec => []LoopWhileUp
  BY LoopStarts, LoopGoesOn, PTL DEF DeploymentSpec
<1> QED
  BY <1>1, <1>2, Invariance, PTL

--------------------------------------------------------------------------------
(* Ids in their order.                                                     *)

\* Within a set of ids no two come after equally many.
LEMMA Ranks ==
  ASSUME NEW N \in Nat, NEW ids \in SUBSET (1 .. N)
  PROVE  /\ IsFiniteSet(ids) /\ Cardinality(ids) \in 0 .. N
         /\ \A i \in ids : Rank(ids, i) \in 0 .. Cardinality(ids) - 1
         /\ \A i, j \in ids : i # j => Rank(ids, i) # Rank(ids, j)
<1>1. IsFiniteSet(1 .. N) /\ Cardinality(1 .. N) = N
  BY FS_Interval
<1>2. IsFiniteSet(ids) /\ Cardinality(ids) \in 0 .. N
  <2>1. IsFiniteSet(ids) /\ Cardinality(ids) <= N
    BY <1>1, FS_Subset
  <2>2. Cardinality(ids) \in Nat
    BY <2>1, FS_CardinalityType
  <2> QED BY <2>1, <2>2
<1> DEFINE Below(i) == {j \in ids : j < i}
<1>3. \A i : IsFiniteSet(Below(i)) /\ Cardinality(Below(i)) \in Nat
  BY <1>2, FS_Subset, FS_CardinalityType
<1>4. ASSUME NEW i \in ids
      PROVE  Cardinality(Below(i)) <= Cardinality(ids) - 1
  <2>1. i \in Nat /\ Below(i) \in SUBSET (ids \ {i})
    OBVIOUS
  <2>2. IsFiniteSet(ids \ {i}) /\ Cardinality(ids \ {i}) = Cardinality(ids) - 1
    BY <1>2, FS_RemoveElement
  <2> HIDE DEF Below
  <2> QED BY <2>1, <2>2, FS_Subset
<1>5. ASSUME NEW i \in ids, NEW j \in ids, i < j
      PROVE  Cardinality(Below(i)) < Cardinality(Below(j))
  <2>1. Below(i) \in SUBSET Below(j) /\ i \in Below(j) /\ i \notin Below(i)
    <3>1. i \in Nat /\ j \in Nat /\ \A k \in ids : k \in Nat
      OBVIOUS
    <3>2. \A k \in ids : k < i => k < j
      BY <1>5, <3>1
    <3>3. ~(i < i)
      BY <3>1
    <3> QED BY <1>5, <3>2, <3>3
  <2> HIDE DEF Below
  <2>2. Cardinality(Below(i)) <= Cardinality(Below(j)) /\ Cardinality(Below(i)) # Cardinality(Below(j))
    BY <1>3, <2>1, FS_Subset
  <2> QED BY <1>3, <2>2
<1>6. \A i : Rank(ids, i) = Cardinality(Below(i))
  BY DEF Rank
<1> HIDE DEF Below
<1>7. \A i \in ids : Rank(ids, i) \in 0 .. Cardinality(ids) - 1
  BY <1>2, <1>3, <1>4, <1>6
<1>8. ASSUME NEW i \in ids, NEW j \in ids, i # j
      PROVE  Rank(ids, i) # Rank(ids, j)
  <2>1. i < j \/ j < i
    BY <1>8
  <2> QED BY <1>3, <1>5, <1>6, <2>1
<1> QED BY <1>2, <1>7, <1>8

\* Each of the ranks is taken.
LEMMA RankTaken ==
  ASSUME NEW N \in Nat, NEW ids \in SUBSET (1 .. N), NEW n \in 1 .. Cardinality(ids)
  PROVE  \E i \in ids : Rank(ids, i) = n - 1
<1> DEFINE places == 0 .. Cardinality(ids) - 1
           f      == [i \in ids |-> Rank(ids, i)]
<1>1. Cardinality(ids) \in Nat
  BY Ranks
<1>2. IsFiniteSet(places) /\ Cardinality(places) = Cardinality(ids)
  <2>1. 0 \in Int /\ Cardinality(ids) - 1 \in Int
    BY <1>1
  <2>2. /\ IsFiniteSet(0 .. Cardinality(ids) - 1)
        /\ Cardinality(0 .. Cardinality(ids) - 1) =
             IF 0 > Cardinality(ids) - 1 THEN 0 ELSE (Cardinality(ids) - 1) - 0 + 1
    BY <2>1, FS_Interval
  <2> QED BY <1>1, <2>2
<1>3. n - 1 \in places
  BY <1>1
<1>4. f \in [ids -> places] /\ \A i, j \in ids : f[i] = f[j] => i = j
  BY Ranks
<1> HIDE DEF places, f
<1>5. f \in Injection(ids, places)
  BY <1>4 DEF Injection, IsInjective
<1>6. f \in Surjection(ids, places)
  BY <1>2, <1>5, FS_Injection
<1>7. \E i \in ids : f[i] = n - 1
  BY <1>3, <1>6 DEF Surjection
<1> QED BY <1>7 DEF f

LEMMA LeastId ==
  ASSUME NEW N \in Nat, NEW ids \in SUBSET (1 .. N), ids # {}
  PROVE  Min(ids) \in ids
<1>1. IsFiniteSet(ids) /\ Cardinality(ids) \in Nat
  BY Ranks
<1>2. 1 \in 1 .. Cardinality(ids)
  BY <1>1, FS_EmptySet
<1>3. PICK i \in ids : Rank(ids, i) = 0
  BY <1>2, RankTaken
<1>4. {j \in ids : j < i} = {}
  <2>1. IsFiniteSet({j \in ids : j < i})
    BY <1>1, FS_Subset
  <2> QED BY <1>3, <2>1, FS_EmptySet DEF Rank
<1>5. \A j \in ids : i <= j
  BY <1>4
<1> QED BY <1>5 DEF Min

\* LIMIT
LEMMA FirstOnes ==
  ASSUME NEW N \in Nat, NEW ids \in SUBSET (1 .. N), NEW limit \in Nat
  PROVE  Cardinality({i \in ids : Rank(ids, i) < limit}) <= limit
<1>1. PICK first \in SUBSET ids : first = {i \in ids : Rank(ids, i) < limit}
  OBVIOUS
<1> DEFINE places == 0 .. limit - 1
           f      == [i \in first |-> Rank(ids, i)]
<1>2. IsFiniteSet(places) /\ Cardinality(places) = limit
  <2>1. 0 \in Int /\ limit - 1 \in Int
    OBVIOUS
  <2>2. /\ IsFiniteSet(0 .. limit - 1)
        /\ Cardinality(0 .. limit - 1) = IF 0 > limit - 1 THEN 0 ELSE (limit - 1) - 0 + 1
    BY <2>1, FS_Interval
  <2> QED BY <2>2
<1>3. f \in [first -> places] /\ \A i, j \in first : f[i] = f[j] => i = j
  <2>1. \A i \in first : Rank(ids, i) \in Nat /\ Rank(ids, i) < limit
    <3>1. Cardinality(ids) \in Nat /\ \A i \in ids : Rank(ids, i) \in 0 .. Cardinality(ids) - 1
      BY Ranks
    <3>2. \A i \in first : i \in ids /\ Rank(ids, i) < limit
      BY <1>1
    <3> QED BY <3>1, <3>2
  <2>2. \A i \in first : Rank(ids, i) \in places
    BY <2>1
  <2>3. \A i, j \in first : i # j => Rank(ids, i) # Rank(ids, j)
    BY Ranks
  <2> HIDE DEF places
  <2> QED BY <2>2, <2>3
<1> HIDE DEF places, f
<1>4. f \in Injection(first, places)
  BY <1>3 DEF Injection, IsInjective
<1>5. Cardinality(first) <= limit
  BY <1>2, <1>4, FS_Injection
<1> QED BY <1>1, <1>5

--------------------------------------------------------------------------------
(* The worker's rounds.                                                    *)

\* A row for which a new one would be due if it was the last.
Past(r) == r.status \in Finished /\ ~(r.age < Interval)

\* UPDATE statements keep the ids and what a row is, and make no row a past one.
Rewrites(new) ==
  /\ new \in [DOMAIN rows -> Row]
  /\ MaxRows \in DOMAIN rows /\ Past(new[MaxRows]) => Past(rows[MaxRows])

LEMMA RewritesKeep ==
  ASSUME RoundTypeOK, LastNotDue, Rewrites(rows')
  PROVE  /\ rows' \in Seq(Row) /\ Len(rows') <= MaxRows /\ DOMAIN rows' = DOMAIN rows
         /\ LastNotDue'
<1>1. PICK n \in Nat : n = Len(rows) /\ DOMAIN rows = 1 .. n /\ n <= MaxRows
  BY DEF RoundTypeOK
<1>2. rows' \in [1 .. n -> Row]
  BY <1>1 DEF Rewrites
<1>3. rows' \in Seq(Row) /\ Len(rows') = n /\ DOMAIN rows' = 1 .. n
  BY <1>2
<1>4. LastNotDue'
  BY <1>1, <1>3 DEF LastNotDue, Rewrites, Past
<1> QED BY <1>1, <1>3, <1>4

LEMMA RowsType ==
  ASSUME RoundTypeOK
  PROVE  /\ rows \in [DOMAIN rows -> Row] /\ \A i \in DOMAIN rows : rows[i] \in Row
         /\ Len(rows) \in Nat /\ DOMAIN rows = 1 .. Len(rows)
         /\ IsFiniteSet(batch) /\ Cardinality(batch) \in Nat /\ batch \in SUBSET (1 .. Len(rows))
<1>1. PICK n \in Nat : n = Len(rows) /\ DOMAIN rows = 1 .. n
  BY DEF RoundTypeOK
<1>2. rows \in [1 .. n -> Row]
  BY <1>1 DEF RoundTypeOK
<1>3. batch \in SUBSET (1 .. n)
  BY <1>1 DEF RoundTypeOK
<1>4. IsFiniteSet(batch) /\ Cardinality(batch) \in Nat
  BY <1>3, Ranks
<1> QED BY <1>1, <1>2, <1>3, <1>4

LEMMA FreshRow ==
  ASSUME NEW status \in {"pending", "running", "done", "failed"}
  PROVE  Fresh(status) \in Row /\ ~Past(Fresh(status))
<1>1. 0 \in 0 .. PurgeAfter /\ 0 < Interval
  BY AgesAssumption
<1> QED BY <1>1 DEF Fresh, Row, Finished, Past

LEMMA RequeuedRewrites ==
  ASSUME RoundTypeOK, NEW ids
  PROVE  Rewrites(Requeued(ids))
  BY RowsType, FreshRow DEF Rewrites, Requeued

\* The first row of the batch is marked.
LEMMA MarkRewrites ==
  ASSUME RoundTypeOK, NEW status \in {"running", "done", "failed"}, Mark(status)
  PROVE  Rewrites(rows')
  BY RowsType, FreshRow DEF Rewrites, Mark

LEMMA TickRewrites ==
  ASSUME RoundTypeOK, Tick
  PROVE  Rewrites(rows')
<1>1. ASSUME NEW i \in DOMAIN rows
      PROVE  /\ Older(i) \in Row
             /\ i = MaxRows /\ Past(Older(i)) => Past(rows[i])
  <2>1. PICK s \in {"pending", "running"} \union Finished, a \in 0 .. PurgeAfter :
          rows[i] = [status |-> s, age |-> a]
    BY RowsType DEF Row
  <2>2. PICK o \in Nat : /\ o = IF i = MaxRows /\ s \in Finished THEN Interval - 1 ELSE PurgeAfter
                         /\ o <= PurgeAfter
    BY AgesAssumption
  <2>3. PICK b \in 0 .. PurgeAfter : b = IF a < o THEN a + 1 ELSE a
    BY <2>2, AgesAssumption
  <2>4. Older(i) = [status |-> s, age |-> b]
    BY <2>1, <2>2, <2>3 DEF Older
  <2>5. i = MaxRows /\ s \in Finished /\ ~(b < Interval) => ~(a < Interval)
    BY <2>2, <2>3, AgesAssumption
  <2> QED BY <2>1, <2>4, <2>5 DEF Row, Past
<1> QED BY <1>1 DEF Rewrites, Tick

\* DELETE statements leave rows that are not past.
LEMMA PurgeKeeps ==
  ASSUME RoundTypeOK, LastNotDue
  PROVE  /\ Purged \in Seq(Row) /\ Len(Purged) <= MaxRows
         /\ MaxRows \in DOMAIN Purged => ~Past(Purged[MaxRows])
<1>1. PICK n \in Nat : n = Len(rows) /\ DOMAIN rows = 1 .. n /\ n <= MaxRows
  BY DEF RoundTypeOK
<1>2. PICK ids \in SUBSET (1 .. n) : ids = {i \in DOMAIN rows : Kept(rows[i])}
  BY <1>1
<1>3. PICK k \in 0 .. n : k = Cardinality(ids)
  BY Ranks
<1>4. Purged = [m \in 1 .. k |-> rows[CHOOSE i \in ids : Rank(ids, i) = m - 1]]
  BY <1>2, <1>3 DEF Purged
<1>5. ASSUME NEW m \in 1 .. k
      PROVE  \E i \in ids : Purged[m] = rows[i] /\ Rank(ids, i) = m - 1
  <2>1. \E i \in ids : Rank(ids, i) = m - 1
    BY <1>1, <1>3, RankTaken
  <2> QED BY <1>4, <2>1
<1>6. \A i \in ids : rows[i] \in Row
  BY <1>1, RowsType
<1>7. Purged \in [1 .. k -> Row]
  BY <1>4, <1>5, <1>6
<1>8. Purged \in Seq(Row) /\ Len(Purged) = k /\ DOMAIN Purged = 1 .. k
  BY <1>7
<1>9. ASSUME MaxRows \in 1 .. k
      PROVE  ~Past(Purged[MaxRows])
  <2>1. k = n /\ MaxRows = n
    BY <1>1, <1>9
  <2>2. ids = 1 .. n
    <3>1. IsFiniteSet(1 .. n) /\ Cardinality(1 .. n) = n
      BY FS_Interval
    <3> QED BY <1>3, <2>1, <3>1, FS_Subset
  <2>3. PICK i \in ids : Purged[n] = rows[i] /\ Rank(ids, i) = n - 1
    BY <1>5, <1>9, <2>1
  <2>4. i = n
    <3>1. {j \in ids : j < i} = 1 .. i - 1
      BY <2>2
    <3>2. Rank(ids, i) = i - 1
      <4>1. i \in 1 .. n /\ 1 \in Int /\ i - 1 \in Int /\ i >= 1
        BY <2>2
      <4>2. Cardinality(1 .. i - 1) = IF 1 > i - 1 THEN 0 ELSE (i - 1) - 1 + 1
        BY <4>1, FS_Interval
      <4>3. Cardinality(1 .. i - 1) = i - 1
        BY <4>1, <4>2
      <4> QED BY <3>1, <4>3 DEF Rank
    <3> QED BY <2>2, <2>3, <3>2
  <2> QED BY <1>1, <2>1, <2>3, <2>4 DEF LastNotDue, Past
<1>10. k <= MaxRows
  BY <1>1, RowsAssumption
<1> QED BY <1>8, <1>9, <1>10

LEMMA RoundStarts == RoundInit => RoundInv
<1> SUFFICES ASSUME RoundInit PROVE RoundInv
  OBVIOUS
<1>1. rows = <<>> /\ batch = {} /\ Cardinality(batch) = 0 /\ DOMAIN rows = {}
  BY FS_EmptySet DEF RoundInit
<1>2. MaxRows \notin DOMAIN rows
  BY <1>1
<1>3. rows \in Seq(Row) /\ Len(rows) = 0
  BY <1>1
<1>4. Nowhere \in [served : SUBSET Clusters, bad : SUBSET Clusters] /\ 1 \in 1 .. Len(Parts) + 1
  BY DEF Nowhere, Parts
<1>5. 0 <= Limit /\ 0 <= MaxRows
  BY RowsAssumption
<1>6. RoundTypeOK
  BY <1>1, <1>3, <1>4, <1>5 DEF RoundInit, RoundTypeOK
<1> QED BY <1>1, <1>2, <1>6 DEF RoundInit, RoundInv, BatchInRound, LastNotDue

\* The rest of the batch.
LEMMA OthersSmaller ==
  ASSUME RoundTypeOK
  PROVE  Others \in SUBSET batch /\ Cardinality(Others) <= Limit
<1>1. Others \in SUBSET batch
  BY DEF Others
<1>2. IsFiniteSet(batch)
  BY RowsType
<1>3. IsFiniteSet(Others) /\ Cardinality(Others) <= Cardinality(batch)
  BY <1>1, <1>2, FS_Subset
<1>4. Cardinality(Others) \in Nat
  BY <1>3, FS_CardinalityType
<1> QED BY <1>1, <1>3, <1>4, RowsType, RowsAssumption DEF RoundTypeOK

\* What a step makes of the rows and of the batch; the rest is plain.
LEMMA RoundGoesOn ==
  ASSUME RoundInv,
         \/ rows' = rows \/ Rewrites(rows')
         \/ rows' \in Seq(Row) /\ Len(rows') <= MaxRows /\ LastNotDue' /\ DOMAIN rows \subseteq DOMAIN rows'
         \/ rows' = Purged /\ batch = {},
         \/ batch' = batch \/ batch' = Others \/ batch' = {}
         \/ batch' = Picked /\ rows' = rows,
         wpc' \in {"down", "recover", "begin", "ensure", "pick", "mark", "scan", "finish", "vmTasks", "purge", "sleep"},
         part' \in 1 .. Len(Parts) + 1, failed' \in BOOLEAN,
         outcome' \in [served : SUBSET Clusters, bad : SUBSET Clusters],
         BatchInRound'
  PROVE  RoundInv'
<1>1. RoundTypeOK /\ BatchInRound /\ LastNotDue
  BY DEF RoundInv
<1>2. rows' \in Seq(Row) /\ Len(rows') <= MaxRows /\ LastNotDue'
      /\ (DOMAIN rows \subseteq DOMAIN rows' \/ batch = {})
  <2>1. CASE rows' = rows
    BY <1>1, <2>1 DEF RoundTypeOK, LastNotDue
  <2>2. CASE Rewrites(rows')
    BY <1>1, <2>2, RewritesKeep
  <2>3. CASE rows' \in Seq(Row) /\ Len(rows') <= MaxRows /\ LastNotDue' /\ DOMAIN rows \subseteq DOMAIN rows'
    BY <2>3
  <2>4. CASE rows' = Purged /\ batch = {}
    <3>1. /\ Purged \in Seq(Row) /\ Len(Purged) <= MaxRows
          /\ MaxRows \in DOMAIN Purged => ~Past(Purged[MaxRows])
      BY <1>1, PurgeKeeps
    <3> QED BY <2>4, <3>1 DEF LastNotDue, Past
  <2> QED BY <2>1, <2>2, <2>3, <2>4
<1>3. batch' \subseteq DOMAIN rows' /\ Cardinality(batch') <= Limit
  <2>1. batch \subseteq DOMAIN rows /\ Cardinality(batch) <= Limit
    BY <1>1 DEF RoundTypeOK
  <2>2. batch \subseteq DOMAIN rows'
    BY <1>2, <2>1
  <2>3. CASE batch' = batch
    BY <2>1, <2>2, <2>3
  <2>4. CASE batch' = Others
    BY <1>1, <2>2, <2>4, OthersSmaller
  <2>5. CASE batch' = {}
    BY <2>5, FS_EmptySet, RowsAssumption
  <2>6. CASE batch' = Picked /\ rows' = rows
    <3>1. PICK n \in Nat : DOMAIN rows = 1 .. n
      BY <1>1, RowsType
    <3>2. PICK ids \in SUBSET (1 .. n) : ids = {i \in DOMAIN rows : Pickable(i)}
      BY <3>1
    <3>3. Picked = {i \in ids : Rank(ids, i) < Limit}
      BY <3>2 DEF Picked
    <3>4. Cardinality({i \in ids : Rank(ids, i) < Limit}) <= Limit
      BY FirstOnes, RowsAssumption
    <3> QED BY <2>6, <3>1, <3>2, <3>3, <3>4
  <2> QED BY <2>3, <2>4, <2>5, <2>6
<1> QED BY <1>2, <1>3 DEF RoundInv, RoundTypeOK

\* ensureMaintenanceTasks adds a row only if the last one is past.
LEMMA EnsureKeeps ==
  ASSUME RoundTypeOK, LastNotDue, Ensure
  PROVE  rows' \in Seq(Row) /\ Len(rows') <= MaxRows /\ LastNotDue' /\ DOMAIN rows \subseteq DOMAIN rows'
<1>1. PICK n \in Nat : n = Len(rows) /\ DOMAIN rows = 1 .. n /\ n <= MaxRows
  BY DEF RoundTypeOK
<1>2. CASE ~Due
  BY <1>2 DEF Ensure, RoundTypeOK, LastNotDue
<1>3. CASE Due
  <2>1. Interval \in Nat /\ \A i \in DOMAIN rows : rows[i].age \in Nat
    BY AgesAssumption, RowsType DEF Row
  <2>2. n # MaxRows
    <3>1. ASSUME n = MaxRows
          PROVE  FALSE
      <4>1. rows # <<>> /\ MaxRows \in DOMAIN rows /\ Latest = rows[MaxRows]
        BY <1>1, <3>1, RowsAssumption DEF Latest
      <4> QED BY <1>3, <2>1, <4>1 DEF Due, LastNotDue
    <3> QED BY <3>1
  <2>3. PICK r \in Row : r = Fresh("pending") /\ r.status = "pending"
    BY FreshRow DEF Fresh
  <2>4. rows' = Append(rows, r) /\ rows \in Seq(Row)
    BY <1>3, <2>3 DEF Ensure, RoundTypeOK
  <2>5. /\ rows' \in Seq(Row) /\ Len(rows') = n + 1 /\ DOMAIN rows' = 1 .. n + 1
        /\ rows'[n + 1] = r
    BY <1>1, <2>4
  <2>6. n + 1 <= MaxRows
    BY <1>1, <2>2, RowsAssumption
  <2>7. MaxRows \in 1 .. n + 1 => MaxRows = n + 1
    BY <2>6, RowsAssumption
  <2>8. LastNotDue'
    BY <2>3, <2>5, <2>7 DEF LastNotDue, Finished
  <2> QED BY <1>1, <2>5, <2>6, <2>8
<1> QED BY <1>2, <1>3

LEMMA RoundPreserves == RoundInv /\ [DeploymentNext]_allVars => RoundInv'
<1> SUFFICES ASSUME RoundInv, [DeploymentNext]_allVars PROVE RoundInv'
  OBVIOUS
<1>1. RoundTypeOK /\ BatchInRound /\ LastNotDue
  BY DEF RoundInv
<1>2. /\ part \in 1 .. Len(Parts) + 1 /\ failed \in BOOLEAN
      /\ outcome \in [served : SUBSET Clusters, bad : SUBSET Clusters]
      /\ Nowhere \in [served : SUBSET Clusters, bad : SUBSET Clusters]
      /\ 1 \in 1 .. Len(Parts) + 1 /\ Len(Parts) = 4
  BY <1>1 DEF RoundTypeOK, Nowhere, Parts
<1>3. ASSUME UNCHANGED roundVars
      PROVE  RoundInv'
  BY <1>3 DEF roundVars, RoundInv, RoundTypeOK, BatchInRound, LastNotDue
<1>4. ASSUME StartWorker \/ WorkerEnds
      PROVE  RoundInv'
  BY <1>1, <1>2, <1>4, RoundGoesOn DEF StartWorker, WorkerEnds, Is, Proceed, scanVars, BatchInRound
<1>5. ASSUME Recover \/ BeginRound
      PROVE  RoundInv'
  <2>1. Rewrites(rows')
    BY <1>1, <1>5, RequeuedRewrites DEF Recover, BeginRound
  <2> QED BY <1>1, <1>2, <1>5, <2>1, RoundGoesOn DEF Recover, BeginRound, Is, Proceed, scanVars, BatchInRound
<1>6. ASSUME Ensure
      PROVE  RoundInv'
  <2>1. /\ rows' \in Seq(Row) /\ Len(rows') <= MaxRows /\ LastNotDue'
        /\ DOMAIN rows \subseteq DOMAIN rows'
    BY <1>1, <1>6, EnsureKeeps
  <2>2. UNCHANGED scanVars /\ wpc' = "pick" /\ batch = {}
    BY <1>1, <1>6 DEF Ensure, Is, Proceed, BatchInRound
  <2> QED BY <1>2, <2>1, <2>2, RoundGoesOn DEF scanVars, BatchInRound
<1>7. ASSUME Pick
      PROVE  RoundInv'
  BY <1>1, <1>2, <1>7, RoundGoesOn DEF Pick, Is, Proceed, BatchInRound
<1>8. ASSUME MarkRunning
      PROVE  RoundInv'
  <2>1. Rewrites(rows')
    BY <1>1, <1>8, MarkRewrites DEF MarkRunning
  <2> QED BY <1>1, <1>2, <1>8, <2>1, RoundGoesOn DEF MarkRunning, Is, Proceed, scanVars, BatchInRound
<1>9. ASSUME MarkRunningFails
      PROVE  RoundInv'
  BY <1>1, <1>2, <1>9, RoundGoesOn DEF MarkRunningFails, Is, BatchInRound
<1>10. ASSUME NEW first \in Clusters, NEW served \in SUBSET Clusters, NEW bad \in SUBSET Clusters,
              ScanPart(first, served, bad)
       PROVE  RoundInv'
  <2>1. part' \in 1 .. Len(Parts) + 1
    BY <1>2, <1>10 DEF ScanPart, After
  <2>2. failed' \in BOOLEAN
    <3>1. failed' = (failed \/ bad # {})
      BY <1>10 DEF ScanPart
    <3> QED BY <3>1
  <2>3. outcome' \in [served : SUBSET Clusters, bad : SUBSET Clusters]
    BY <1>10 DEF ScanPart
  <2>4. rows' = rows /\ wpc' = wpc /\ batch' = batch /\ wpc = "scan"
    BY <1>10 DEF ScanPart, Is
  <2> QED BY <1>1, <2>1, <2>2, <2>3, <2>4, RoundGoesOn DEF BatchInRound
<1>11. ASSUME ScanEnds
       PROVE  RoundInv'
  BY <1>1, <1>2, <1>11, RoundGoesOn DEF ScanEnds, Is, Proceed, BatchInRound
<1>12. ASSUME FinishTask \/ FinishTaskFails
       PROVE  RoundInv'
  <2>1. rows' = rows \/ Rewrites(rows')
    <3>1. CASE FinishTask
      <4>1. PICK status \in {"running", "done", "failed"} : status = IF failed THEN "failed" ELSE "done"
        OBVIOUS
      <4>2. Mark(status)
        BY <3>1, <4>1 DEF FinishTask
      <4> QED BY <1>1, <4>2, MarkRewrites
    <3>2. CASE FinishTaskFails
      BY <3>2 DEF FinishTaskFails
    <3> QED BY <1>12, <3>1, <3>2
  <2>2. wpc' = "mark" /\ batch' = Others /\ part' = 1 /\ failed' = FALSE /\ outcome' = outcome
    BY <1>12 DEF FinishTask, FinishTaskFails, Proceed
  <2> QED BY <1>2, <2>1, <2>2, RoundGoesOn DEF BatchInRound
<1>13. ASSUME BatchDone \/ RunVMTasks \/ VMTasksFail \/ RecoverFails \/ BeginRoundFails \/ RoundFails
              \/ PurgeFails \/ Wake
       PROVE  RoundInv'
  BY <1>1, <1>2, <1>13, RoundGoesOn DEF BatchDone, RunVMTasks, VMTasksFail, RecoverFails, BeginRoundFails,
     RoundFails, PurgeFails, Wake, Is, Proceed, scanVars, BatchInRound
<1>14. ASSUME Purge
       PROVE  RoundInv'
  BY <1>1, <1>2, <1>14, RoundGoesOn DEF Purge, Is, Proceed, scanVars, BatchInRound
<1>15. ASSUME Tick
       PROVE  RoundInv'
  <2>1. Rewrites(rows')
    BY <1>1, <1>15, TickRewrites
  <2> QED BY <1>1, <1>2, <1>15, <2>1, RoundGoesOn DEF Tick, scanVars, BatchInRound, RoundTypeOK
<1>16. ASSUME RoundStep
       PROVE  RoundInv'
  BY <1>5, <1>6, <1>7, <1>8, <1>10, <1>11, <1>12, <1>13, <1>14, <1>16 DEF RoundStep
<1>17. ASSUME RoundFaults
       PROVE  RoundInv'
  BY <1>9, <1>12, <1>13, <1>17 DEF RoundFaults
<1>18. ASSUME WithWorker
       PROVE  RoundInv'
  BY <1>3, <1>4, <1>18 DEF WithWorker
<1>19. CASE UNCHANGED allVars
  BY <1>3, <1>19 DEF allVars
<1> QED BY <1>15, <1>16, <1>17, <1>18, <1>19 DEF DeploymentNext, Regular, AllFaults, StartUp, Rounds, Clock

\* The inductive invariant of the worker's rounds: the rows of a batch stay
\* where they are until it is through, and no row falls due beyond the bound
\* (ensureMaintenanceTasks, pendingMaintenanceTasks, purgeOldMaintenanceTasks).
THEOREM RoundInvariance == DeploymentSpec => []RoundInv
<1>1. DeploymentInit => RoundInv
  BY RoundStarts DEF DeploymentInit
<1> QED BY <1>1, RoundPreserves, PTL DEF DeploymentSpec

\* maintenance_tasks, the batch and the scan are what they should be, for any
\* clusters, ages, limit and bound on the rows.
THEOREM RoundTypeCorrect == DeploymentSpec => []RoundTypeOK
<1>1. RoundInv => RoundTypeOK
  BY DEF RoundInv
<1> QED BY <1>1, RoundInvariance, PTL
================================================================================
