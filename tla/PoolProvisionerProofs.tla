------------------------- MODULE PoolProvisionerProofs -------------------------
(***************************************************************************)
(* The lock of the pool provisioner works for any number of nodes and      *)
(* users as long as no node dies.                                          *)
(***************************************************************************)
EXTENDS PoolProvisioner, TLAPS

\* The lock is well typed after each of the things done to it.
LEMMA LockTyped ==
  ASSUME TypeOK
  PROVE  /\ WithoutOwner \in [dir : BOOLEAN, owner : BOOLEAN, old : BOOLEAN]
         /\ WithoutDir \in [dir : BOOLEAN, owner : BOOLEAN, old : BOOLEAN]
         /\ WithOwner \in [dir : BOOLEAN, owner : BOOLEAN, old : BOOLEAN]
         /\ Made \in [dir : BOOLEAN, owner : BOOLEAN, old : BOOLEAN]
  BY DEF TypeOK, WithoutOwner, WithoutDir, WithOwner, Made, Free

\* What writing and removing the owner file leave of the directory.
LEMMA LockFields ==
  ASSUME TypeOK
  PROVE  /\ WithoutOwner.dir = lock.dir /\ ~WithoutOwner.owner
         /\ WithOwner.dir = lock.dir
         /\ ~lock.old => ~WithoutOwner.old /\ ~WithOwner.old
  BY DEF TypeOK, WithoutOwner, WithOwner

\* Every step of the script keeps the state well typed, and a user in hand.
LEMMA TypeStep == TypeOK /\ UserInHand /\ [Next]_vars => TypeOK' /\ UserInHand'
<1> SUFFICES ASSUME TypeOK, UserInHand, [Next]_vars
             PROVE  TypeOK' /\ UserInHand'
  OBVIOUS
<1> USE DEF TypeOK, UserInHand, Working, Holding, Breaking, pveVars, rest, At, Goto
<1>1. CASE \E n \in Nodes : Start(n) \/ MakeDir(n) \/ DirTaken(n) \/ Stat(n)
  BY <1>1, LockTyped DEF Start, MakeDir, DirTaken, Stat
<1>2. CASE \E n \in Nodes : RemoveOwner(n) \/ RemoveDir(n) \/ Release(n)
  BY <1>2, LockTyped DEF RemoveOwner, RemoveDir, Release
<1>3. CASE \E n \in Nodes : WriteOwner(n)
  BY <1>3, LockTyped DEF WriteOwner
<1>4. CASE \E n \in Nodes : \E u \in Users : NextUser(n, u)
  BY <1>4 DEF NextUser
<1>5. CASE \E n \in Nodes : CreatePool(n)
  BY <1>5 DEF CreatePool
<1>6. CASE \E n \in Nodes : CheckAcl(n)
  BY <1>6 DEF CheckAcl, Done
<1>7. CASE \E n \in Nodes : Grant(n)
  BY <1>7 DEF Grant, Done
<1>8. CASE \E n \in Nodes : Finish(n)
  BY <1>8 DEF Finish
<1>9. CASE LockAges
  BY <1>9 DEF LockAges
<1>10. CASE Faults
  BY <1>10 DEF Faults, CommandFails, Crash, RunOutlastsTTL
<1>11. CASE UNCHANGED vars
  BY <1>11 DEF vars
<1> QED
  BY <1>1, <1>2, <1>3, <1>4, <1>5, <1>6, <1>7, <1>8, <1>9, <1>10, <1>11 DEF Next, Regular, Step

\* What disturbed the lock is not forgotten.
LEMMA Disturbed == [Next]_vars /\ disturbed => disturbed'
BY DEF Next, Regular, Step, Faults, vars, rest, Start, MakeDir, DirTaken, Stat, RemoveOwner,
       RemoveDir, WriteOwner, Release, NextUser, CreatePool, CheckAcl, Grant,
       Finish, CommandFails, Crash, LockAges, RunOutlastsTTL, Quiet

\* Until then one node holds the lock at a time and no lock is broken.
LEMMA LockStep ==
  ASSUME ~disturbed', TypeOK, ~disturbed => HeldByOne /\ NeverBroken, [Next]_vars
  PROVE  HeldByOne' /\ NeverBroken'
<1>0. HeldByOne /\ NeverBroken
  BY Disturbed
<1> USE DEF HeldByOne, NeverBroken, TypeOK, Holding, Working, Breaking, At, Goto, rest
<1>1. CASE \E n \in Nodes : Start(n)
  BY <1>0, <1>1 DEF Start
<1>2. CASE \E n \in Nodes : MakeDir(n)
  BY <1>0, <1>2 DEF MakeDir, Made
<1>3. CASE \E n \in Nodes : DirTaken(n) \/ Stat(n)
  BY <1>0, <1>3 DEF DirTaken, Stat
<1>4. CASE \E n \in Nodes : RemoveOwner(n) \/ RemoveDir(n)
  BY <1>0, <1>4 DEF RemoveOwner, RemoveDir
<1>5. CASE \E n \in Nodes : Release(n)
  <2>1. PICK n \in Nodes : Release(n)
    BY <1>5
  <2>2. CASE At(n, "releaseOwner")
    <3>1. lock' = WithoutOwner /\ pc' = [pc EXCEPT ![n] = "releaseDir"]
      BY <1>0, <2>1, <2>2 DEF Release
    <3>2. lock'.dir /\ ~lock'.owner /\ ~lock'.old
      BY <1>0, <2>2, <3>1, LockFields
    <3> QED
      BY <1>0, <2>2, <3>1, <3>2
  <2>3. CASE At(n, "releaseDir")
    <3>1. lock.dir /\ ~lock.owner
      BY <1>0, <2>3
    <3>2. lock' = Free /\ pc' = [pc EXCEPT ![n] = "idle"]
      BY <2>1, <2>3, <3>1 DEF Release, WithoutDir
    <3> QED
      BY <1>0, <2>3, <3>2 DEF Free
  <2> QED
    BY <2>1, <2>2, <2>3 DEF Release
<1>6. CASE \E n \in Nodes : WriteOwner(n)
  <2>1. PICK n \in Nodes : WriteOwner(n)
    BY <1>6
  <2>2. lock' = WithOwner /\ pc[n] = "owner" /\ pc' = [pc EXCEPT ![n] = "work"]
    BY <2>1 DEF WriteOwner
  <2>3. lock'.dir /\ ~lock'.old
    BY <1>0, <2>2, LockFields
  <2> QED
    BY <1>0, <2>2, <2>3
<1>7. CASE \E n \in Nodes : (\E u \in Users : NextUser(n, u)) \/ CreatePool(n)
  BY <1>0, <1>7 DEF NextUser, CreatePool
<1>8. CASE \E n \in Nodes : CheckAcl(n) \/ Grant(n) \/ Finish(n)
  BY <1>0, <1>8 DEF CheckAcl, Grant, Finish, Done
<1>9. CASE LockAges
  BY <1>0, <1>9 DEF LockAges, Quiet
<1>10. CASE Faults
  BY <1>0, <1>10 DEF Faults, CommandFails, Crash, RunOutlastsTTL
<1>11. CASE UNCHANGED vars
  BY <1>0, <1>11 DEF vars
<1> QED
  BY <1>1, <1>2, <1>3, <1>4, <1>5, <1>6, <1>7, <1>8, <1>9, <1>10, <1>11 DEF Next, Regular, Step

\* The script never leaves the inductive invariant.
THEOREM Invariance == Spec => []IInv
<1>1. ASSUME Init PROVE IInv
  <2>1. TypeOK
    BY <1>1, NoUserAssumption DEF Init, TypeOK, Free
  <2>2. UserInHand
    BY <1>1 DEF Init, UserInHand
  <2>3. HeldByOne /\ NeverBroken
    BY <1>1 DEF Init, HeldByOne, NeverBroken, Free, Holding, Working, Breaking
  <2> QED
    BY <2>1, <2>2, <2>3 DEF IInv
<1>2. IInv /\ [Next]_vars => IInv'
  BY TypeStep, LockStep DEF IInv
<1> QED
  BY <1>1, <1>2, PTL DEF Spec

\* As long as no node has died and no run outlasts the TTL, no two nodes work on
\* pools and roles at the same time: with_cluster_lock, for any number of nodes.
THEOREM MutualExclusionHolds == Spec => []MutualExclusion
<1>1. IInv => MutualExclusion
  BY DEF IInv, HeldByOne, Working, Holding, MutualExclusion
<1> QED
  BY <1>1, Invariance, PTL
===============================================================================
