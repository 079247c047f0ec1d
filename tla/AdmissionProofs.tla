----------------------------- MODULE AdmissionProofs -----------------------------
(***************************************************************************)
(* Proofs about Admission: the sums over VMs, the node that is chosen, the *)
(* inductive invariant, and from it that creations keep the nodes level    *)
(* and that nobody comes to exceed his quota, for any number of requests,  *)
(* users and nodes, any limits and any sizes.                              *)
(*                                                                         *)
(* The tables of two states are compared as functions: UsageBy, LoadIn and *)
(* ScoreIn take the table that UsageOf, AllocatedCPU and NodeScore read.   *)
(***************************************************************************)
EXTENDS Admission, FiniteSetTheorems, WellFoundedInduction, TLAPS

--------------------------------------------------------------------------------
(* Natural numbers and sums.                                               *)

LEMMA LeastElement ==
  ASSUME NEW T \in SUBSET Nat, T # {}
  PROVE  \E m \in T : \A k \in T : m <= k
<1>1. \E m \in T : \A k \in T : ~(k < m)
  <2>1. IsWellFoundedOn(OpToRel(<, Nat), Nat)
    BY NatLessThanWellFounded
  <2>2. PICK m \in T : \A k \in T : <<k, m>> \notin OpToRel(<, Nat)
    BY <2>1, WFMin
  <2> QED BY <2>2 DEF OpToRel
<1> QED BY <1>1

LEMMA NatSetInduction ==
  ASSUME NEW T \in SUBSET Nat, 0 \in T, \A n \in T : n + 1 \in T
  PROVE  T = Nat
<1> SUFFICES ASSUME Nat \ T # {}
             PROVE  FALSE
  OBVIOUS
<1>1. PICK m \in Nat \ T : \A k \in Nat \ T : m <= k
  BY LeastElement
<1>2. m # 0 /\ m - 1 \in Nat /\ m - 1 \in T
  BY <1>1
<1> QED BY <1>1, <1>2

\* The recursion that sums up the numbers h[v] of the elements of a set.
Picked(s)    == CHOOSE x \in s : TRUE
Adds(f, h, D) == f = [s \in D |-> IF s = {} THEN 0 ELSE h[Picked(s)] + f[s \ {Picked(s)}]]
Small(n)     == {s \in SUBSET VMIDs : Cardinality(s) <= n}

LEMMA SumIsRecursive ==
  ASSUME NEW h
  PROVE  Sum(h) = (CHOOSE f : Adds(f, h, SUBSET VMIDs))[VMIDs]
  BY DEF Sum, MapThenSumSet, MapThenFoldSet, Adds, Picked

LEMMA Removing ==
  ASSUME NEW s \in SUBSET VMIDs, s # {}
  PROVE  /\ Picked(s) \in s /\ s \ {Picked(s)} \in SUBSET VMIDs
         /\ IsFiniteSet(s) /\ Cardinality(s) \in Nat
         /\ Cardinality(s \ {Picked(s)}) = Cardinality(s) - 1
         /\ Cardinality(s) > 0
<1>1. Picked(s) \in s
  BY DEF Picked
<1>2. IsFiniteSet(s)
  BY VmidAssumption, FS_Subset
<1>3. Cardinality(s) \in Nat /\ Cardinality(s) # 0
  BY <1>2, FS_CardinalityType, FS_EmptySet
<1>4. Cardinality(s \ {Picked(s)}) = Cardinality(s) - 1
  BY <1>1, <1>2, FS_RemoveElement
<1> QED BY <1>1, <1>2, <1>3, <1>4

LEMMA SmallNone == \A s \in Small(0) : s = {}
<1> SUFFICES ASSUME NEW s \in Small(0), s # {}
             PROVE  FALSE
  OBVIOUS
<1>1. s \in SUBSET VMIDs /\ Cardinality(s) <= 0
  BY DEF Small
<1>2. Cardinality(s) \in Nat /\ Cardinality(s) > 0
  BY <1>1, Removing
<1> QED BY <1>1, <1>2

LEMMA SmallAll == \E n \in Nat : Small(n) = SUBSET VMIDs
<1>1. PICK n \in Nat : n = Cardinality(VMIDs)
  BY VmidAssumption, FS_CardinalityType
<1>2. \A s \in SUBSET VMIDs : Cardinality(s) <= n
  BY <1>1, VmidAssumption, FS_Subset
<1>3. Small(n) = SUBSET VMIDs
  BY <1>2 DEF Small
<1> QED BY <1>3

\* There is a function that does so.
LEMMA SumsExist ==
  ASSUME NEW h \in [VMIDs -> Nat]
  PROVE  \E f : Adds(f, h, SUBSET VMIDs) 
<1> DEFINE T == {n \in Nat : \E f : Adds(f, h, Small(n))}
<1>1. 0 \in T
  <2>2. Adds([s \in Small(0) |-> 0], h, Small(0))
    BY SmallNone DEF Adds
  <2> QED BY <2>2
<1>2. ASSUME NEW n \in T
      PROVE  n + 1 \in T
  <2>1. PICK f : Adds(f, h, Small(n))
    OBVIOUS
  <2>2. PICK g : g = [s \in Small(n + 1) |-> IF s = {} THEN 0 ELSE h[Picked(s)] + f[s \ {Picked(s)}]]
    OBVIOUS
  <2>3. \A s \in Small(n) : g[s] = f[s]
    <3>1. Small(n) \subseteq Small(n + 1)
      <4>1. ASSUME NEW s \in Small(n)
            PROVE  Cardinality(s) \in Nat
        BY VmidAssumption, FS_Subset, FS_CardinalityType DEF Small
      <4> QED BY <4>1 DEF Small
    <3> QED BY <2>1, <2>2, <3>1 DEF Adds
  <2>4. \A s \in Small(n + 1) : s # {} => s \ {Picked(s)} \in Small(n)
    BY Removing DEF Small
  <2>5. Adds(g, h, Small(n + 1))
    BY <2>2, <2>3, <2>4 DEF Adds
  <2> QED BY <2>5
<1>3. T = Nat
  <2> HIDE DEF T
  <2>1. T \in SUBSET Nat
    BY DEF T
  <2> QED BY <1>1, <1>2, <2>1, NatSetInduction
<1> QED BY <1>3, SmallAll

\* What is proved of every set of up to n elements for every n is proved.
LEMMA SumValues ==
  ASSUME NEW h \in [VMIDs -> Nat]
  PROVE  \E f \in [SUBSET VMIDs -> Nat] :
           /\ Sum(h) = f[VMIDs]
           /\ \A s \in SUBSET VMIDs :
                f[s] = IF s = {} THEN 0 ELSE h[Picked(s)] + f[s \ {Picked(s)}]
<1>1. PICK f : Adds(f, h, SUBSET VMIDs) /\ Sum(h) = f[VMIDs]
  BY SumsExist, SumIsRecursive
<1>2. \A s \in SUBSET VMIDs : f[s] = IF s = {} THEN 0 ELSE h[Picked(s)] + f[s \ {Picked(s)}]
  BY <1>1 DEF Adds
<1> DEFINE T == {n \in Nat : \A s \in Small(n) : f[s] \in Nat}
<1>3. 0 \in T
  <2>1. \A s \in Small(0) : s = {} /\ s \in SUBSET VMIDs
    BY SmallNone DEF Small
  <2>2. {} \in SUBSET VMIDs /\ f[{}] = 0
    BY <1>2
  <2>3. \A s \in Small(0) : f[s] \in Nat
    BY <2>1, <2>2
  <2> QED BY <2>3
<1>4. ASSUME NEW n \in T
      PROVE  n + 1 \in T
  <2>1. ASSUME NEW s \in Small(n + 1), s # {}
        PROVE  f[s] \in Nat
    <3>1. s \in SUBSET VMIDs /\ s \ {Picked(s)} \in Small(n) /\ Picked(s) \in VMIDs
      BY <2>1, Removing DEF Small
    <3>2. PICK a, b \in Nat : a = f[s \ {Picked(s)}] /\ b = h[Picked(s)]
      BY <3>1
    <3>3. f[s] = IF s = {} THEN 0 ELSE h[Picked(s)] + f[s \ {Picked(s)}]
      BY <1>2, <3>1
    <3> QED BY <2>1, <3>2, <3>3
  <2>2. {} \in SUBSET VMIDs /\ f[{}] = 0
    BY <1>2
  <2>3. ASSUME NEW s \in Small(n + 1)
        PROVE  f[s] \in Nat
    BY <2>1, <2>2
  <2> QED BY <2>3
<1>5. T = Nat
  <2> HIDE DEF T
  <2>1. T \in SUBSET Nat
    BY DEF T
  <2> QED BY <1>3, <1>4, <2>1, NatSetInduction
<1>6. \A s \in SUBSET VMIDs : f[s] \in Nat
  BY <1>5, SmallAll
<1>7. f \in [SUBSET VMIDs -> Nat]
  BY <1>1, <1>6 DEF Adds
<1> QED BY <1>1, <1>2, <1>7

LEMMA SumType ==
  ASSUME NEW h \in [VMIDs -> Nat]
  PROVE  Sum(h) \in Nat
  BY SumValues

\* If one of the numbers changes, the sum changes by as much.
LEMMA SumChanges ==
  ASSUME NEW h \in [VMIDs -> Nat], NEW g \in [VMIDs -> Nat], NEW v \in VMIDs,
         \A w \in VMIDs \ {v} : g[w] = h[w]
  PROVE  Sum(g) + h[v] = Sum(h) + g[v]
<1>1. PICK f \in [SUBSET VMIDs -> Nat] :
           /\ Sum(h) = f[VMIDs]
           /\ \A s \in SUBSET VMIDs :
                f[s] = IF s = {} THEN 0 ELSE h[Picked(s)] + f[s \ {Picked(s)}]
  BY SumValues
<1>2. PICK e \in [SUBSET VMIDs -> Nat] :
           /\ Sum(g) = e[VMIDs]
           /\ \A s \in SUBSET VMIDs :
                e[s] = IF s = {} THEN 0 ELSE g[Picked(s)] + e[s \ {Picked(s)}]
  BY SumValues
<1> DEFINE Holds(s) == IF v \in s THEN e[s] + h[v] = f[s] + g[v] ELSE e[s] = f[s]
           T == {n \in Nat : \A s \in Small(n) : Holds(s)}
<1>3. 0 \in T
  <2>1. \A s \in Small(0) : s = {} /\ s \in SUBSET VMIDs
    BY SmallNone DEF Small
  <2> QED BY <1>1, <1>2, <2>1
<1>4. ASSUME NEW n \in T
      PROVE  n + 1 \in T
  <2>1. ASSUME NEW s \in Small(n + 1), s # {}
        PROVE  Holds(s)
    <3>1. s \in SUBSET VMIDs /\ s \ {Picked(s)} \in Small(n) /\ Picked(s) \in s
      BY <2>1, Removing DEF Small
    <3>2. Holds(s \ {Picked(s)})
      BY <3>1
    <3>3. PICK p, r : p = Picked(s) /\ r = s \ {p} /\ p \in VMIDs /\ r \in SUBSET VMIDs
      BY <3>1
    <3>4. f[s] = h[p] + f[r] /\ e[s] = g[p] + e[r]
      BY <1>1, <1>2, <2>1, <3>1, <3>3
    <3>5. /\ f[r] \in Nat /\ e[r] \in Nat /\ h[p] \in Nat /\ g[p] \in Nat
          /\ h[v] \in Nat /\ g[v] \in Nat
      BY <3>3
    <3>6. CASE p = v
      <4>1. v \in s /\ v \notin r /\ e[r] = f[r]
        BY <3>1, <3>2, <3>3, <3>6
      <4> QED BY <3>4, <3>5, <3>6, <4>1
    <3>7. CASE p # v
      <4>1. g[p] = h[p] /\ (v \in r <=> v \in s)
        BY <3>3, <3>7
      <4>2. CASE v \in s
        <5>1. e[r] + h[v] = f[r] + g[v]
          BY <3>2, <3>3, <4>1, <4>2
        <5> QED BY <3>4, <3>5, <4>1, <4>2, <5>1
      <4>3. CASE v \notin s
        <5>1. e[r] = f[r]
          BY <3>2, <3>3, <4>1, <4>3
        <5> QED BY <3>4, <3>5, <4>1, <4>3, <5>1
      <4> QED BY <4>2, <4>3
    <3> QED BY <3>6, <3>7
  <2>2. Holds({})
    BY <1>1, <1>2
  <2>3. \A s \in Small(n + 1) : Holds(s)
    BY <2>1, <2>2
  <2> QED BY <2>3
<1>5. T = Nat
  <2> HIDE DEF T
  <2>1. T \in SUBSET Nat
    BY DEF T
  <2> QED BY <1>3, <1>4, <2>1, NatSetInduction
<1>6. Holds(VMIDs)
  BY <1>5, SmallAll
<1> QED BY <1>1, <1>2, <1>6

--------------------------------------------------------------------------------
(* Quotas.                                                                 *)

LEMMA GreatestElement ==
  ASSUME NEW S \in SUBSET Nat, IsFiniteSet(S), S # {}
  PROVE  \E m \in S : \A n \in S : n <= m
<1> DEFINE Bounded(s) == \E m \in s : \A n \in s : n <= m
           T == {n \in Nat : \A s \in SUBSET Nat :
                   IsFiniteSet(s) /\ Cardinality(s) = n /\ s # {} => Bounded(s)}
<1>1. 0 \in T
  BY FS_EmptySet
<1>2. ASSUME NEW n \in T
      PROVE  n + 1 \in T
  <2>1. ASSUME NEW s \in SUBSET Nat, IsFiniteSet(s), Cardinality(s) = n + 1, s # {}
        PROVE  Bounded(s)
    <3>1. PICK x \in s : TRUE
      BY <2>1
    <3>2. PICK r \in SUBSET Nat : r = s \ {x}
      OBVIOUS
    <3>3. IsFiniteSet(r) /\ Cardinality(r) = n
      <4>1. IsFiniteSet(r) /\ Cardinality(r) = Cardinality(s) - 1
        BY <2>1, <3>1, <3>2, FS_RemoveElement
      <4>2. n \in Nat
        OBVIOUS
      <4> QED BY <2>1, <4>1, <4>2
    <3>4. CASE r = {}
      BY <3>1, <3>2, <3>4
    <3>5. CASE r # {}
      <4>1. PICK m \in r : \A k \in r : k <= m
        BY <3>3, <3>5
      <4>2. x \in Nat /\ m \in Nat /\ \A k \in s : k = x \/ k \in r
        BY <3>1, <3>2
      <4>3. CASE m <= x
        <5>1. \A k \in s : k <= x
          BY <4>1, <4>2, <4>3
        <5> QED BY <3>1, <5>1
      <4>4. CASE x <= m
        <5>1. \A k \in s : k <= m
          BY <4>1, <4>2, <4>4
        <5> QED BY <3>2, <5>1
      <4> QED BY <4>2, <4>3, <4>4
    <3> QED BY <3>4, <3>5
  <2> QED BY <2>1
<1>3. T = Nat
  <2> HIDE DEF T
  <2>1. T \in SUBSET Nat
    BY DEF T
  <2> QED BY <1>1, <1>2, <2>1, NatSetInduction
<1>4. Cardinality(S) \in Nat
  BY FS_CardinalityType
<1> QED BY <1>3, <1>4

LEMMA BestType ==
  ASSUME NEW S \in SUBSET Nat, IsFiniteSet(S)
  PROVE  Best(S) \in Nat
<1>1. CASE S = {}
  BY <1>1 DEF Best
<1>2. CASE S # {}
  <2>1. \E m \in S : \A n \in S : n <= m
    BY <1>2, GreatestElement
  <2> QED BY <1>2, <2>1 DEF Best
<1> QED BY <1>1, <1>2

LEMMA LimitType ==
  ASSUME NEW gs \in SUBSET Groups, NEW f \in [gs -> Nat]
  PROVE  Best({f[g] : g \in gs}) \in Nat
<1>1. PICK S : S = {f[g] : g \in gs}
  OBVIOUS
<1>2. IsFiniteSet(gs)
  BY LimitAssumption, FS_Subset DEF Groups
<1>3. f \in Surjection(gs, S)
  BY <1>1 DEF Surjection
<1>4. IsFiniteSet(S)
  BY <1>2, <1>3, FS_Surjection
<1>5. S \in SUBSET Nat
  BY <1>1
<1> QED BY <1>1, <1>4, <1>5, BestType

LEMMA LimitsType ==
  ASSUME NEW gs \in SUBSET Groups
  PROVE  EffectiveUserLimit(gs) \in Quota
<1>1. \A g \in gs : GroupLimits[g] \in Quota
  BY LimitAssumption DEF Groups
<1>2. Best({GroupLimits[g].number : g \in gs}) \in Nat
  <2>1. PICK f \in [gs -> Nat] : f = [g \in gs |-> GroupLimits[g].number]
    BY <1>1 DEF Quota
  <2>2. {GroupLimits[g].number : g \in gs} = {f[g] : g \in gs}
    BY <2>1
  <2> QED BY <2>2, LimitType
<1>3. Best({GroupLimits[g].cpu : g \in gs}) \in Nat
  <2>1. PICK f \in [gs -> Nat] : f = [g \in gs |-> GroupLimits[g].cpu]
    BY <1>1 DEF Quota
  <2>2. {GroupLimits[g].cpu : g \in gs} = {f[g] : g \in gs}
    BY <2>1
  <2> QED BY <2>2, LimitType
<1>4. Best({GroupLimits[g].memory : g \in gs}) \in Nat
  <2>1. PICK f \in [gs -> Nat] : f = [g \in gs |-> GroupLimits[g].memory]
    BY <1>1 DEF Quota
  <2>2. {GroupLimits[g].memory : g \in gs} = {f[g] : g \in gs}
    BY <2>1
  <2> QED BY <2>2, LimitType
<1>5. Best({GroupLimits[g].storage : g \in gs}) \in Nat
  <2>1. PICK f \in [gs -> Nat] : f = [g \in gs |-> GroupLimits[g].storage]
    BY <1>1 DEF Quota
  <2>2. {GroupLimits[g].storage : g \in gs} = {f[g] : g \in gs}
    BY <2>1
  <2> QED BY <2>2, LimitType
<1> QED BY <1>2, <1>3, <1>4, <1>5 DEF EffectiveUserLimit, Quota

LEMMA QuotaType ==
  ASSUME TypeOK, NEW u \in Users
  PROVE  EffectiveQuota(u) \in Quota
<1>1. member[u] \in SUBSET Groups
  BY MemberAssumption DEF TypeOK, Groups
<1> QED BY <1>1, LimitsType DEF EffectiveQuota

--------------------------------------------------------------------------------
(* What VMs add up to.                                                     *)

Rows == Row \union {NoRow, Unmanaged}
Figure(r, S, k) == [v \in VMIDs |-> IF v \in S THEN r[v].size[k] ELSE 0]
UsageIn(r, S) ==
  [number |-> Cardinality(S), cpu |-> Sum(Figure(r, S, "cpu")),
   memory |-> Sum(Figure(r, S, "memory")), storage |-> Sum(Figure(r, S, "disk"))]

LEMMA SizeFields ==
  ASSUME NEW size \in Sizes
  PROVE  /\ \A k \in {"cpu", "memory", "disk"} : size[k] \in Nat
         /\ size.cpu \in Nat /\ size.memory \in Nat /\ size.disk \in Nat
  BY SizeAssumption DEF Size

LEMMA FigureType ==
  ASSUME NEW r, NEW S \in SUBSET VMIDs, \A v \in S : r[v] \in Row, NEW k \in {"cpu", "memory", "disk"}
  PROVE  Figure(r, S, k) \in [VMIDs -> Nat]
<1>1. \A v \in S : r[v].size \in Sizes
  BY DEF Row
<1>2. \A v \in S : r[v].size[k] \in Nat
  BY <1>1, SizeFields
<1> QED BY <1>2 DEF Figure

\* A VM adds its size.
LEMMA SumWithout ==
  ASSUME NEW r, NEW S \in SUBSET VMIDs, \A w \in S : r[w] \in Row, NEW v \in S,
         NEW k \in {"cpu", "memory", "disk"}
  PROVE  Sum(Figure(r, S, k)) = Sum(Figure(r, S \ {v}, k)) + r[v].size[k]
<1>1. PICK h \in [VMIDs -> Nat] : h = Figure(r, S, k)
  BY FigureType
<1>2. S \ {v} \in SUBSET VMIDs /\ \A w \in S \ {v} : r[w] \in Row
  OBVIOUS
<1>3. PICK g \in [VMIDs -> Nat] : g = Figure(r, S \ {v}, k)
  BY <1>2, FigureType
<1>4. v \in VMIDs /\ h[v] = r[v].size[k] /\ g[v] = 0 /\ \A w \in VMIDs \ {v} : g[w] = h[w]
  BY <1>1, <1>3 DEF Figure
<1>5. Sum(g) + h[v] = Sum(h) + g[v]
  BY <1>4, SumChanges
<1>6. Sum(g) \in Nat /\ Sum(h) \in Nat /\ h[v] \in Nat
  BY <1>4, SumType
<1> QED BY <1>1, <1>3, <1>4, <1>5, <1>6

LEMMA UsageType ==
  ASSUME NEW r, NEW S \in SUBSET VMIDs, \A v \in S : r[v] \in Row
  PROVE  UsageIn(r, S) \in Quota
<1>1. Cardinality(S) \in Nat
  BY VmidAssumption, FS_Subset, FS_CardinalityType
<1>2. \A k \in {"cpu", "memory", "disk"} : Sum(Figure(r, S, k)) \in Nat
  BY FigureType, SumType
<1> QED BY <1>1, <1>2 DEF UsageIn, Quota

LEMMA UsageWith ==
  ASSUME NEW r, NEW S \in SUBSET VMIDs, \A w \in S : r[w] \in Row, NEW v \in S
  PROVE  UsageIn(r, S) = With(UsageIn(r, S \ {v}), r[v].size)
<1>1. Cardinality(S) = Cardinality(S \ {v}) + 1
  <2>1. IsFiniteSet(S)
    BY VmidAssumption, FS_Subset
  <2>2. Cardinality(S \ {v}) = Cardinality(S) - 1 /\ Cardinality(S) \in Nat
    BY <2>1, FS_RemoveElement, FS_CardinalityType
  <2> QED BY <2>2
<1>2. \A k \in {"cpu", "memory", "disk"} :
        Sum(Figure(r, S, k)) = Sum(Figure(r, S \ {v}, k)) + r[v].size[k]
  BY SumWithout
<1> QED BY <1>1, <1>2 DEF UsageIn, With

\* A row is written; what one and the same set of other VMs adds up to is the
\* same before and after.
LEMMA UsageOfWrite ==
  ASSUME NEW r \in [VMIDs -> Rows], NEW q \in [VMIDs -> Rows], NEW v \in VMIDs, NEW S \in SUBSET VMIDs, NEW T \in SUBSET VMIDs,
         \A w \in S : r[w] \in Row, \A w \in T : q[w] \in Row,
         \A w \in VMIDs \ {v} : q[w] = r[w] /\ (w \in T <=> w \in S)
  PROVE  /\ UsageIn(r, S \ {v}) \in Quota
         /\ UsageIn(r, S) = IF v \in S THEN With(UsageIn(r, S \ {v}), r[v].size) ELSE UsageIn(r, S \ {v})
         /\ UsageIn(q, T) = IF v \in T THEN With(UsageIn(r, S \ {v}), q[v].size) ELSE UsageIn(r, S \ {v})
<1>1. S \ {v} = T \ {v}
  OBVIOUS
<1>2. PICK R \in SUBSET VMIDs : R = S \ {v} /\ R = T \ {v}
  BY <1>1
<1>3. \A k \in {"cpu", "memory", "disk"} : Figure(r, R, k) = Figure(q, R, k)
  BY <1>2 DEF Figure
<1>4. UsageIn(r, R) = UsageIn(q, R)
  BY <1>3 DEF UsageIn
<1>5. \A w \in R : r[w] \in Row
  BY <1>2
<1>6. PICK base \in Quota : base = UsageIn(r, R)
  BY <1>5, UsageType
<1>7. UsageIn(r, S) = IF v \in S THEN With(base, r[v].size) ELSE base
  <2>1. CASE v \in S
    BY <1>2, <1>6, <2>1, UsageWith
  <2>2. CASE v \notin S
    BY <1>2, <1>6, <2>2
  <2> QED BY <2>1, <2>2
<1>8. UsageIn(q, T) = IF v \in T THEN With(base, q[v].size) ELSE base
  <2>1. CASE v \in T
    BY <1>2, <1>4, <1>6, <2>1, UsageWith
  <2>2. CASE v \notin T
    BY <1>2, <1>4, <1>6, <2>2
  <2> QED BY <2>1, <2>2
<1> QED BY <1>2, <1>6, <1>7, <1>8

--------------------------------------------------------------------------------
(* Rows and requests.                                                      *)

Requests == Request \union {NoRequest}

Creating == [op : {"create"}, owner : Users, size : Sizes, beside : BOOLEAN]
Placed   == [op : {"placed"}, v : VMIDs, owner : Users, size : Sizes, node : Nodes, beside : BOOLEAN]
Changing == [op : {"adopt", "patch", "exempt"}, v : VMIDs, owner : Users, size : Sizes,
             exempt : BOOLEAN, beside : BOOLEAN]

LEMMA RowKinds ==
  ASSUME NEW r \in Rows
  PROVE  /\ r.known = "managed" <=> r \in Row
         /\ r = NoRow => r.known = "no"
         /\ r = Unmanaged => r.known = "unmanaged"
         /\ r \in Row => /\ r.owner \in Users /\ r.exempt \in BOOLEAN /\ r.size \in Sizes
                         /\ r.node \in Nodes
  BY DEF Rows, Row, NoRow, Unmanaged

LEMMA RequestKinds ==
  ASSUME NEW q \in Requests
  PROVE  /\ q = NoRequest <=> q.op = "idle"
         /\ q.op = "create" <=> q \in Creating
         /\ q.op = "placed" <=> q \in Placed
         /\ q.op \in {"adopt", "patch", "exempt"} <=> q \in Changing
         /\ q.op \in {"idle", "create", "placed", "adopt", "patch", "exempt"}
         /\ q # NoRequest => q.owner \in Users /\ q.size \in Sizes /\ q.beside \in BOOLEAN
         /\ q.op \in {"placed", "adopt", "patch", "exempt"} => q.v \in VMIDs
         /\ q.op = "placed" => q.node \in Nodes
         /\ q.op \in {"adopt", "patch", "exempt"} => q.exempt \in BOOLEAN
<1>1. CASE q \in Creating
  BY <1>1 DEF Creating, Placed, Changing, NoRequest
<1>2. CASE q \in Placed
  BY <1>2 DEF Creating, Placed, Changing, NoRequest
<1>3. CASE q \in Changing
  BY <1>3 DEF Creating, Placed, Changing, NoRequest
<1>4. CASE q = NoRequest
  BY <1>4 DEF Creating, Placed, Changing, NoRequest
<1> QED BY <1>1, <1>2, <1>3, <1>4 DEF Requests, Request, Creating, Placed, Changing

LEMMA Besides ==
  ASSUME NEW q \in Requests, q # NoRequest, NEW p, p = [q EXCEPT !.beside = TRUE]
  PROVE  /\ p \in Requests /\ p # NoRequest /\ p.beside /\ p.op = q.op /\ p.owner = q.owner
         /\ p.op \in {"placed", "adopt", "patch", "exempt"} => p.v = q.v
         /\ p.op = "placed" => p.node = q.node
<1>1. CASE q \in Creating
  <2>1. p \in Creating /\ p.beside /\ p.op = "create" /\ p.owner = q.owner
    BY <1>1 DEF Creating
  <2>2. p \in Requests
    BY <2>1 DEF Requests, Request, Creating
  <2> QED BY <1>1, <2>1, <2>2, RequestKinds
<1>2. CASE q \in Placed
  <2>1. p \in Placed /\ p.beside /\ p.op = "placed" /\ p.owner = q.owner /\ p.v = q.v /\ p.node = q.node
    BY <1>2 DEF Placed
  <2>2. p \in Requests
    BY <2>1 DEF Requests, Request, Placed
  <2> QED BY <1>2, <2>1, <2>2, RequestKinds
<1>3. CASE q \in Changing
  <2>1. p \in Changing /\ p.beside /\ p.op = q.op /\ p.owner = q.owner /\ p.v = q.v
    BY <1>3 DEF Changing
  <2>2. p \in Requests
    BY <2>1 DEF Requests, Request, Changing
  <2> QED BY <1>3, <2>1, <2>2, RequestKinds
<1> QED BY <1>1, <1>2, <1>3 DEF Requests, Request, Creating, Placed, Changing

LEMMA Types ==
  ASSUME TypeOK
  PROVE  /\ rows \in [VMIDs -> Rows] /\ req \in [Clients -> Requests]
         /\ \A v \in VMIDs : Managed(v) <=> rows[v] \in Row
         /\ \A n : PlacedOn(n) \in SUBSET VMIDs /\ \A v \in PlacedOn(n) : rows[v] \in Row
         /\ \A u : CountedVMs(u) \in SUBSET VMIDs /\ \A v \in CountedVMs(u) : rows[v] \in Row
<1>1. rows \in [VMIDs -> Rows] /\ req \in [Clients -> Requests]
  BY DEF TypeOK, Rows, Requests
<1>2. \A v \in VMIDs : Managed(v) <=> rows[v] \in Row
  BY <1>1, RowKinds DEF Managed
<1> QED BY <1>1, <1>2 DEF PlacedOn, CountedVMs

--------------------------------------------------------------------------------
(* What is chosen.                                                         *)

LEMMA NextVMIDFree ==
  ASSUME FreeVMIDs # {}
  PROVE  NextVMID \in VMIDs /\ rows[NextVMID] = NoRow
<1>1. FreeVMIDs \in SUBSET Nat
  BY VmidAssumption DEF FreeVMIDs
<1>2. NextVMID \in FreeVMIDs
  BY <1>1, LeastElement DEF NextVMID
<1> QED BY <1>2 DEF FreeVMIDs

LEMMA LeastNode ==
  ASSUME NEW N \in SUBSET Nodes, N # {}, NEW g \in [Nodes -> Nat]
  PROVE  \E n \in N : \A m \in N : g[n] <= g[m]
<1>1. {g[n] : n \in N} \in SUBSET Nat /\ {g[n] : n \in N} # {}
  OBVIOUS
<1>2. \E k \in {g[n] : n \in N} : \A l \in {g[n] : n \in N} : k <= l
  BY <1>1, LeastElement
<1> QED BY <1>2

\* Of the nodes that are least in one respect some are least in the next.
LEMMA LeastInOrder ==
  ASSUME NEW f \in [Nodes -> [1 .. 5 -> Nat]], \A n \in Nodes : f[n][5] = n
  PROVE  \E n \in Nodes : \A m \in Nodes \ {n} :
           \E i \in 1 .. 5 : f[n][i] < f[m][i] /\ \A j \in 1 .. i - 1 : f[n][j] = f[m][j]
<1> DEFINE Least(N, i) == {n \in N : \A m \in N : f[n][i] <= f[m][i]}
<1>1. ASSUME NEW N \in SUBSET Nodes, N # {}, NEW i \in 1 .. 5
      PROVE  Least(N, i) # {} /\ Least(N, i) \in SUBSET N
  <2>1. PICK g \in [Nodes -> Nat] : g = [n \in Nodes |-> f[n][i]]
    OBVIOUS
  <2>2. PICK n \in N : \A m \in N : g[n] <= g[m]
    BY <1>1, LeastNode
  <2>3. n \in Least(N, i)
    BY <2>1, <2>2
  <2> QED BY <2>3
<1>2. ASSUME NEW N \in SUBSET Nodes, NEW i \in 1 .. 5, NEW n \in Least(N, i), NEW m \in N
      PROVE  f[n][i] <= f[m][i] /\ (f[n][i] = f[m][i] => m \in Least(N, i))
  <2>1. \A k \in N : f[n][i] <= f[k][i]
    BY <1>2
  <2> QED BY <2>1
<1> HIDE DEF Least
<1>3. PICK A \in SUBSET Nodes : A # {} /\ A = Least(Nodes, 1)
  BY <1>1, NodesAssumption
<1>4. PICK B \in SUBSET A : B # {} /\ B = Least(A, 2)
  BY <1>1, <1>3
<1>5. PICK C \in SUBSET B : C # {} /\ C = Least(B, 3)
  BY <1>1, <1>3, <1>4
<1>6. PICK E \in SUBSET C : E # {} /\ E = Least(C, 4)
  BY <1>1, <1>3, <1>4, <1>5
<1>7. PICK n \in E : n \in Least(E, 5)
  BY <1>1, <1>3, <1>4, <1>5, <1>6
<1>8. n \in A /\ n \in B /\ n \in C /\ n \in Nodes /\ C \in SUBSET Nodes /\ B \in SUBSET Nodes
      /\ E \in SUBSET Nodes
  BY <1>3, <1>4, <1>5, <1>6, <1>7
<1>9. ASSUME NEW m \in Nodes \ {n}
      PROVE  \E i \in 1 .. 5 : f[n][i] < f[m][i] /\ \A j \in 1 .. i - 1 : f[n][j] = f[m][j]
  <2>1. /\ f[n][1] \in Nat /\ f[n][2] \in Nat /\ f[n][3] \in Nat /\ f[n][4] \in Nat /\ f[n][5] \in Nat
        /\ f[m][1] \in Nat /\ f[m][2] \in Nat /\ f[m][3] \in Nat /\ f[m][4] \in Nat /\ f[m][5] \in Nat
        /\ f[n][5] # f[m][5]
    BY <1>8
  <2> DEFINE Won(i) == f[n][i] < f[m][i] /\ \A j \in 1 .. i - 1 : f[n][j] = f[m][j]
  <2>2. f[n][1] <= f[m][1] /\ (f[n][1] = f[m][1] => m \in A)
    BY <1>2, <1>3, <1>8
  <2>3. m \in A => f[n][2] <= f[m][2] /\ (f[n][2] = f[m][2] => m \in B)
    BY <1>2, <1>4, <1>8
  <2>4. m \in B => f[n][3] <= f[m][3] /\ (f[n][3] = f[m][3] => m \in C)
    BY <1>2, <1>5, <1>8
  <2>5. m \in C => f[n][4] <= f[m][4] /\ (f[n][4] = f[m][4] => m \in E)
    BY <1>2, <1>6, <1>8
  <2>6. m \in E => f[n][5] <= f[m][5]
    BY <1>2, <1>7, <1>8
  <2>7. CASE f[n][1] < f[m][1]
    <3>1. Won(1)
      BY <2>7
    <3> QED BY <3>1
  <2>8. CASE f[n][1] = f[m][1] /\ f[n][2] < f[m][2]
    <3>1. Won(2)
      BY <2>8
    <3> QED BY <3>1
  <2>9. CASE f[n][1] = f[m][1] /\ f[n][2] = f[m][2] /\ f[n][3] < f[m][3]
    <3>1. Won(3)
      BY <2>9
    <3> QED BY <3>1
  <2>10. CASE f[n][1] = f[m][1] /\ f[n][2] = f[m][2] /\ f[n][3] = f[m][3] /\ f[n][4] < f[m][4]
    <3>1. Won(4)
      BY <2>10
    <3> QED BY <3>1
  <2>11. CASE /\ f[n][1] = f[m][1] /\ f[n][2] = f[m][2] /\ f[n][3] = f[m][3]
              /\ f[n][4] = f[m][4] /\ f[n][5] < f[m][5]
    <3>1. Won(5)
      BY <2>11
    <3> QED BY <3>1
  <2> QED BY <2>1, <2>2, <2>3, <2>4, <2>5, <2>6, <2>7, <2>8, <2>9, <2>10, <2>11
<1> QED BY <1>8, <1>9

--------------------------------------------------------------------------------
(* Users and nodes after a write.                                          *)

Owned(x, u)     == x.known = "managed" /\ x.owner = u
Counts(x, u)    == Owned(x, u) /\ ~x.exempt
On(x, n)        == x.known = "managed" /\ x.node = n
CountedIn(r, u) == {v \in VMIDs : Counts(r[v], u)}
PlacedIn(r, n)  == {v \in VMIDs : On(r[v], n)}
UsageBy(r, u)   == UsageIn(r, CountedIn(r, u))
LoadIn(r, n)    == UsageIn(r, PlacedIn(r, n))
ScoreIn(r, n)   == Score(LoadIn(r, n).cpu, LoadIn(r, n).memory)

LEMMA Usages ==
  /\ \A u : UsageOf(CountedVMs(u)) = UsageBy(rows, u)
  /\ \A u : UsageOf(CountedVMs(u))' = UsageBy(rows', u)
  BY DEF UsageOf, CountedVMs, UsageBy, UsageIn, CountedIn, Counts, Owned, Managed, Total, Figure

LEMMA Loads ==
  /\ \A n : /\ NodeScore(n) = ScoreIn(rows, n) /\ PlacedOn(n) = PlacedIn(rows, n)
            /\ AllocatedCPU(n) = LoadIn(rows, n).cpu /\ AllocatedMem(n) = LoadIn(rows, n).memory
  /\ \A n : NodeScore(n)' = ScoreIn(rows', n) /\ PlacedOn(n)' = PlacedIn(rows', n)
  BY DEF NodeScore, AllocatedCPU, AllocatedMem, UsageOf, PlacedOn, ScoreIn, LoadIn, UsageIn, PlacedIn, On,
         Managed, Total, Figure

LEMMA UsageByType ==
  ASSUME NEW r \in [VMIDs -> Rows]
  PROVE  /\ \A u : UsageBy(r, u) \in Quota
         /\ \A n : LoadIn(r, n) \in Quota
<1>1. \A v \in VMIDs : r[v].known = "managed" => r[v] \in Row
  BY RowKinds
<1>2. ASSUME NEW u
      PROVE  UsageBy(r, u) \in Quota
  <2>1. PICK S \in SUBSET VMIDs : S = CountedIn(r, u)
    BY DEF CountedIn
  <2>2. \A v \in S : r[v] \in Row
    BY <1>1, <2>1 DEF CountedIn, Counts, Owned
  <2> QED BY <2>1, <2>2, UsageType DEF UsageBy
<1>3. ASSUME NEW n
      PROVE  LoadIn(r, n) \in Quota
  <2>1. PICK S \in SUBSET VMIDs : S = PlacedIn(r, n)
    BY DEF PlacedIn
  <2>2. \A v \in S : r[v] \in Row
    BY <1>1, <2>1 DEF PlacedIn, On
  <2> QED BY <2>1, <2>2, UsageType DEF LoadIn
<1> QED BY <1>2, <1>3

LEMMA UsageByAfter ==
  ASSUME NEW r \in [VMIDs -> Rows], NEW q \in [VMIDs -> Rows], NEW v \in VMIDs,
         \A w \in VMIDs \ {v} : q[w] = r[w], NEW u
  PROVE  \E base \in Quota :
           /\ UsageBy(r, u) = IF Counts(r[v], u) THEN With(base, r[v].size) ELSE base
           /\ UsageBy(q, u) = IF Counts(q[v], u) THEN With(base, q[v].size) ELSE base
<1>1. PICK S \in SUBSET VMIDs : S = CountedIn(r, u)
  BY DEF CountedIn
<1>2. PICK T \in SUBSET VMIDs : T = CountedIn(q, u)
  BY DEF CountedIn
<1>3. \A w \in S : r[w] \in Row
  BY <1>1, RowKinds DEF CountedIn, Counts, Owned
<1>4. \A w \in T : q[w] \in Row
  BY <1>2, RowKinds DEF CountedIn, Counts, Owned
<1>5. \A w \in VMIDs \ {v} : q[w] = r[w] /\ (w \in T <=> w \in S)
  BY <1>1, <1>2 DEF CountedIn
<1>6. PICK base \in Quota :
           /\ UsageIn(r, S) = IF v \in S THEN With(base, r[v].size) ELSE base
           /\ UsageIn(q, T) = IF v \in T THEN With(base, q[v].size) ELSE base
  <2>1. /\ UsageIn(r, S \ {v}) \in Quota
        /\ UsageIn(r, S) = IF v \in S THEN With(UsageIn(r, S \ {v}), r[v].size) ELSE UsageIn(r, S \ {v})
        /\ UsageIn(q, T) = IF v \in T THEN With(UsageIn(r, S \ {v}), q[v].size) ELSE UsageIn(r, S \ {v})
    BY <1>3, <1>4, <1>5, UsageOfWrite
  <2> QED BY <2>1
<1>7. (v \in S <=> Counts(r[v], u)) /\ (v \in T <=> Counts(q[v], u))
  BY <1>1, <1>2 DEF CountedIn
<1> QED BY <1>1, <1>2, <1>6, <1>7 DEF UsageBy

LEMMA LoadAfter ==
  ASSUME NEW r \in [VMIDs -> Rows], NEW q \in [VMIDs -> Rows], NEW v \in VMIDs,
         \A w \in VMIDs \ {v} : q[w] = r[w], NEW n
  PROVE  \E base \in Quota :
           /\ LoadIn(r, n) = IF On(r[v], n) THEN With(base, r[v].size) ELSE base
           /\ LoadIn(q, n) = IF On(q[v], n) THEN With(base, q[v].size) ELSE base
<1>1. PICK S \in SUBSET VMIDs : S = PlacedIn(r, n)
  BY DEF PlacedIn
<1>2. PICK T \in SUBSET VMIDs : T = PlacedIn(q, n)
  BY DEF PlacedIn
<1>3. \A w \in S : r[w] \in Row
  BY <1>1, RowKinds DEF PlacedIn, On
<1>4. \A w \in T : q[w] \in Row
  BY <1>2, RowKinds DEF PlacedIn, On
<1>5. \A w \in VMIDs \ {v} : q[w] = r[w] /\ (w \in T <=> w \in S)
  BY <1>1, <1>2 DEF PlacedIn
<1>6. PICK base \in Quota :
           /\ UsageIn(r, S) = IF v \in S THEN With(base, r[v].size) ELSE base
           /\ UsageIn(q, T) = IF v \in T THEN With(base, q[v].size) ELSE base
  <2>1. /\ UsageIn(r, S \ {v}) \in Quota
        /\ UsageIn(r, S) = IF v \in S THEN With(UsageIn(r, S \ {v}), r[v].size) ELSE UsageIn(r, S \ {v})
        /\ UsageIn(q, T) = IF v \in T THEN With(UsageIn(r, S \ {v}), q[v].size) ELSE UsageIn(r, S \ {v})
    BY <1>3, <1>4, <1>5, UsageOfWrite
  <2> QED BY <2>1
<1>7. (v \in S <=> On(r[v], n)) /\ (v \in T <=> On(q[v], n))
  BY <1>1, <1>2 DEF PlacedIn
<1> QED BY <1>1, <1>2, <1>6, <1>7 DEF LoadIn

--------------------------------------------------------------------------------
(* Nodes.                                                                  *)

LEMMA RatioLinear ==
  ASSUME NEW limit \in Int, NEW other \in Int
  PROVE  \E k \in Nat : \A value \in Nat : Ratio(value, limit, other) = value * k
<1>1. PICK k \in Nat : k = IF limit <= 0 THEN 0 ELSE IF other <= 0 THEN 1 ELSE other
  OBVIOUS
<1>2. ASSUME NEW value \in Nat
      PROVE  Ratio(value, limit, other) = value * k
  <2>1. value * 0 = 0 /\ value * 1 = value
    OBVIOUS
  <2>2. CASE limit <= 0
    BY <1>1, <2>1, <2>2 DEF Ratio
  <2>3. CASE limit > 0 /\ other <= 0
    BY <1>1, <2>1, <2>3 DEF Ratio
  <2>4. CASE limit > 0 /\ other > 0
    BY <1>1, <2>4 DEF Ratio
  <2> QED BY <2>2, <2>3, <2>4
<1> QED BY <1>2

LEMMA ScoreAdds ==
  ASSUME NEW a \in Nat, NEW b \in Nat, NEW x \in Nat, NEW y \in Nat
  PROVE  /\ Score(a, b) \in Nat /\ MemRatio(b) \in Nat /\ CPURatio(a) \in Nat
         /\ Score(a + x, b + y) = Score(a, b) + Score(x, y)
<1>1. CPULimit \in Int /\ MemoryLimit \in Int
  BY OptionAssumption
<1>2. PICK m \in Nat : \A value \in Nat : CPURatio(value) = value * m
  BY <1>1, RatioLinear DEF CPURatio
<1>3. PICK c \in Nat : \A value \in Nat : MemRatio(value) = value * c
  BY <1>1, RatioLinear DEF MemRatio
<1>4. /\ a * m \in Nat /\ b * c \in Nat /\ x * m \in Nat /\ y * c \in Nat
      /\ (a + x) * m = a * m + x * m /\ (b + y) * c = b * c + y * c
  OBVIOUS
<1>5. a + x \in Nat /\ b + y \in Nat
  OBVIOUS
<1>6. /\ CPURatio(a) = a * m /\ CPURatio(x) = x * m /\ CPURatio(a + x) = a * m + x * m
      /\ MemRatio(b) = b * c /\ MemRatio(y) = y * c /\ MemRatio(b + y) = b * c + y * c
  BY <1>2, <1>3, <1>4, <1>5
<1> QED BY <1>4, <1>6 DEF Score

LEMMA ScoreType ==
  ASSUME NEW r \in [VMIDs -> Rows], NEW n
  PROVE  ScoreIn(r, n) \in Nat
<1>1. LoadIn(r, n).cpu \in Nat /\ LoadIn(r, n).memory \in Nat
  BY UsageByType DEF Quota
<1> QED BY <1>1, ScoreAdds DEF ScoreIn

\* The node that is chosen has the least score, with the new VM and without it.
LEMMA ChosenIsLeast ==
  ASSUME TypeOK, NEW size \in Sizes
  PROVE  /\ Chosen(size) \in Nodes
         /\ \A m \in Nodes : NodeScore(Chosen(size)) <= NodeScore(m)
<1>1. PICK x, y \in Nat : x = size.cpu /\ y = size.memory
  BY SizeFields
<1>2. \A n \in Nodes : AllocatedCPU(n) \in Nat /\ AllocatedMem(n) \in Nat
  BY Types, Loads, UsageByType DEF Quota
<1> DEFINE Merit(n) == Merits(n, size)
<1>3. ASSUME NEW n \in Nodes
      PROVE  /\ Merit(n)[1] = NodeScore(n) + Score(x, y)
             /\ NodeScore(n) \in Nat /\ Score(x, y) \in Nat
             /\ Merit(n)[5] = n
             /\ Merit(n) \in [1 .. 5 -> Nat]
  <2>1. PICK a, b \in Nat : a = AllocatedCPU(n) /\ b = AllocatedMem(n)
    BY <1>2
  <2>2. PICK t \in Nat : t = IF n = TemplateNode THEN 0 ELSE 1
    OBVIOUS
  <2>3. Merit(n) = <<Score(a + x, b + y), MemRatio(b + y), CPURatio(a + x), t, n>>
    BY <1>1, <2>1, <2>2 DEF Merits
  <2>4. /\ Score(a + x, b + y) = Score(a, b) + Score(x, y)
        /\ Score(a, b) \in Nat
    BY ScoreAdds
  <2>5. MemRatio(b + y) \in Nat /\ CPURatio(a + x) \in Nat /\ Score(a + x, b + y) \in Nat
    <3>1. a + x \in Nat /\ b + y \in Nat
      OBVIOUS
    <3> QED BY <3>1, ScoreAdds
  <2>6. n \in Nat
    BY NodesAssumption
  <2>7. PICK p \in Nat : p = Score(a + x, b + y)
    BY <2>5
  <2>8. PICK k, l \in Nat : k = MemRatio(b + y) /\ l = CPURatio(a + x)
    BY <2>5
  <2>9. Merit(n) = <<p, k, l, t, n>>
    BY <2>3, <2>7, <2>8
  <2>10. NodeScore(n) = Score(a, b)
    BY <2>1 DEF NodeScore
  <2> HIDE DEF Merit
  <2>11. Score(x, y) \in Nat
    BY ScoreAdds
  <2> QED BY <2>4, <2>6, <2>7, <2>9, <2>10, <2>11
<1> HIDE DEF Merit
<1>4. PICK f \in [Nodes -> [1 .. 5 -> Nat]] : f = [n \in Nodes |-> Merit(n)]
  BY <1>3
<1>5. \A n \in Nodes : f[n] = Merit(n) /\ f[n][5] = n /\ DOMAIN f[n] = 1 .. 5
  BY <1>3, <1>4
<1>6. \E n \in Nodes : \A m \in Nodes \ {n} : Before(f[n], f[m])
  <2>1. PICK n \in Nodes : \A m \in Nodes \ {n} :
                \E i \in 1 .. 5 : f[n][i] < f[m][i] /\ \A j \in 1 .. i - 1 : f[n][j] = f[m][j]
    BY <1>5, LeastInOrder
  <2>2. \A m \in Nodes \ {n} : Before(f[n], f[m])
    BY <1>5, <2>1 DEF Before
  <2> QED BY <2>2
<1>7. \E n \in Nodes : \A m \in Nodes \ {n} : Before(Merits(n, size), Merits(m, size))
  BY <1>5, <1>6 DEF Merit
<1>8. /\ Chosen(size) \in Nodes
      /\ \A m \in Nodes \ {Chosen(size)} : Before(Merits(Chosen(size), size), Merits(m, size))
  BY <1>7 DEF Chosen
<1>9. PICK n \in Nodes : n = Chosen(size)
  BY <1>8
<1>10. ASSUME NEW m \in Nodes, m # n
       PROVE  NodeScore(n) <= NodeScore(m)
  <2>1. Before(f[n], f[m])
    BY <1>5, <1>8, <1>9, <1>10 DEF Merit
  <2>2. PICK i \in 1 .. 5 : f[n][i] < f[m][i] /\ \A j \in 1 .. i - 1 : f[n][j] = f[m][j]
    BY <1>5, <2>1 DEF Before
  <2>3. f[n][1] \in Nat /\ f[m][1] \in Nat
    OBVIOUS
  <2>4. f[n][1] <= f[m][1]
    <3>1. CASE i = 1
      BY <2>2, <2>3, <3>1
    <3>2. CASE i # 1
      <4>1. 1 \in 1 .. i - 1
        BY <3>2
      <4> QED BY <2>2, <2>3, <4>1
    <3> QED BY <3>1, <3>2
  <2> QED BY <1>3, <1>5, <2>4
<1> QED BY <1>3, <1>8, <1>9, <1>10

--------------------------------------------------------------------------------
(* Types.                                                                  *)

\* What another request's step makes of one.
Follows(q, p) == q = NoRequest \/ q = p \/ (p # NoRequest /\ q = [p EXCEPT !.beside = TRUE])

LEMMA Followed ==
  ASSUME NEW p \in Requests, NEW q, Follows(q, p)
  PROVE  /\ q \in Requests
         /\ q # NoRequest =>
              /\ p # NoRequest /\ q.op = p.op /\ q.owner = p.owner
              /\ q.op \in {"placed", "adopt", "patch", "exempt"} => q.v = p.v
              /\ q.op = "placed" => q.node = p.node
              /\ q = p \/ q.beside
<1>1. CASE q = NoRequest
  BY <1>1 DEF Requests
<1>2. CASE q = p
  BY <1>2
<1>3. CASE p # NoRequest /\ q = [p EXCEPT !.beside = TRUE]
  BY <1>3, Besides
<1> QED BY <1>1, <1>2, <1>3 DEF Follows

\* A row is written; everybody else's request follows, and no request that
\* refers to a row that goes stays.
LEMMA WriteKeepsTypes ==
  ASSUME TypeOK, Refers, NEW v \in VMIDs, NEW row \in Rows,
         rows' = [rows EXCEPT ![v] = row], member' = member, settled' \in BOOLEAN,
         req' \in [Clients -> Requests], \A d \in Clients : Follows(req'[d], req[d]),
         \/ row \in Row
         \/ row = Unmanaged /\ rows[v] = NoRow
         \/ \A d \in Clients : req[d].op \in {"adopt", "patch", "exempt"} /\ req[d].v = v
                                => req'[d] = NoRequest
  PROVE  TypeOK' /\ Refers'
<1>1. rows \in [VMIDs -> Rows] /\ req \in [Clients -> Requests] /\ rows' \in [VMIDs -> Rows]
  BY Types
<1>2. TypeOK'
  BY <1>1 DEF TypeOK, Rows, Requests
<1>3. ASSUME NEW d \in Clients, req'[d] # NoRequest, req'[d].op \in {"adopt", "patch", "exempt"}
      PROVE  /\ req[d].op = req'[d].op /\ req[d].v = req'[d].v /\ req'[d].v \in VMIDs
             /\ req[d].op \in {"patch", "exempt"} => Managed(req[d].v)
             /\ req[d].op = "adopt" => rows[req[d].v] # NoRow
             /\ row \in Row \/ (row = Unmanaged /\ rows[v] = NoRow) \/ req[d].v # v
  BY <1>1, <1>3, Followed, RequestKinds DEF Refers
<1>4. NoRow \in Rows /\ Unmanaged \in Rows /\ NoRow # Unmanaged /\ ~(NoRow.known = "managed")
  BY DEF Rows, NoRow, Unmanaged
<1>5. row \in Row => row.known = "managed" /\ row # NoRow
  BY RowKinds, <1>4
<1>6. NoRequest.op = "idle"
  BY DEF NoRequest
<1>7. ASSUME NEW d \in Clients
      PROVE  /\ req'[d].op \in {"patch", "exempt"} => rows'[req'[d].v].known = "managed"
             /\ req'[d].op = "adopt" => rows'[req'[d].v] # NoRow
  <2>1. CASE req'[d] = NoRequest
    BY <1>6, <2>1
  <2>2. CASE req'[d] # NoRequest /\ req'[d].op \in {"adopt", "patch", "exempt"}
    <3>1. PICK w \in VMIDs : w = req'[d].v
      BY <1>3, <2>2
    <3>2. CASE w = v
      BY <1>1, <1>3, <1>4, <1>5, <2>2, <3>1, <3>2 DEF Managed
    <3>3. CASE w # v
      BY <1>1, <1>3, <2>2, <3>1, <3>3 DEF Managed
    <3> QED BY <3>2, <3>3
  <2> QED BY <2>1, <2>2
<1> QED BY <1>2, <1>7 DEF Refers, Managed

\* Refers for one request.
Grounded(q, r) ==
  /\ q.op \in {"patch", "exempt"} => r[q.v].known = "managed"
  /\ q.op = "adopt" => r[q.v] # NoRow

\* The table stays as it is.
LEMMA ReadKeepsTypes ==
  ASSUME TypeOK, Refers, UNCHANGED <<rows, settled>>, member' \in [Users -> Memberships],
         req' \in [Clients -> Requests],
         \A d \in Clients : Follows(req'[d], req[d]) \/ Grounded(req'[d], rows)
  PROVE  TypeOK' /\ Refers'
<1>1. rows \in [VMIDs -> Rows] /\ req \in [Clients -> Requests]
  BY Types
<1>2. TypeOK'
  BY <1>1 DEF TypeOK, Rows, Requests
<1>3. NoRequest.op = "idle"
  BY DEF NoRequest
<1>4. ASSUME NEW d \in Clients
      PROVE  Grounded(req'[d], rows)
  <2>1. CASE req'[d] = NoRequest
    BY <1>3, <2>1 DEF Grounded
  <2>2. CASE req'[d] # NoRequest /\ Follows(req'[d], req[d])
    BY <1>1, <2>2, Followed DEF Refers, Grounded, Managed
  <2> QED BY <2>1, <2>2
<1> QED BY <1>2, <1>4 DEF Refers, Managed, Grounded

--------------------------------------------------------------------------------
(* Figures.                                                                *)

\* StillFits for one request.
Good(q, r, mb) ==
  q # NoRequest /\ ~q.beside =>
    /\ q.op \in {"create", "placed", "adopt"} =>
         Fits(With(UsageBy(r, q.owner), q.size), EffectiveUserLimit(mb[q.owner]))
    /\ q.op = "adopt" => ~Owned(r[q.v], q.owner)
    /\ q.op = "patch" /\ r[q.v].owner = q.owner =>
         /\ r[q.v].exempt = q.exempt
         /\ \/ q.exempt \/ r[q.v].size = q.size
            \/ Fits(With(Less(UsageBy(r, q.owner), r[q.v].size), q.size), EffectiveUserLimit(mb[q.owner]))

LEMMA Figures ==
  /\ StillFits <=> \A c \in Clients : Good(req[c], rows, member)
  /\ StillFits' <=> \A c \in Clients : Good(req'[c], rows', member')
<1>1. /\ \A u : UsageOf(CountedVMs(u)) = UsageBy(rows, u)
      /\ \A u : UsageOf(CountedVMs(u))' = UsageBy(rows', u)
  BY Usages
<1> QED BY <1>1 DEF StillFits, Good, Owned, Managed, PatchFits, EffectiveQuota

\* What is written to the VMs of others does not matter.
LEMMA GoodKept ==
  ASSUME NEW r \in [VMIDs -> Rows], NEW s \in [VMIDs -> Rows], NEW v \in VMIDs,
         \A w \in VMIDs \ {v} : s[w] = r[w],
         NEW q \in Requests, NEW mb, NEW nb, Good(q, r, mb),
         q # NoRequest => /\ ~Owned(r[v], q.owner) /\ ~Owned(s[v], q.owner)
                          /\ nb[q.owner] = mb[q.owner],
         q.op = "patch" => s[q.v].known = "managed"
  PROVE  Good(q, s, nb)
<1> SUFFICES ASSUME q # NoRequest, ~q.beside
             PROVE  Good(q, s, nb)
  BY DEF Good
<1>1. PICK u \in Users : u = q.owner
  BY RequestKinds
<1>2. PICK base \in Quota :
           /\ UsageBy(r, u) = IF Counts(r[v], u) THEN With(base, r[v].size) ELSE base
           /\ UsageBy(s, u) = IF Counts(s[v], u) THEN With(base, s[v].size) ELSE base
  BY UsageByAfter
<1>3. UsageBy(s, u) = UsageBy(r, u)
  BY <1>1, <1>2 DEF Counts
<1>4. q.op = "adopt" => ~Owned(s[q.v], u)
  <2>1. q.op = "adopt" => q.v \in VMIDs /\ ~Owned(r[q.v], u)
    BY <1>1, RequestKinds DEF Good
  <2> QED BY <1>1, <2>1
<1>5. q.op = "patch" /\ s[q.v].owner = u => s[q.v] = r[q.v]
  <2>1. q.op = "patch" => q.v \in VMIDs
    BY RequestKinds
  <2> QED BY <1>1, <2>1 DEF Owned
<1> QED BY <1>1, <1>3, <1>4, <1>5 DEF Good

LEMMA WriteKeepsFigures ==
  ASSUME TypeOK, TypeOK', Refers', StillFits, NEW v \in VMIDs, rows' = [rows EXCEPT ![v] = rows'[v]],
         member' = member,
         \A d \in Clients : \/ req'[d] = NoRequest \/ req'[d].beside
                            \/ req'[d] = req[d] /\ ~Owned(rows[v], req[d].owner)
                                               /\ ~Owned(rows'[v], req[d].owner)
  PROVE  StillFits'
<1>1. rows \in [VMIDs -> Rows] /\ rows' \in [VMIDs -> Rows] /\ req \in [Clients -> Requests]
  BY DEF TypeOK, Rows, Requests
<1>2. \A w \in VMIDs \ {v} : rows'[w] = rows[w]
  BY <1>1
<1>3. ASSUME NEW d \in Clients
      PROVE  Good(req'[d], rows', member')
  <2>1. CASE req'[d] = NoRequest \/ req'[d].beside
    BY <2>1 DEF Good
  <2>2. CASE req'[d] = req[d] /\ ~Owned(rows[v], req[d].owner) /\ ~Owned(rows'[v], req[d].owner)
    <3>1. PICK q \in Requests : q = req[d]
      BY <1>1
    <3>2. q.op = "patch" => rows'[q.v].known = "managed"
      BY <2>2, <3>1 DEF Refers, Managed
    <3>3. Good(q, rows, member)
      BY <3>1, Figures
    <3>4. Good(q, rows', member')
      BY <1>1, <1>2, <2>2, <3>1, <3>2, <3>3, GoodKept
    <3> QED BY <2>2, <3>1, <3>4
  <2> QED BY <2>1, <2>2
<1> QED BY <1>3, Figures

LEMMA ReadKeepsFigures ==
  ASSUME TypeOK, StillFits, rows' = rows,
         \A d \in Clients : \/ req'[d] = NoRequest \/ req'[d].beside
                            \/ req'[d] = req[d] /\ member'[req[d].owner] = member[req[d].owner]
                            \/ Good(req'[d], rows, member')
  PROVE  StillFits'
<1>1. ASSUME NEW d \in Clients
      PROVE  Good(req'[d], rows, member')
  <2>1. CASE req'[d] = NoRequest \/ req'[d].beside
    BY <2>1 DEF Good
  <2>2. CASE req'[d] = req[d] /\ member'[req[d].owner] = member[req[d].owner]
    <3>1. Good(req[d], rows, member)
      BY Figures
    <3> QED BY <2>2, <3>1 DEF Good
  <2> QED BY <1>1, <2>1, <2>2
<1> QED BY <1>1, Figures

--------------------------------------------------------------------------------
(* Level nodes.                                                            *)

Least(r, n) == \A m \in Nodes : ScoreIn(r, n) <= ScoreIn(r, m)
Level(r) ==
  \A n, m \in Nodes : PlacedIn(r, n) # {} =>
    \E w \in PlacedIn(r, n) :
      ScoreIn(r, n) <= ScoreIn(r, m) + Score(r[w].size.cpu, r[w].size.memory)

LEMMA Levels ==
  /\ Balanced <=> (settled => Level(rows))
  /\ Balanced' <=> (settled' => Level(rows'))
  /\ ChosenStillLeast <=> (settled => \A c \in Clients : req[c].op = "placed" => Least(rows, req[c].node))
  /\ ChosenStillLeast' <=> (settled' => \A c \in Clients : req'[c].op = "placed" => Least(rows', req'[c].node))
<1>1. /\ \A n : NodeScore(n) = ScoreIn(rows, n) /\ PlacedOn(n) = PlacedIn(rows, n)
      /\ \A n : NodeScore(n)' = ScoreIn(rows', n) /\ PlacedOn(n)' = PlacedIn(rows', n)
  BY Loads
<1> QED BY <1>1 DEF Balanced, ChosenStillLeast, Level, Least

\* A VM that nobody manages is on no node.
LEMMA FoundKeepsLevel ==
  ASSUME NEW r \in [VMIDs -> Rows], NEW q \in [VMIDs -> Rows], NEW v \in VMIDs,
         \A w \in VMIDs \ {v} : q[w] = r[w], r[v] = NoRow, q[v] = Unmanaged
  PROVE  /\ Level(r) => Level(q)
         /\ \A n \in Nodes : Least(r, n) => Least(q, n)
<1>1. r[v].known # "managed" /\ q[v].known # "managed"
  BY DEF NoRow, Unmanaged
<1>2. ASSUME NEW n
      PROVE  PlacedIn(q, n) = PlacedIn(r, n) /\ v \notin PlacedIn(r, n)
  BY <1>1 DEF PlacedIn, On
<1>3. ASSUME NEW n
      PROVE  ScoreIn(q, n) = ScoreIn(r, n)
  <2>1. PICK base \in Quota :
           /\ LoadIn(r, n) = IF On(r[v], n) THEN With(base, r[v].size) ELSE base
           /\ LoadIn(q, n) = IF On(q[v], n) THEN With(base, q[v].size) ELSE base
    BY LoadAfter
  <2> QED BY <1>1, <2>1 DEF ScoreIn, On
<1>4. \A n : PlacedIn(r, n) \subseteq VMIDs
  BY DEF PlacedIn
<1>5. \A n : \A w \in PlacedIn(r, n) : q[w] = r[w]
  BY <1>2, <1>4
<1> QED BY <1>2, <1>3, <1>5 DEF Level, Least

\* A new VM on the node with the least score.
LEMMA CreationKeepsLevel ==
  ASSUME NEW r \in [VMIDs -> Rows], NEW q \in [VMIDs -> Rows], NEW v \in VMIDs,
         \A w \in VMIDs \ {v} : q[w] = r[w], r[v] = NoRow, q[v] \in Row,
         Level(r), Least(r, q[v].node)
  PROVE  Level(q)
<1>1. r[v].known # "managed" /\ q[v].known = "managed"
  BY RowKinds DEF NoRow
<1>2. PICK x, y \in Nat : x = q[v].size.cpu /\ y = q[v].size.memory
  BY RowKinds, SizeFields
<1>3. PICK z \in Nat : z = Score(x, y)
  BY ScoreAdds
<1>4. \A n : ScoreIn(r, n) \in Nat /\ ScoreIn(q, n) \in Nat
  BY ScoreType
<1>5. ASSUME NEW n
      PROVE  ScoreIn(q, n) = ScoreIn(r, n) + (IF q[v].node = n THEN z ELSE 0)
  <2>1. PICK base \in Quota :
           /\ LoadIn(r, n) = IF On(r[v], n) THEN With(base, r[v].size) ELSE base
           /\ LoadIn(q, n) = IF On(q[v], n) THEN With(base, q[v].size) ELSE base
    BY LoadAfter
  <2>2. LoadIn(r, n) = base /\ LoadIn(q, n) = IF q[v].node = n THEN With(base, q[v].size) ELSE base
    BY <1>1, <2>1 DEF On
  <2>3. PICK a, b \in Nat : a = base.cpu /\ b = base.memory
    BY DEF Quota
  <2>4. Score(a + x, b + y) = Score(a, b) + z
    BY <1>3, ScoreAdds
  <2>5. ScoreIn(r, n) = Score(a, b)
    BY <2>2, <2>3 DEF ScoreIn
  <2>6. CASE q[v].node = n
    <3>1. ScoreIn(q, n) = Score(a + x, b + y)
      BY <1>2, <2>2, <2>3, <2>6 DEF ScoreIn, With
    <3> QED BY <2>4, <2>5, <2>6, <3>1
  <2>7. CASE q[v].node # n
    BY <1>4, <2>2, <2>7 DEF ScoreIn
  <2> QED BY <2>6, <2>7
<1>6. ASSUME NEW n
      PROVE  PlacedIn(q, n) = PlacedIn(r, n) \union (IF q[v].node = n THEN {v} ELSE {})
  <2>1. \A w \in VMIDs : On(q[w], n) <=> On(r[w], n) \/ (w = v /\ q[v].node = n)
    BY <1>1 DEF On
  <2> QED BY <2>1 DEF PlacedIn
<1>7. \A n : \A w \in PlacedIn(r, n) : w # v /\ w \in VMIDs /\ q[w] = r[w] /\ r[w] \in Row
  BY <1>1, RowKinds DEF PlacedIn, On
<1>8. ASSUME NEW n \in Nodes, NEW m \in Nodes, PlacedIn(q, n) # {}
      PROVE  \E w \in PlacedIn(q, n) :
               ScoreIn(q, n) <= ScoreIn(q, m) + Score(q[w].size.cpu, q[w].size.memory)
  <2>1. ScoreIn(r, m) <= ScoreIn(q, m)
    BY <1>4, <1>5
  <2>2. CASE q[v].node = n
    <3>1. v \in PlacedIn(q, n) /\ Score(q[v].size.cpu, q[v].size.memory) = z
      BY <1>2, <1>3, <1>6, <2>2
    <3>2. ScoreIn(q, n) = ScoreIn(r, n) + z /\ ScoreIn(r, n) <= ScoreIn(r, m)
      BY <1>5, <2>2 DEF Least
    <3>3. ScoreIn(q, n) <= ScoreIn(q, m) + z
      BY <1>4, <2>1, <3>2
    <3> QED BY <3>1, <3>3
  <2>3. CASE q[v].node # n
    <3>1. PlacedIn(q, n) = PlacedIn(r, n) /\ ScoreIn(q, n) = ScoreIn(r, n)
      <4>1. PlacedIn(q, n) = PlacedIn(r, n)
        BY <1>6, <2>3
      <4>2. ScoreIn(q, n) = ScoreIn(r, n) + 0
        BY <1>5, <2>3
      <4> QED BY <1>4, <4>1, <4>2
    <3>2. PICK w \in PlacedIn(r, n) :
            ScoreIn(r, n) <= ScoreIn(r, m) + Score(r[w].size.cpu, r[w].size.memory)
      BY <1>8, <3>1 DEF Level
    <3>3. PICK s \in Nat : s = Score(r[w].size.cpu, r[w].size.memory)
      BY <1>7, RowKinds, SizeFields, ScoreAdds
    <3>4. ScoreIn(q, n) <= ScoreIn(q, m) + s
      BY <1>4, <2>1, <3>1, <3>2, <3>3
    <3> QED BY <1>7, <3>1, <3>3, <3>4
  <2> QED BY <2>2, <2>3
<1> QED BY <1>8 DEF Level

--------------------------------------------------------------------------------
(* The steps.                                                              *)

\* Requests are checked, placed, given up; users log in.
LEMMA ReadKeeps ==
  ASSUME IInv, UNCHANGED <<rows, settled>>, member' \in [Users -> Memberships],
         req' \in [Clients -> Requests],
         \A d \in Clients :
           \/ /\ Follows(req'[d], req[d])
              /\ \/ req'[d] = NoRequest \/ req'[d].beside
                 \/ member'[req[d].owner] = member[req[d].owner]
           \/ /\ Grounded(req'[d], rows) /\ Good(req'[d], rows, member')
              /\ req'[d].op = "placed" => Least(rows, req'[d].node)
  PROVE  IInv'
<1>1. TypeOK /\ Refers /\ StillFits /\ ChosenStillLeast /\ Balanced
  BY DEF IInv
<1>2. TypeOK' /\ Refers'
  BY <1>1, ReadKeepsTypes
<1>3. \A d \in Clients : req[d] \in Requests
  BY <1>1, Types
<1>4. StillFits'
  <2>1. ASSUME NEW d \in Clients
        PROVE  \/ req'[d] = NoRequest \/ req'[d].beside
               \/ req'[d] = req[d] /\ member'[req[d].owner] = member[req[d].owner]
               \/ Good(req'[d], rows, member')
    BY <1>3, Followed
  <2> QED BY <1>1, <2>1, ReadKeepsFigures
<1>5. ChosenStillLeast'
  <2>1. ASSUME NEW d \in Clients, settled, req'[d].op = "placed"
        PROVE  Least(rows, req'[d].node)
    <3>1. CASE Follows(req'[d], req[d])
      <4>1. req'[d] # NoRequest
        BY <2>1 DEF NoRequest
      <4>2. req[d].op = "placed" /\ req'[d].node = req[d].node
        BY <1>3, <2>1, <3>1, <4>1, Followed
      <4> QED BY <1>1, <2>1, <4>2, Levels
    <3> QED BY <2>1, <3>1
  <2> QED BY <2>1, Levels
<1>6. Balanced'
  BY <1>1, Levels
<1> QED BY <1>2, <1>4, <1>5, <1>6 DEF IInv

\* A row is written.
LEMMA WriteKeeps ==
  ASSUME IInv, NEW v \in VMIDs, NEW row \in Rows, rows' = [rows EXCEPT ![v] = row],
         member' = member, settled' \in BOOLEAN,
         req' \in [Clients -> Requests], \A d \in Clients : Follows(req'[d], req[d]),
         \/ row \in Row
         \/ row = Unmanaged /\ rows[v] = NoRow
         \/ \A d \in Clients : req[d].op \in {"adopt", "patch", "exempt"} /\ req[d].v = v
                                => req'[d] = NoRequest,
         \A d \in Clients : \/ req'[d] = NoRequest \/ req'[d].beside
                            \/ ~Owned(rows[v], req[d].owner) /\ ~Owned(row, req[d].owner),
         settled' => ChosenStillLeast' /\ Balanced'
  PROVE  IInv'
<1>1. TypeOK /\ Refers /\ StillFits
  BY DEF IInv
<1>2. TypeOK' /\ Refers'
  BY <1>1, WriteKeepsTypes
<1>3. rows \in [VMIDs -> Rows] /\ req \in [Clients -> Requests]
  BY <1>1, Types
<1>4. rows'[v] = row /\ rows' = [rows EXCEPT ![v] = rows'[v]]
  BY <1>3
<1>5. ASSUME NEW d \in Clients
      PROVE  \/ req'[d] = NoRequest \/ req'[d].beside
             \/ req'[d] = req[d] /\ ~Owned(rows[v], req[d].owner)
                                /\ ~Owned(rows'[v], req[d].owner)
  BY <1>3, <1>4, Followed
<1>6. StillFits'
  BY <1>1, <1>2, <1>4, <1>5, WriteKeepsFigures
<1>7. ChosenStillLeast' /\ Balanced'
  BY Levels
<1> QED BY <1>2, <1>6, <1>7 DEF IInv

\* The request that writes ends, and those of the same owners go stale.
LEMMA Written ==
  ASSUME TypeOK, NEW c \in Clients, NEW v \in VMIDs, NEW row \in Rows, Writes(c, v, row)
  PROVE  /\ rows' = [rows EXCEPT ![v] = row] /\ member' = member
         /\ req' \in [Clients -> Requests] /\ req'[c] = NoRequest
         /\ \A d \in Clients : Follows(req'[d], req[d])
         /\ \A d \in Clients : \/ req'[d] = NoRequest \/ req'[d].beside
                               \/ ~Owned(rows[v], req[d].owner) /\ ~Owned(row, req[d].owner)
         /\ \A d \in Clients \ {c} : req'[d] = NoRequest => req[d] = NoRequest
<1>1. req \in [Clients -> Requests]
  BY Types
<1> DEFINE owners == {r.owner : r \in {r \in {rows[v], row} : r.known = "managed"}}
<1>2. /\ rows' = [rows EXCEPT ![v] = row] /\ member' = member
      /\ req' = [d \in Clients |->
                  IF d = c THEN NoRequest
                  ELSE IF req[d] # NoRequest /\ req[d].owner \in owners
                  THEN [req[d] EXCEPT !.beside = TRUE] ELSE req[d]]
  BY DEF Writes
<1>3. \A u : u \notin owners => ~Owned(rows[v], u) /\ ~Owned(row, u)
  BY DEF Owned
<1> HIDE DEF owners
<1>4. ASSUME NEW d \in Clients
      PROVE  /\ Follows(req'[d], req[d])
             /\ \/ req'[d] = NoRequest \/ req'[d].beside
                \/ ~Owned(rows[v], req[d].owner) /\ ~Owned(row, req[d].owner)
             /\ d # c /\ req'[d] = NoRequest => req[d] = NoRequest
  <2>1. CASE d = c
    BY <1>2, <2>1 DEF Follows
  <2>2. CASE d # c /\ req[d] # NoRequest /\ req[d].owner \in owners
    <3>1. req'[d] = [req[d] EXCEPT !.beside = TRUE]
      BY <1>2, <2>2
    <3>2. req'[d].beside /\ req'[d] # NoRequest
      BY <1>1, <2>2, <3>1, Besides
    <3> QED BY <2>2, <3>1, <3>2 DEF Follows
  <2>3. CASE d # c /\ ~(req[d] # NoRequest /\ req[d].owner \in owners)
    BY <1>2, <1>3, <2>3 DEF Follows
  <2> QED BY <2>1, <2>2, <2>3
<1>5. req' \in [Clients -> Requests]
  BY <1>1, <1>2, <1>4, Followed
<1>6. req'[c] = NoRequest
  BY <1>2
<1>7. \A d \in Clients \ {c} : req'[d] = NoRequest => req[d] = NoRequest
  BY <1>4
<1> QED BY <1>2, <1>4, <1>5, <1>6, <1>7

\* A request begins, goes on or is given up.
LEMMA RequestKeeps ==
  ASSUME IInv, NEW c \in Clients, NEW q \in Requests, Begins(c, q),
         Grounded(q, rows), Good(q, rows, member), q.op = "placed" => Least(rows, q.node)
  PROVE  IInv'
<1>1. TypeOK /\ req \in [Clients -> Requests]
  BY Types DEF IInv
<1>2. UNCHANGED <<rows, settled>> /\ member' = member /\ req' = [req EXCEPT ![c] = q]
  BY DEF Begins
<1>3. member' \in [Users -> Memberships] /\ req' \in [Clients -> Requests]
  BY <1>1, <1>2 DEF TypeOK
<1>4. ASSUME NEW d \in Clients
      PROVE  \/ /\ Follows(req'[d], req[d])
                /\ \/ req'[d] = NoRequest \/ req'[d].beside
                   \/ member'[req[d].owner] = member[req[d].owner]
             \/ /\ Grounded(req'[d], rows) /\ Good(req'[d], rows, member')
                /\ req'[d].op = "placed" => Least(rows, req'[d].node)
  <2>1. CASE d = c
    <3>1. req'[d] = q
      BY <1>1, <1>2, <2>1
    <3> QED BY <1>2, <3>1
  <2>2. CASE d # c
    <3>1. req'[d] = req[d]
      BY <1>1, <1>2, <2>2
    <3> QED BY <1>2, <3>1 DEF Follows
  <2> QED BY <2>1, <2>2
<1> QED BY <1>2, <1>3, <1>4, ReadKeeps

\* A request writes a managed row.
LEMMA CommitKeeps ==
  ASSUME IInv, NEW c \in Clients, NEW v \in VMIDs, NEW row \in Row, Writes(c, v, row),
         settled' \in BOOLEAN, settled' => ChosenStillLeast' /\ Balanced'
  PROVE  IInv'
<1>1. TypeOK /\ row \in Rows
  BY DEF IInv, Rows
<1>2. /\ rows' = [rows EXCEPT ![v] = row] /\ member' = member
      /\ req' \in [Clients -> Requests]
      /\ \A d \in Clients : Follows(req'[d], req[d])
      /\ \A d \in Clients : \/ req'[d] = NoRequest \/ req'[d].beside
                            \/ ~Owned(rows[v], req[d].owner) /\ ~Owned(row, req[d].owner)
  BY <1>1, Written
<1> QED BY <1>1, <1>2, WriteKeeps

LEMMA LoadCreateKeeps ==
  ASSUME IInv, NEW c \in Clients, NEW u \in Users, NEW size \in Sizes, LoadCreate(c, u, size)
  PROVE  IInv'
<1>1. PICK q \in Creating : q = [op |-> "create", owner |-> u, size |-> size, beside |-> FALSE]
  BY DEF Creating
<1>2. q \in Requests /\ q.op = "create" /\ q.owner = u /\ q.size = size
  BY <1>1 DEF Requests, Request, Creating
<1>3. Begins(c, q) /\ Fits(With(UsageBy(rows, u), size), EffectiveQuota(u))
  BY <1>1, Usages DEF LoadCreate
<1>4. Grounded(q, rows) /\ Good(q, rows, member)
  BY <1>2, <1>3 DEF Grounded, Good, EffectiveQuota
<1> QED BY <1>2, <1>3, <1>4, RequestKeeps

LEMMA PlaceVMKeeps ==
  ASSUME IInv, NEW c \in Clients, PlaceVM(c)
  PROVE  IInv'
<1>1. TypeOK /\ StillFits
  BY DEF IInv
<1>2. PICK p \in Requests : p = req[c]
  BY <1>1, Types
<1>3. p \in Creating /\ p.op = "create" /\ p # NoRequest
  BY <1>2, RequestKinds DEF PlaceVM, NoRequest
<1>4. PICK v \in VMIDs : v = NextVMID
  BY NextVMIDFree DEF PlaceVM
<1>5. PICK n \in Nodes : n = Chosen(p.size) /\ \A m \in Nodes : NodeScore(n) <= NodeScore(m)
  BY <1>1, <1>3, ChosenIsLeast DEF Creating
<1>6. PICK q \in Placed : q = [op |-> "placed", v |-> v, owner |-> p.owner, size |-> p.size,
                               node |-> n, beside |-> p.beside]
  BY <1>3 DEF Placed, Creating
<1>7. /\ q \in Requests /\ q.op = "placed" /\ q.owner = p.owner /\ q.size = p.size
      /\ q.node = n /\ q.beside = p.beside
  BY <1>6 DEF Requests, Request, Placed
<1>8. Begins(c, q)
  BY <1>2, <1>4, <1>5, <1>6 DEF PlaceVM, Begins
<1>9. Good(p, rows, member)
  BY <1>1, <1>2, Figures
<1>10. Grounded(q, rows) /\ Good(q, rows, member) /\ Least(rows, n)
  BY <1>3, <1>5, <1>7, <1>9, Loads DEF Grounded, Good, Least
<1> QED BY <1>7, <1>8, <1>10, RequestKeeps

LEMMA LoadAdoptKeeps ==
  ASSUME IInv, NEW c \in Clients, NEW v \in VMIDs, NEW u \in Users, NEW size \in Sizes,
         LoadAdopt(c, v, u, size)
  PROVE  IInv'
<1>1. PICK q \in Changing : q = [op |-> "adopt", v |-> v, owner |-> u, size |-> size,
                                 exempt |-> FALSE, beside |-> FALSE]
  BY DEF Changing
<1>2. q \in Requests /\ q.op = "adopt" /\ q.v = v /\ q.owner = u /\ q.size = size
  BY <1>1 DEF Requests, Request, Changing
<1>3. Begins(c, q) /\ Fits(With(UsageBy(rows, u), size), EffectiveQuota(u)) /\ rows[v] = Unmanaged
  BY <1>1, Usages DEF LoadAdopt
<1>4. Unmanaged # NoRow /\ ~Owned(Unmanaged, u)
  BY DEF Unmanaged, NoRow, Owned
<1>5. Grounded(q, rows) /\ Good(q, rows, member)
  BY <1>2, <1>3, <1>4 DEF Grounded, Good, EffectiveQuota
<1> QED BY <1>2, <1>3, <1>5, RequestKeeps

LEMMA LoadPatchKeeps ==
  ASSUME IInv, NEW c \in Clients, NEW v \in VMIDs, NEW u \in Users, NEW size \in Sizes,
         LoadPatch(c, v, u, size)
  PROVE  IInv'
<1>1. PICK r \in Row : r = rows[v]
  BY Types DEF LoadPatch, IInv
<1>2. PICK q \in Changing : q = [op |-> "patch", v |-> v, owner |-> u, size |-> size,
                                 exempt |-> r.exempt, beside |-> FALSE]
  BY DEF Changing, Row
<1>3. /\ q \in Requests /\ q.op = "patch" /\ q.v = v /\ q.owner = u /\ q.size = size
      /\ q.exempt = r.exempt
  BY <1>2 DEF Requests, Request, Changing
<1>4. /\ Begins(c, q) /\ Managed(v)
      /\ ~r.exempt /\ (u # r.owner \/ size # r.size) =>
           Fits(With(Less(UsageBy(rows, u), r.size), size), EffectiveQuota(u))
  BY <1>1, <1>2, Usages DEF LoadPatch, PatchFits
<1>5. Grounded(q, rows)
  BY <1>3, <1>4 DEF Grounded, Managed
<1>6. Good(q, rows, member)
  BY <1>1, <1>3, <1>4 DEF Good, EffectiveQuota
<1> QED BY <1>3, <1>4, <1>5, <1>6, RequestKeeps

LEMMA LoadExemptKeeps ==
  ASSUME IInv, NEW c \in Clients, NEW v \in VMIDs, LoadExempt(c, v)
  PROVE  IInv'
<1>1. PICK r \in Row : r = rows[v]
  BY Types DEF LoadExempt, IInv
<1>2. PICK free \in BOOLEAN : free = ~rows[v].exempt
  OBVIOUS
<1>3. PICK q \in Changing : q = [op |-> "exempt", v |-> v, owner |-> r.owner, size |-> r.size,
                                 exempt |-> free, beside |-> FALSE]
  BY DEF Changing, Row
<1>4. q \in Requests /\ q.op = "exempt" /\ q.v = v
  BY <1>3 DEF Requests, Request, Changing
<1>5. Begins(c, q) /\ Managed(v)
  BY <1>1, <1>2, <1>3 DEF LoadExempt
<1>6. Grounded(q, rows) /\ Good(q, rows, member)
  BY <1>4, <1>5 DEF Grounded, Managed, Good
<1> QED BY <1>4, <1>5, <1>6, RequestKeeps

LEMMA RequestFailsKeeps ==
  ASSUME IInv, NEW c \in Clients, RequestFails(c)
  PROVE  IInv'
<1>1. NoRequest \in Requests /\ NoRequest.op = "idle"
  BY DEF Requests, NoRequest
<1>2. Grounded(NoRequest, rows) /\ Good(NoRequest, rows, member) /\ Begins(c, NoRequest)
  BY <1>1 DEF Grounded, Good, RequestFails, Begins
<1> QED BY <1>1, <1>2, RequestKeeps

LEMMA CommitCreateKeeps ==
  ASSUME IInv, NEW c \in Clients, CommitCreate(c)
  PROVE  IInv'
<1>1. TypeOK /\ ChosenStillLeast /\ Balanced
  BY DEF IInv
<1>2. PICK q \in Requests : q = req[c] /\ q.op = "placed" /\ rows[q.v] = NoRow
  BY <1>1, Types DEF CommitCreate
<1>3. PICK v \in VMIDs : v = q.v
  BY <1>2, RequestKinds
<1>4. PICK row \in Row : /\ row = [known |-> "managed", owner |-> q.owner, exempt |-> FALSE,
                                   size |-> q.size, node |-> q.node]
                         /\ Writes(c, v, row)
  <2>1. q \in Placed
    BY <1>2, RequestKinds
  <2> QED BY <1>2, <1>3, <2>1 DEF CommitCreate, Placed, Row
<1>5. row.node = q.node
  BY <1>4
<1>6. PICK alone \in BOOLEAN : alone = \A d \in Clients \ {c} : req[d].op # "placed"
  OBVIOUS
<1>7. settled' = (settled /\ alone) /\ settled \in BOOLEAN
  BY <1>1, <1>6 DEF CommitCreate, TypeOK
<1>8. settled' \in BOOLEAN /\ (settled' => settled /\ alone)
  BY <1>7
<1>9. /\ rows' = [rows EXCEPT ![v] = row] /\ req'[c] = NoRequest
      /\ \A d \in Clients : Follows(req'[d], req[d])
  BY <1>1, <1>4, Written DEF Rows
<1>10. ASSUME settled'
       PROVE  ChosenStillLeast' /\ Balanced'
  <2>1. settled /\ \A d \in Clients \ {c} : req[d].op # "placed"
    BY <1>6, <1>8, <1>10
  <2>2. Level(rows) /\ Least(rows, row.node)
    BY <1>1, <1>2, <1>5, <2>1, Levels
  <2>3. PICK r \in [VMIDs -> Rows] : r = rows
    BY <1>1, Types
  <2>4. PICK s \in [VMIDs -> Rows] : s = rows'
    BY <1>9, <2>3 DEF Rows
  <2>5. s[v] = row /\ r[v] = NoRow /\ \A w \in VMIDs \ {v} : s[w] = r[w]
    BY <1>2, <1>3, <1>9, <2>3, <2>4
  <2>6. Level(s)
    BY <2>2, <2>3, <2>5, CreationKeepsLevel
  <2>7. ASSUME NEW d \in Clients
        PROVE  req'[d].op # "placed"
    <3>1. CASE req'[d] = NoRequest
      BY <3>1 DEF NoRequest
    <3>2. CASE req'[d] # NoRequest
      <4>1. req'[d].op = req[d].op /\ d # c
        BY <1>1, <1>9, <3>2, Types, Followed
      <4> QED BY <2>1, <4>1
    <3> QED BY <3>1, <3>2
  <2> QED BY <2>4, <2>6, <2>7, Levels
<1> QED BY <1>4, <1>8, <1>10, CommitKeeps

\* Requests that change a row: what they write, and where.
LEMMA Changed ==
  ASSUME IInv, NEW c \in Clients, CommitAdopt(c) \/ CommitPatch(c) \/ CommitExempt(c)
  PROVE  \E v \in VMIDs, row \in Row :
           /\ Writes(c, v, row) /\ v = req[c].v /\ settled' = FALSE
           /\ CommitAdopt(c) => row.owner = req[c].owner /\ row.size = req[c].size /\ ~row.exempt
           /\ CommitPatch(c) => /\ row.owner = req[c].owner /\ row.size = req[c].size
                                /\ row.exempt = req[c].exempt
           /\ CommitExempt(c) => /\ row.owner = rows[v].owner /\ row.size = req[c].size
                                 /\ row.exempt = req[c].exempt
<1>1. TypeOK /\ Refers
  BY DEF IInv
<1>2. PICK q \in Requests : q = req[c]
  BY <1>1, Types
<1>3. q.op \in {"adopt", "patch", "exempt"} /\ q \in Changing
  BY <1>2, RequestKinds DEF CommitAdopt, CommitPatch, CommitExempt
<1>4. PICK v \in VMIDs : v = q.v
  BY <1>3 DEF Changing
<1>5. Managed(v) => rows[v] \in Row
  BY <1>1, Types
<1>6. CASE CommitAdopt(c)
  <2>1. PICK n \in Nodes :
          Writes(c, v, [known |-> "managed", owner |-> q.owner, exempt |-> FALSE, size |-> q.size,
                        node |-> IF Managed(v) THEN rows[v].node ELSE n])
    BY <1>2, <1>4, <1>6 DEF CommitAdopt
  <2>2. PICK m \in Nodes : m = IF Managed(v) THEN rows[v].node ELSE n
    BY <1>5 DEF Row
  <2> DEFINE row == [known |-> "managed", owner |-> q.owner, exempt |-> FALSE, size |-> q.size,
                     node |-> m]
  <2>3. row \in Row /\ Writes(c, v, row) /\ row.owner = q.owner /\ row.size = q.size /\ ~row.exempt
    BY <1>3, <2>1, <2>2 DEF Row, Changing
  <2>4. settled' = FALSE /\ ~CommitPatch(c) /\ ~CommitExempt(c)
    BY <1>6 DEF CommitAdopt, CommitPatch, CommitExempt, Unsettles
  <2> HIDE DEF row
  <2> QED BY <1>2, <1>4, <2>3, <2>4
<1>7. CASE CommitPatch(c)
  <2>1. PICK r \in Row : r = rows[v]
    BY <1>1, <1>2, <1>4, <1>5, <1>7 DEF Refers, CommitPatch
  <2> DEFINE row == [r EXCEPT !.owner = q.owner, !.size = q.size, !.exempt = q.exempt]
  <2>2. row \in Row /\ row.owner = q.owner /\ row.size = q.size /\ row.exempt = q.exempt
    BY <1>3 DEF Row, Changing
  <2>3. Writes(c, v, row) /\ settled' = FALSE /\ ~CommitAdopt(c) /\ ~CommitExempt(c)
    BY <1>2, <1>4, <1>7, <2>1 DEF CommitAdopt, CommitPatch, CommitExempt, Unsettles
  <2> HIDE DEF row
  <2> QED BY <1>2, <1>4, <2>2, <2>3
<1>8. CASE CommitExempt(c)
  <2>1. PICK r \in Row : r = rows[v]
    BY <1>1, <1>2, <1>4, <1>5, <1>8 DEF Refers, CommitExempt
  <2> DEFINE row == [r EXCEPT !.size = q.size, !.exempt = q.exempt]
  <2>2. row \in Row /\ row.owner = r.owner /\ row.size = q.size /\ row.exempt = q.exempt
    BY <1>3 DEF Row, Changing
  <2>3. Writes(c, v, row) /\ settled' = FALSE /\ ~CommitAdopt(c) /\ ~CommitPatch(c)
    BY <1>2, <1>4, <1>8, <2>1 DEF CommitAdopt, CommitPatch, CommitExempt, Unsettles
  <2> HIDE DEF row
  <2> QED BY <1>2, <1>4, <2>1, <2>2, <2>3
<1> QED BY <1>6, <1>7, <1>8

LEMMA ChangeKeeps ==
  ASSUME IInv, NEW c \in Clients, CommitAdopt(c) \/ CommitPatch(c) \/ CommitExempt(c)
  PROVE  IInv'
<1>1. PICK v \in VMIDs, row \in Row : Writes(c, v, row) /\ settled' = FALSE
  BY Changed
<1> QED BY <1>1, CommitKeeps

LEMMA RowDeletedKeeps ==
  ASSUME IInv, NEW v \in VMIDs, RowDeleted(v)
  PROVE  /\ IInv' /\ rows' = [rows EXCEPT ![v] = NoRow] /\ member' = member
         /\ \A c \in Clients : req[c] # NoRequest /\ req'[c] = NoRequest =>
              req[c].op \in {"adopt", "patch", "exempt"} /\ req[c].v = v
<1>1. TypeOK /\ rows \in [VMIDs -> Rows] /\ req \in [Clients -> Requests]
  BY Types DEF IInv
<1>2. /\ rows' = [rows EXCEPT ![v] = NoRow] /\ member' = member /\ settled' = FALSE
      /\ req' = [c \in Clients |->
               IF req[c].op \in {"adopt", "patch", "exempt"} /\ req[c].v = v THEN NoRequest
               ELSE IF Managed(v) /\ req[c] # NoRequest /\ req[c].owner = rows[v].owner
               THEN [req[c] EXCEPT !.beside = TRUE] ELSE req[c]]
  BY DEF RowDeleted, Unsettles
<1>3. NoRow \in Rows /\ \A u : ~Owned(NoRow, u)
  BY DEF Rows, NoRow, Owned
<1>4. ASSUME NEW d \in Clients
      PROVE  /\ Follows(req'[d], req[d])
             /\ req[d].op \in {"adopt", "patch", "exempt"} /\ req[d].v = v => req'[d] = NoRequest
             /\ \/ req'[d] = NoRequest \/ req'[d].beside
                \/ ~Owned(rows[v], req[d].owner) /\ ~Owned(NoRow, req[d].owner)
             /\ req[d] # NoRequest /\ req'[d] = NoRequest =>
                  req[d].op \in {"adopt", "patch", "exempt"} /\ req[d].v = v
  <2>1. CASE req[d].op \in {"adopt", "patch", "exempt"} /\ req[d].v = v
    BY <1>2, <2>1 DEF Follows
  <2>2. CASE /\ ~(req[d].op \in {"adopt", "patch", "exempt"} /\ req[d].v = v)
             /\ Managed(v) /\ req[d] # NoRequest /\ req[d].owner = rows[v].owner
    <3>1. req'[d] = [req[d] EXCEPT !.beside = TRUE]
      BY <1>2, <2>2
    <3>2. req'[d].beside /\ req'[d] # NoRequest
      BY <1>1, <2>2, <3>1, Besides
    <3> QED BY <2>2, <3>1, <3>2 DEF Follows
  <2>3. CASE /\ ~(req[d].op \in {"adopt", "patch", "exempt"} /\ req[d].v = v)
             /\ ~(Managed(v) /\ req[d] # NoRequest /\ req[d].owner = rows[v].owner)
    <3>1. req'[d] = req[d]
      BY <1>2, <2>3
    <3>2. req[d] = NoRequest \/ ~Owned(rows[v], req[d].owner)
      BY <2>3 DEF Owned, Managed
    <3> QED BY <1>3, <2>3, <3>1, <3>2 DEF Follows
  <2> QED BY <2>1, <2>2, <2>3
<1>5. req' \in [Clients -> Requests]
  BY <1>1, <1>2, <1>4, Followed
<1>6. IInv'
  BY <1>2, <1>3, <1>4, <1>5, WriteKeeps
<1> QED BY <1>2, <1>4, <1>6

LEMMA VMFoundKeeps ==
  ASSUME IInv, NEW v \in VMIDs, VMFound(v)
  PROVE  IInv'
<1>1. /\ TypeOK /\ ChosenStillLeast /\ Balanced
      /\ rows \in [VMIDs -> Rows] /\ req \in [Clients -> Requests]
  BY Types DEF IInv
<1>2. rows[v] = NoRow /\ rows' = [rows EXCEPT ![v] = Unmanaged] /\ UNCHANGED <<member, req, settled>>
  BY DEF VMFound
<1>3. Unmanaged \in Rows /\ (\A u : ~Owned(Unmanaged, u)) /\ (\A u : ~Owned(NoRow, u))
  BY DEF Rows, NoRow, Unmanaged, Owned
<1>4. \A d \in Clients : Follows(req'[d], req[d])
  BY <1>2 DEF Follows
<1>5. /\ settled' \in BOOLEAN /\ req' \in [Clients -> Requests]
      /\ \A d \in Clients : ~Owned(rows[v], req[d].owner) /\ ~Owned(Unmanaged, req[d].owner)
  BY <1>1, <1>2, <1>3 DEF TypeOK
<1>6. ASSUME settled'
      PROVE  ChosenStillLeast' /\ Balanced'
  <2>1. PICK r \in [VMIDs -> Rows] : r = rows
    BY <1>1
  <2>2. PICK s \in [VMIDs -> Rows] : s = rows'
    BY <1>2, <1>3, <2>1
  <2>3. s[v] = Unmanaged /\ r[v] = NoRow /\ \A w \in VMIDs \ {v} : s[w] = r[w]
    BY <1>2, <2>1, <2>2
  <2>4. (Level(r) => Level(s)) /\ \A n \in Nodes : Least(r, n) => Least(s, n)
    BY <2>3, FoundKeepsLevel
  <2>5. \A d \in Clients : req[d].op = "placed" => req[d].node \in Nodes
    BY <1>1, RequestKinds
  <2> QED BY <1>1, <1>2, <1>6, <2>1, <2>2, <2>4, <2>5, Levels
<1> QED BY <1>2, <1>3, <1>4, <1>5, <1>6, WriteKeeps

LEMMA LoginKeeps ==
  ASSUME IInv, NEW u \in Users, NEW gs \in Memberships, Login(u, gs)
  PROVE  /\ IInv'
         /\ \A c \in Clients : req[c] # NoRequest => req'[c] # NoRequest
<1>1. TypeOK /\ req \in [Clients -> Requests]
  BY Types DEF IInv
<1>2. /\ UNCHANGED <<rows, settled>> /\ member' = [member EXCEPT ![u] = gs]
      /\ req' = [c \in Clients |-> IF req[c] # NoRequest /\ req[c].owner = u
                               THEN [req[c] EXCEPT !.beside = TRUE] ELSE req[c]]
  BY DEF Login
<1>3. member' \in [Users -> Memberships] /\ \A w \in Users \ {u} : member'[w] = member[w]
  BY <1>1, <1>2 DEF TypeOK
<1>4. ASSUME NEW d \in Clients
      PROVE  /\ Follows(req'[d], req[d])
             /\ \/ req'[d] = NoRequest \/ req'[d].beside
                \/ member'[req[d].owner] = member[req[d].owner]
             /\ req[d] # NoRequest => req'[d] # NoRequest
  <2>1. CASE req[d] # NoRequest /\ req[d].owner = u
    <3>1. req'[d] = [req[d] EXCEPT !.beside = TRUE]
      BY <1>2, <2>1
    <3>2. req'[d].beside /\ req'[d] # NoRequest
      BY <1>1, <2>1, <3>1, Besides
    <3> QED BY <2>1, <3>1, <3>2 DEF Follows
  <2>2. CASE ~(req[d] # NoRequest /\ req[d].owner = u)
    <3>1. req'[d] = req[d]
      BY <1>2, <2>2
    <3>2. req[d] = NoRequest \/ req[d].owner \in Users \ {u}
      BY <1>1, <2>2, RequestKinds
    <3> QED BY <1>3, <3>1, <3>2 DEF Follows
  <2> QED BY <2>1, <2>2
<1>5. req' \in [Clients -> Requests]
  BY <1>1, <1>2, <1>4, Followed
<1>6. IInv'
  BY <1>2, <1>3, <1>4, <1>5, ReadKeeps
<1> QED BY <1>4, <1>6

--------------------------------------------------------------------------------
(* The inductive invariant.                                                *)

LEMMA InitEstablishes == Init => IInv
<1> SUFFICES ASSUME Init PROVE IInv
  OBVIOUS
<1>1. NoRow.known # "managed" /\ NoRequest.op = "idle"
  BY DEF NoRow, NoRequest
<1>2. \A v \in VMIDs : ~Managed(v)
  BY <1>1 DEF Init, Managed
<1>3. TypeOK
  BY DEF Init, TypeOK
<1>4. \A n : PlacedOn(n) = {}
  BY <1>2 DEF PlacedOn
<1> QED BY <1>1, <1>3, <1>4 DEF Init, IInv, Refers, StillFits, ChosenStillLeast, Balanced

LEMMA StutterKeeps ==
  ASSUME IInv, UNCHANGED vars
  PROVE  IInv'
<1>1. TypeOK /\ req \in [Clients -> Requests]
  BY Types DEF IInv
<1>2. UNCHANGED <<rows, settled>> /\ member' = member /\ req' = req
  BY DEF vars
<1>3. \A d \in Clients : Follows(req'[d], req[d]) /\ member'[req[d].owner] = member[req[d].owner]
  BY <1>2 DEF Follows
<1>4. member' \in [Users -> Memberships] /\ req' \in [Clients -> Requests]
  BY <1>1, <1>2 DEF TypeOK
<1> QED BY <1>2, <1>3, <1>4, ReadKeeps

LEMMA NextPreserves == IInv /\ [Next]_vars => IInv'
<1> SUFFICES ASSUME IInv, [Next]_vars PROVE IInv'
  OBVIOUS
<1>1. CASE UNCHANGED vars
  BY <1>1, StutterKeeps
<1>2. ASSUME NEW c \in Clients, NEW u \in Users, NEW size \in Sizes, LoadCreate(c, u, size)
      PROVE  IInv'
  BY <1>2, LoadCreateKeeps
<1>3. ASSUME NEW c \in Clients, NEW u \in Users, NEW size \in Sizes, NEW v \in VMIDs,
             LoadAdopt(c, v, u, size)
      PROVE  IInv'
  BY <1>3, LoadAdoptKeeps
<1>4. ASSUME NEW c \in Clients, NEW u \in Users, NEW size \in Sizes, NEW v \in VMIDs,
             LoadPatch(c, v, u, size)
      PROVE  IInv'
  BY <1>4, LoadPatchKeeps
<1>5. ASSUME NEW c \in Clients, NEW v \in VMIDs, LoadExempt(c, v)
      PROVE  IInv'
  BY <1>5, LoadExemptKeeps
<1>6. ASSUME NEW c \in Clients, PlaceVM(c)
      PROVE  IInv'
  BY <1>6, PlaceVMKeeps
<1>7. ASSUME NEW c \in Clients, CommitCreate(c)
      PROVE  IInv'
  BY <1>7, CommitCreateKeeps
<1>8. ASSUME NEW c \in Clients, CommitAdopt(c) \/ CommitPatch(c) \/ CommitExempt(c)
      PROVE  IInv'
  BY <1>8, ChangeKeeps
<1>9. ASSUME NEW c \in Clients, RequestFails(c)
      PROVE  IInv'
  BY <1>9, RequestFailsKeeps
<1>10. ASSUME NEW v \in VMIDs, RowDeleted(v)
       PROVE  IInv'
  BY <1>10, RowDeletedKeeps
<1>11. ASSUME NEW v \in VMIDs, VMFound(v)
       PROVE  IInv'
  BY <1>11, VMFoundKeeps
<1>12. ASSUME NEW u \in Users, NEW gs \in Memberships, Login(u, gs)
       PROVE  IInv'
  BY <1>12, LoginKeeps
<1> QED BY <1>1, <1>2, <1>3, <1>4, <1>5, <1>6, <1>7, <1>8, <1>9, <1>10, <1>11, <1>12 DEF Next

\* The inductive invariant, whatever the nodes, the limits, the sizes and the
\* number of requests in flight (handleCreateVM, handlePatchVM,
\* handleAdminAdoptVM, handleAdminSetQuotaExempt, the worker).
THEOREM Invariance == Spec => []IInv
  BY InitEstablishes, NextPreserves, PTL DEF Spec

\* The rows, the groups and the requests are what they should be.
THEOREM TypeCorrect == Spec => []TypeOK
<1>1. IInv => TypeOK
  BY DEF IInv
<1> QED BY <1>1, Invariance, PTL

\* Creations, as long as they alone change the table and are placed one at a
\* time, keep the nodes level (choosePlacementNode).
THEOREM BalancedHolds == Spec => []Balanced
<1>1. IInv => Balanced
  BY DEF IInv
<1> QED BY <1>1, Invariance, PTL

--------------------------------------------------------------------------------
(* Quotas.                                                                 *)

\* u exceeds his quota by no more than he did.
NoFurther(u) ==
  \A k \in Exceeded(u)' : (UsageOf(CountedVMs(u))[k])' <= UsageOf(CountedVMs(u))[k]

AtMost(a, b) ==
  /\ a.number <= b.number /\ a.cpu <= b.cpu
  /\ a.memory <= b.memory /\ a.storage <= b.storage

LEMMA Enough ==
  ASSUME TypeOK, TypeOK', NEW u \in Users,
         \/ Fits(UsageBy(rows', u), EffectiveUserLimit(member'[u]))
         \/ AtMost(UsageBy(rows', u), UsageBy(rows, u))
  PROVE  NoFurther(u)
<1>1. PICK a \in Quota : a = UsageBy(rows, u)
  BY Types, UsageByType
<1>2. PICK b \in Quota : b = UsageBy(rows', u)
  <2>1. rows' \in [VMIDs -> Rows]
    BY DEF TypeOK, Rows
  <2> QED BY <2>1, UsageByType
<1>3. PICK q \in Quota : q = EffectiveUserLimit(member'[u])
  <2>1. member'[u] \in SUBSET Groups
    BY MemberAssumption DEF TypeOK, Groups
  <2> QED BY <2>1, LimitsType
<1>4. UsageOf(CountedVMs(u)) = a /\ UsageOf(CountedVMs(u))' = b /\ EffectiveQuota(u)' = q
  BY <1>1, <1>2, <1>3, Usages DEF EffectiveQuota
<1>5. ASSUME NEW k \in {"number", "cpu", "memory", "storage"}, b[k] > q[k]
      PROVE  b[k] <= a[k]
  BY <1>1, <1>2, <1>3, <1>5 DEF Fits, AtMost, Quota
<1> QED BY <1>4, <1>5 DEF NoFurther, Exceeded

\* Of the row that is written all that matters is whether it counts, and
\* whether the owner's VMs with it were found to fit.
LEMMA WriteWithin ==
  ASSUME TypeOK, TypeOK', NEW v \in VMIDs, NEW row \in Rows, rows' = [rows EXCEPT ![v] = row],
         member' = member, NEW u \in Users,
         Counts(row, u) =>
           \/ Counts(rows[v], u) /\ rows[v].size = row.size
           \/ ~Counts(rows[v], u) /\ Fits(With(UsageBy(rows, u), row.size), EffectiveUserLimit(member[u]))
           \/ Counts(rows[v], u) /\ Fits(With(Less(UsageBy(rows, u), rows[v].size), row.size),
                                          EffectiveUserLimit(member[u]))
  PROVE  NoFurther(u)
<1>1. PICK r \in [VMIDs -> Rows] : r = rows
  BY Types
<1>2. PICK s \in [VMIDs -> Rows] : s = rows'
  BY <1>1
<1>3. s[v] = row /\ \A w \in VMIDs \ {v} : s[w] = r[w]
  BY <1>1, <1>2
<1>4. PICK base \in Quota :
           /\ UsageBy(r, u) = IF Counts(r[v], u) THEN With(base, r[v].size) ELSE base
           /\ UsageBy(s, u) = IF Counts(s[v], u) THEN With(base, s[v].size) ELSE base
  BY <1>3, UsageByAfter
<1>5. AtMost(base, base) /\ \A size \in Sizes : AtMost(base, With(base, size))
  BY SizeFields DEF AtMost, Quota, With
<1>6. Counts(r[v], u) => r[v].size \in Sizes
  BY <1>1, RowKinds DEF Counts, Owned
<1>7. Counts(row, u) => row.size \in Sizes
  BY RowKinds DEF Counts, Owned
<1>8. CASE ~Counts(row, u)
  <2>1. UsageBy(s, u) = base
    BY <1>3, <1>4, <1>8
  <2>2. AtMost(UsageBy(s, u), UsageBy(r, u))
    BY <1>4, <1>5, <1>6, <2>1
  <2> QED BY <1>1, <1>2, <2>2, Enough
<1>9. CASE Counts(row, u) /\ Counts(r[v], u) /\ r[v].size = row.size
  <2>1. UsageBy(s, u) = UsageBy(r, u)
    BY <1>3, <1>4, <1>9
  <2>2. UsageBy(r, u) \in Quota
    BY UsageByType
  <2>3. AtMost(UsageBy(s, u), UsageBy(r, u))
    BY <2>1, <2>2 DEF AtMost, Quota
  <2> QED BY <1>1, <1>2, <2>3, Enough
<1>10. CASE /\ Counts(row, u) /\ ~Counts(r[v], u)
            /\ Fits(With(UsageBy(r, u), row.size), EffectiveUserLimit(member[u]))
  <2>1. UsageBy(s, u) = With(UsageBy(r, u), row.size)
    BY <1>3, <1>4, <1>10
  <2> QED BY <1>1, <1>2, <1>10, <2>1, Enough
<1>11. CASE /\ Counts(row, u) /\ Counts(r[v], u)
            /\ Fits(With(Less(UsageBy(r, u), r[v].size), row.size), EffectiveUserLimit(member[u]))
  <2>1. Less(With(base, r[v].size), r[v].size) = base
    <3>1. PICK x, y, z \in Nat : x = r[v].size.cpu /\ y = r[v].size.memory /\ z = r[v].size.disk
      BY <1>6, <1>11, SizeFields
    <3>2. PICK a, b, d, e \in Nat : base = [number |-> a, cpu |-> b, memory |-> d, storage |-> e]
      BY DEF Quota
    <3> QED BY <3>1, <3>2 DEF With, Less
  <2>2. UsageBy(s, u) = With(Less(UsageBy(r, u), r[v].size), row.size)
    BY <1>3, <1>4, <1>11, <2>1
  <2> QED BY <1>1, <1>2, <1>11, <2>2, Enough
<1> QED BY <1>1, <1>8, <1>9, <1>10, <1>11

LEMMA NothingWritten ==
  ASSUME TypeOK, TypeOK', rows' = rows, NEW u \in Users
  PROVE  NoFurther(u)
<1>1. UsageBy(rows, u) \in Quota
  BY Types, UsageByType
<1>2. AtMost(UsageBy(rows', u), UsageBy(rows, u))
  BY <1>1 DEF AtMost, Quota
<1> QED BY <1>2, Enough

\* c's request ends, its figures good, and it is of a kind that keeps quotas.
Vouched(c) == Commits(c) /\ ~req[c].beside /\ ~Transfers(c) /\ ~Unexempts(c)

\* No request but the one that writes ends.
LEMMA WriterEnds ==
  ASSUME TypeOK, NEW c \in Clients, NEW d \in Clients, NEW v \in VMIDs, NEW row \in Row,
         Writes(d, v, row), Commits(c)
  PROVE  c = d /\ rows' = [rows EXCEPT ![v] = row] /\ member' = member
<1>1. row \in Rows
  BY DEF Rows
<1>2. /\ rows' = [rows EXCEPT ![v] = row] /\ member' = member
      /\ \A e \in Clients \ {d} : req'[e] = NoRequest => req[e] = NoRequest
  BY <1>1, Written
<1> QED BY <1>2 DEF Commits

LEMMA CreateVouched ==
  ASSUME IInv, TypeOK', NEW c \in Clients, NEW d \in Clients, CommitCreate(d), Vouched(c), NEW u \in Users
  PROVE  NoFurther(u)
<1>1. TypeOK /\ StillFits
  BY DEF IInv
<1>2. PICK q \in Requests : q = req[d] /\ q.op = "placed" /\ rows[q.v] = NoRow
  BY <1>1, Types DEF CommitCreate
<1>3. PICK v \in VMIDs : v = q.v
  BY <1>2, RequestKinds
<1>4. PICK row \in Row : /\ row = [known |-> "managed", owner |-> q.owner, exempt |-> FALSE,
                                   size |-> q.size, node |-> q.node]
                         /\ Writes(d, v, row)
  <2>1. q \in Placed
    BY <1>2, RequestKinds
  <2> QED BY <1>2, <1>3, <2>1 DEF CommitCreate, Placed, Row
<1>5. c = d /\ rows' = [rows EXCEPT ![v] = row] /\ member' = member
  BY <1>1, <1>4, WriterEnds DEF Vouched
<1>6. q # NoRequest /\ ~q.beside
  BY <1>2, <1>5 DEF Vouched, Commits
<1>7. Good(q, rows, member)
  BY <1>1, <1>2, Figures
<1>8. Fits(With(UsageBy(rows, q.owner), q.size), EffectiveUserLimit(member[q.owner]))
  BY <1>2, <1>6, <1>7 DEF Good
<1>9. row \in Rows /\ row.size = q.size /\ (Counts(row, u) => u = q.owner)
  BY <1>4 DEF Rows, Counts, Owned
<1>10. ~Counts(rows[v], u)
  BY <1>2, <1>3 DEF Counts, Owned, NoRow
<1> QED BY <1>1, <1>5, <1>8, <1>9, <1>10, WriteWithin

LEMMA ChangeVouched ==
  ASSUME IInv, TypeOK', NEW c \in Clients, NEW d \in Clients,
         CommitAdopt(d) \/ CommitPatch(d) \/ CommitExempt(d), Vouched(c), NEW u \in Users
  PROVE  NoFurther(u)
<1>1. TypeOK /\ Refers /\ StillFits
  BY DEF IInv
<1>2. PICK v \in VMIDs, row \in Row :
           /\ Writes(d, v, row) /\ v = req[d].v /\ settled' = FALSE
           /\ CommitAdopt(d) => row.owner = req[d].owner /\ row.size = req[d].size /\ ~row.exempt
           /\ CommitPatch(d) => /\ row.owner = req[d].owner /\ row.size = req[d].size
                                /\ row.exempt = req[d].exempt
           /\ CommitExempt(d) => /\ row.owner = rows[v].owner /\ row.size = req[d].size
                                 /\ row.exempt = req[d].exempt
  BY Changed
<1>3. c = d /\ rows' = [rows EXCEPT ![v] = row] /\ member' = member
  BY <1>1, <1>2, WriterEnds DEF Vouched
<1>4. PICK q \in Requests : q = req[c]
  BY <1>1, Types
<1>5. q # NoRequest /\ ~q.beside /\ q.v = v /\ row \in Rows
  BY <1>2, <1>3, <1>4 DEF Vouched, Commits, Rows
<1>6. Good(q, rows, member)
  BY <1>1, <1>4, Figures
<1>7. CASE CommitAdopt(d)
  <2>1. q.op = "adopt"
    BY <1>3, <1>4, <1>7 DEF CommitAdopt
  <2>2. /\ Fits(With(UsageBy(rows, q.owner), q.size), EffectiveUserLimit(member[q.owner]))
        /\ ~Owned(rows[v], q.owner)
    BY <1>5, <1>6, <2>1 DEF Good
  <2>3. Counts(row, u) => u = q.owner /\ row.size = q.size /\ ~Counts(rows[v], u)
    BY <1>2, <1>3, <1>4, <1>7, <2>2 DEF Counts, Owned
  <2> QED BY <1>1, <1>3, <1>5, <2>2, <2>3, WriteWithin
<1>8. CASE CommitPatch(d)
  <2>1. q.op = "patch" /\ rows[v].owner = q.owner /\ Managed(v)
    BY <1>1, <1>3, <1>4, <1>5, <1>8 DEF CommitPatch, Vouched, Transfers, Refers
  <2>2. /\ rows[v].exempt = q.exempt
        /\ \/ q.exempt \/ rows[v].size = q.size
           \/ Fits(With(Less(UsageBy(rows, q.owner), rows[v].size), q.size),
                   EffectiveUserLimit(member[q.owner]))
    BY <1>5, <1>6, <2>1 DEF Good
  <2>3. Counts(row, u) => u = q.owner /\ row.size = q.size /\ ~q.exempt /\ Counts(rows[v], u)
    BY <1>2, <1>3, <1>4, <1>8, <2>1, <2>2 DEF Counts, Owned, Managed
  <2> QED BY <1>1, <1>3, <1>5, <2>2, <2>3, WriteWithin
<1>9. CASE CommitExempt(d)
  <2>1. ~Counts(row, u)
    BY <1>2, <1>3, <1>9 DEF CommitExempt, Vouched, Unexempts, Counts
  <2> QED BY <1>1, <1>3, <1>5, <2>1, WriteWithin
<1> QED BY <1>7, <1>8, <1>9

LEMMA DeletionVouched ==
  ASSUME IInv, TypeOK', NEW v \in VMIDs, RowDeleted(v), NEW u \in Users
  PROVE  NoFurther(u)
<1>1. TypeOK /\ rows' = [rows EXCEPT ![v] = NoRow] /\ member' = member
  BY RowDeletedKeeps DEF IInv
<1>2. NoRow \in Rows /\ ~Counts(NoRow, u)
  BY DEF Rows, NoRow, Counts, Owned
<1> QED BY <1>1, <1>2, WriteWithin

\* Nobody comes to exceed his quota, or exceeds it further, by a request whose
\* figures were still good when it wrote, for any quotas, sizes and number of
\* requests in flight; but for a change of owner and the end of an exemption
\* (handleCreateVM, handlePatchVM, handleAdminAdoptVM, listUserVMUsage).
THEOREM QuotaRespectedHolds == Spec => QuotaRespected
<1> DEFINE Kept ==
       \A u \in Users, c \in Clients :
         Commits(c) /\ ~req[c].beside /\ ~Transfers(c) /\ ~Unexempts(c) =>
           \A k \in Exceeded(u)' :
             (UsageOf(CountedVMs(u))[k])' <= UsageOf(CountedVMs(u))[k]
<1>1. IInv /\ [Next]_vars => [Kept]_vars
  <2> SUFFICES ASSUME IInv, Next, NEW u \in Users, NEW c \in Clients, Vouched(c)
               PROVE  NoFurther(u)
    BY DEF Vouched, NoFurther
  <2>1. TypeOK /\ TypeOK' /\ Commits(c)
    BY NextPreserves DEF IInv, Vouched
  <2>2. CASE rows' = rows
    BY <2>1, <2>2, NothingWritten
  <2>3. ASSUME NEW d \in Clients, CommitCreate(d)
        PROVE  NoFurther(u)
    BY <2>1, <2>3, CreateVouched
  <2>4. ASSUME NEW d \in Clients, CommitAdopt(d) \/ CommitPatch(d) \/ CommitExempt(d)
        PROVE  NoFurther(u)
    BY <2>1, <2>4, ChangeVouched
  <2>5. ASSUME NEW v \in VMIDs, RowDeleted(v)
        PROVE  NoFurther(u)
    BY <2>1, <2>5, DeletionVouched
  <2>6. ASSUME NEW v \in VMIDs, VMFound(v)
        PROVE  FALSE
    BY <2>1, <2>6 DEF VMFound, Commits
  <2>7. ASSUME rows' # rows
        PROVE  \/ \E d \in Clients : \/ CommitCreate(d) \/ CommitAdopt(d) \/ CommitPatch(d)
                                     \/ CommitExempt(d)
               \/ \E v \in VMIDs : RowDeleted(v) \/ VMFound(v)
    BY <2>7 DEF Next, LoadCreate, LoadAdopt, LoadPatch, LoadExempt, PlaceVM, RequestFails, Login, Begins
  <2> QED BY <2>2, <2>3, <2>4, <2>5, <2>6, <2>7
<1> QED BY <1>1, Invariance, PTL DEF Spec, QuotaRespected
================================================================================
