-------------------------- MODULE SecurityGroupsProofs --------------------------
(***************************************************************************)
(* Proofs about SecurityGroups, for every number of requests in flight:    *)
(* types and the progress of EnsureFirewall, groups that are kept, copies  *)
(* that are good and firewalls that are as asked.                          *)
(***************************************************************************)
EXTENDS SecurityGroups, SequenceTheorems, TLAPS

--------------------------------------------------------------------------------
(* Lists of positions and rules.                                           *)

\* The positions of n rules, the last one first.
LEMMA DeleteOrderTail ==
  ASSUME NEW n \in Nat
  PROVE  /\ DeleteOrder(n) \in Seq(Nat)
         /\ DeleteOrder(n) = <<>> <=> n = 0
         /\ n # 0 => Head(DeleteOrder(n)) = n /\ Tail(DeleteOrder(n)) = DeleteOrder(n - 1)
<1>1. DeleteOrder(n) \in Seq(Nat) /\ Len(DeleteOrder(n)) = n
  BY DEF DeleteOrder
<1>2. DeleteOrder(n) = <<>> <=> n = 0
  BY <1>1, EmptySeq
<1>3. ASSUME n # 0
      PROVE  Head(DeleteOrder(n)) = n /\ Tail(DeleteOrder(n)) = DeleteOrder(n - 1)
  <2>1. Head(DeleteOrder(n)) = n
    BY <1>3, <1>1, <1>2 DEF DeleteOrder
  <2>2. /\ Tail(DeleteOrder(n)) \in Seq(Nat) /\ Len(Tail(DeleteOrder(n))) = n - 1
        /\ \A i \in 1 .. n - 1 : Tail(DeleteOrder(n))[i] = DeleteOrder(n)[i + 1]
    BY <1>3, <1>1, <1>2, HeadTailProperties
  <2>3. DeleteOrder(n - 1) \in Seq(Nat) /\ Len(DeleteOrder(n - 1)) = n - 1
    BY <1>3 DEF DeleteOrder
  <2>4. \A i \in 1 .. n - 1 : DeleteOrder(n)[i + 1] = DeleteOrder(n - 1)[i]
    BY <1>3 DEF DeleteOrder
  <2>5. Tail(DeleteOrder(n)) = DeleteOrder(n - 1)
    BY <2>2, <2>3, <2>4, SeqEqual
  <2> QED BY <2>1, <2>5
<1> QED BY <1>1, <1>2, <1>3

\* Without the last rule a list is one shorter.
LEMMA WithoutLast ==
  ASSUME NEW S, NEW s \in Seq(S), Len(s) # 0
  PROVE  Without(s, Len(s)) \in Seq(S) /\ Len(Without(s, Len(s))) = Len(s) - 1
<1>1. PICK n \in Nat : n = Len(s)
  OBVIOUS
<1>2. PICK m \in 0 .. Len(s) : m = n - 1
  BY <1>1
<1>3. SubSeq(s, 1, m) \in Seq(S) /\ Len(SubSeq(s, 1, m)) = m
  OBVIOUS
<1>4. SubSeq(s, n + 1, n) = <<>>
  BY SubSeqEmpty
<1>5. Without(s, n) = SubSeq(s, 1, m) \o <<>>
  BY <1>1, <1>2, <1>4 DEF Without
<1>6. Without(s, n) = SubSeq(s, 1, m)
  BY <1>3, <1>5, ConcatEmptySeq
<1> QED BY <1>1, <1>2, <1>3, <1>6

\* The first k rules of a list are there, those that follow are to be added.
ToAdd(k, n) == [i \in 1 .. n - k |-> k + i]

LEMMA AddNext ==
  ASSUME NEW S, NEW s \in Seq(S), NEW k \in 0 .. Len(s)
  PROVE  /\ ToAdd(k, Len(s)) \in Seq(Nat)
         /\ ToAdd(k, Len(s)) = <<>> <=> k = Len(s)
         /\ k # Len(s) =>
              /\ k + 1 \in 1 .. Len(s)
              /\ Head(ToAdd(k, Len(s))) = k + 1
              /\ Tail(ToAdd(k, Len(s))) = ToAdd(k + 1, Len(s))
              /\ Append(SubSeq(s, 1, k), s[k + 1]) = SubSeq(s, 1, k + 1)
<1> DEFINE n == Len(s)
<1>0. n \in Nat /\ k \in Nat /\ k <= n
  OBVIOUS
<1>1. ToAdd(k, n) \in Seq(Nat) /\ Len(ToAdd(k, n)) = n - k
  BY <1>0 DEF ToAdd
<1>2. ToAdd(k, n) = <<>> <=> k = n
  BY <1>0, <1>1, EmptySeq
<1>3. ASSUME k # n
      PROVE  /\ k + 1 \in 1 .. n
             /\ Head(ToAdd(k, n)) = k + 1
             /\ Tail(ToAdd(k, n)) = ToAdd(k + 1, n)
             /\ Append(SubSeq(s, 1, k), s[k + 1]) = SubSeq(s, 1, k + 1)
  <2>1. k + 1 \in 1 .. n
    BY <1>0, <1>3
  <2>2. Head(ToAdd(k, n)) = k + 1
    <3>1. 1 \in 1 .. n - k
      BY <1>0, <1>3
    <3>2. ToAdd(k, n)[1] = k + 1
      BY <3>1 DEF ToAdd
    <3>3. Head(ToAdd(k, n)) = ToAdd(k, n)[1]
      BY <1>1
    <3> QED BY <3>2, <3>3
  <2>3. /\ Tail(ToAdd(k, n)) \in Seq(Nat) /\ Len(Tail(ToAdd(k, n))) = n - k - 1
        /\ \A i \in 1 .. n - k - 1 : Tail(ToAdd(k, n))[i] = ToAdd(k, n)[i + 1]
    BY <1>0, <1>1, <1>2, <1>3, HeadTailProperties
  <2>4. ToAdd(k + 1, n) \in Seq(Nat) /\ Len(ToAdd(k + 1, n)) = n - k - 1
    BY <1>0, <1>3 DEF ToAdd
  <2>5. \A i \in 1 .. n - k - 1 : ToAdd(k, n)[i + 1] = ToAdd(k + 1, n)[i]
    BY <1>0, <1>3 DEF ToAdd
  <2>6. Tail(ToAdd(k, n)) = ToAdd(k + 1, n)
    BY <2>3, <2>4, <2>5, SeqEqual
  <2>7. SubSeq(s, 1, k + 1) = SubSeq(s, 1, k) \o <<s[k + 1]>>
    <3>1. 1 \in 1 .. Len(s) /\ k + 1 \in 1 .. Len(s) /\ (k + 1) - 1 = k
      BY <1>0, <2>1
    <3>2. SubSeq(s, 1, k + 1) = SubSeq(s, 1, (k + 1) - 1) \o <<s[k + 1]>>
      BY <3>1, SubSeqRecursiveSecond
    <3> QED BY <3>1, <3>2
  <2>8. SubSeq(s, 1, k) \in Seq(S) /\ s[k + 1] \in S
    BY <1>0, <2>1
  <2>9. Append(SubSeq(s, 1, k), s[k + 1]) = SubSeq(s, 1, k) \o <<s[k + 1]>>
    BY <2>8, AppendIsConcat
  <2> QED BY <2>1, <2>2, <2>6, <2>7, <2>9
<1> QED BY <1>1, <1>2, <1>3

\* No rule of the list is there yet.
LEMMA AddFirst ==
  ASSUME NEW S, NEW s \in Seq(S)
  PROVE  /\ [i \in DOMAIN s |-> i] = ToAdd(0, Len(s))
         /\ <<>> = SubSeq(s, 1, 0)
<1>1. DOMAIN s = 1 .. Len(s) /\ Len(s) \in Nat
  OBVIOUS
<1>2. [i \in DOMAIN s |-> i] = ToAdd(0, Len(s))
  BY <1>1 DEF ToAdd
<1>3. SubSeq(s, 1, 0) = <<>>
  BY SubSeqEmpty
<1> QED BY <1>2, <1>3

--------------------------------------------------------------------------------
(* Types, and how far the firewall in hand has come.                       *)

FwOK ==
  /\ pve \in [VMs -> Firewall]
  /\ wpc \in Working \union {"idle"}
  /\ job \in Job \union {NoJob} /\ (job = NoJob <=> wpc = "idle")
  /\ todo \in Seq(Nat)

DbOK ==
  /\ groups \in [Keys -> Contents \union {None}]
  /\ row \in [VMs -> Row \union {NoRow, Unmanaged}]
  /\ open \subseteq VMs
  /\ req \in [Clients -> Request \union {NoRequest}]
  /\ overtaken \subseteq VMs

LEMMA Typed == TypeOK <=> FwOK /\ DbOK /\ crossed \subseteq VMs
  BY DEF TypeOK, FwOK, DbOK

LEMMA NoJobIsNone == \A j \in Job : j # NoJob
  BY DEF Job, NoJob

\* The task in hand.
LEMMA JobInHand ==
  ASSUME FwOK, wpc # "idle"
  PROVE  /\ job \in Job
         /\ job.v \in VMs
         /\ pve[job.v] \in Firewall
<1>1. job \in Job
  BY DEF FwOK
<1> QED BY <1>1 DEF FwOK, Job

\* What the group held when the firewall was begun.
LEMMA ContentInHand ==
  ASSUME FwOK, Progress, wpc \notin {"idle", "picked"}
  PROVE  /\ job.content \in Content
         /\ job.content # None
         /\ job.content.rules \in Seq(Rules) /\ job.content.rules \in RuleSeq
<1>1. job \in Job
  BY JobInHand
<1>2. job.content # None
  BY DEF Progress
<1>3. job.content \in Content
  BY <1>1, <1>2, ContentAssumption DEF Job
<1>4. job.content.rules \in Seq(Rules)
  BY <1>3 DEF Content
<1>5. job.content.rules \in Seq(Rules \union {Uestc})
  BY <1>4, SeqMonotonic
<1> QED BY <1>2, <1>3, <1>4, <1>5 DEF RuleSeq

\* A request changes the firewall of the VM in hand only.
LEMMA SetsFirewall ==
  ASSUME FwOK, wpc # "idle", NEW f \in Firewall, Sets(f)
  PROVE  /\ pve' \in [VMs -> Firewall]
         /\ pve'[job.v] = f
         /\ \A v \in VMs : v # job.v => pve'[v] = pve[v]
<1>1. job.v \in VMs
  BY JobInHand
<1> QED BY <1>1 DEF FwOK, Sets

\* What a request may change of a firewall.
LEMMA FirewallWith ==
  ASSUME NEW f \in Firewall
  PROVE  /\ \A r \in RuleSeq : LET g == [f EXCEPT !.rules = r]
                              IN /\ g \in Firewall
                                 /\ g = [rules |-> r, policy |-> f.policy, ipset |-> f.ipset]
         /\ \A p \in Policies : LET g == [f EXCEPT !.policy = p]
                               IN /\ g \in Firewall
                                  /\ g = [rules |-> f.rules, policy |-> p, ipset |-> f.ipset]
  BY DEF Firewall

LEMMA DeleteRuleKeeps ==
  ASSUME FwOK, Progress, DeleteRule
  PROVE  FwOK' /\ Progress'
<1>1. /\ wpc = "clear" /\ wpc' = "clear" /\ job' = job
      /\ todo # <<>> /\ todo' = Tail(todo)
  BY DEF DeleteRule
<1>2. job.v \in VMs /\ pve[job.v] \in Firewall
  BY <1>1, JobInHand
<1>3. PICK n \in Nat : n = Len(pve[job.v].rules)
  BY <1>2 DEF Firewall, RuleSeq
<1>4. todo = DeleteOrder(n) /\ job.content # None
  BY <1>1, <1>3 DEF Progress
<1>5. n # 0 /\ Head(todo) = n /\ todo' = DeleteOrder(n - 1) /\ n - 1 \in Nat
  <2>1. /\ DeleteOrder(n) = <<>> <=> n = 0
        /\ n # 0 => Head(DeleteOrder(n)) = n /\ Tail(DeleteOrder(n)) = DeleteOrder(n - 1)
    BY DeleteOrderTail
  <2> QED BY <1>1, <1>4, <2>1
<1>6. todo' \in Seq(Nat)
  BY <1>5, DeleteOrderTail
<1>7. PICK rules \in RuleSeq : rules = Without(pve[job.v].rules, n) /\ Len(rules) = n - 1
  BY <1>2, <1>3, <1>5, WithoutLast DEF Firewall, RuleSeq
<1>8. PICK f \in Firewall : f = [pve[job.v] EXCEPT !.rules = rules] /\ f.rules = rules
  <2>1. [pve[job.v] EXCEPT !.rules = rules] \in Firewall
    BY <1>2, FirewallWith, Zenon
  <2>2. [pve[job.v] EXCEPT !.rules = rules].rules = rules
    BY <1>2 DEF Firewall
  <2> QED BY <2>1, <2>2
<1>9. Sets(f)
  BY <1>5, <1>7, <1>8 DEF DeleteRule
<1>10. pve' \in [VMs -> Firewall] /\ pve'[job.v] = f
  BY <1>1, <1>9, SetsFirewall
<1>11. FwOK'
  BY <1>1, <1>6, <1>10 DEF FwOK
<1>12. Progress'
  BY <1>1, <1>4, <1>5, <1>7, <1>8, <1>10 DEF Progress
<1> QED BY <1>11, <1>12

LEMMA RulesClearedKeeps ==
  ASSUME FwOK, Progress, RulesCleared
  PROVE  FwOK' /\ Progress'
<1>1. /\ wpc = "clear" /\ wpc' = "add" /\ job' = job /\ pve' = pve
      /\ todo = <<>> /\ todo' = [i \in DOMAIN job.content.rules |-> i]
  BY DEF RulesCleared, Goto
<1>2. job.v \in VMs /\ pve[job.v] \in Firewall
  BY <1>1, JobInHand
<1>3. PICK rules \in Seq(Rules) : rules = job.content.rules
  BY <1>1, ContentInHand
<1>4. todo' = ToAdd(0, Len(rules)) /\ SubSeq(rules, 1, 0) = <<>>
  BY <1>1, <1>3, AddFirst
<1>5. todo' \in Seq(Nat) /\ 0 \in 0 .. Len(rules)
  <2>1. 0 \in 0 .. Len(rules)
    OBVIOUS
  <2> QED BY <1>4, <2>1, AddNext
<1>6. pve[job.v].rules = <<>>
  <2>1. PICK n \in Nat : n = Len(pve[job.v].rules)
    BY <1>2 DEF Firewall, RuleSeq
  <2>2. n = 0
    BY <1>1, <2>1, DeleteOrderTail DEF Progress
  <2> QED BY <1>2, <2>1, <2>2, EmptySeq DEF Firewall, RuleSeq
<1>7. FwOK'
  BY <1>1, <1>5 DEF FwOK, Working
<1>8. \E k \in 0 .. Len(rules) : pve[job.v].rules = SubSeq(rules, 1, k)
                              /\ todo' = [i \in 1 .. Len(rules) - k |-> k + i]
  <2> WITNESS 0 \in 0 .. Len(rules)
  <2> QED BY <1>4, <1>6 DEF ToAdd
<1>9. Progress'
  BY <1>1, <1>3, <1>8 DEF Progress
<1> QED BY <1>7, <1>9

LEMMA AddRuleKeeps ==
  ASSUME FwOK, Progress, AddRule
  PROVE  FwOK' /\ Progress'
<1>1. /\ wpc = "add" /\ wpc' = "add" /\ job' = job
      /\ todo # <<>> /\ todo' = Tail(todo)
  BY DEF AddRule
<1>2. job.v \in VMs /\ pve[job.v] \in Firewall
  BY <1>1, JobInHand
<1>3. PICK rules \in Seq(Rules) : rules = job.content.rules
  BY <1>1, ContentInHand
<1>4. PICK k \in 0 .. Len(rules) : /\ pve[job.v].rules = SubSeq(rules, 1, k)
                                   /\ todo = [i \in 1 .. Len(rules) - k |-> k + i]
  BY <1>1, <1>3 DEF Progress
<1>5. todo = ToAdd(k, Len(rules))
  BY <1>4 DEF ToAdd
<1>6. /\ k + 1 \in 1 .. Len(rules) /\ Head(todo) = k + 1
      /\ todo' = ToAdd(k + 1, Len(rules))
      /\ Append(SubSeq(rules, 1, k), rules[k + 1]) = SubSeq(rules, 1, k + 1)
  BY <1>1, <1>5, AddNext
<1>7. PICK m \in 0 .. Len(rules) : m = k + 1
  BY <1>6
<1>8. todo' \in Seq(Nat)
  BY <1>6, <1>7, AddNext
<1>9. PICK more \in RuleSeq : more = SubSeq(rules, 1, m)
  <2>1. SubSeq(rules, 1, m) \in Seq(Rules)
    OBVIOUS
  <2> QED BY <2>1, SeqMonotonic DEF RuleSeq
<1>10. PICK f \in Firewall : f = [pve[job.v] EXCEPT !.rules = more] /\ f.rules = more
  <2>1. [pve[job.v] EXCEPT !.rules = more] \in Firewall
    BY <1>2, FirewallWith, Zenon
  <2>2. [pve[job.v] EXCEPT !.rules = more].rules = more
    BY <1>2 DEF Firewall
  <2> QED BY <2>1, <2>2
<1>11. Append(pve[job.v].rules, job.content.rules[Head(todo)]) = more
  BY <1>3, <1>4, <1>6, <1>7, <1>9
<1>12. Sets(f)
  BY <1>10, <1>11 DEF AddRule
<1>13. pve' \in [VMs -> Firewall] /\ pve'[job.v] = f
  BY <1>1, <1>12, SetsFirewall
<1>14. FwOK'
  BY <1>1, <1>8, <1>13 DEF FwOK
<1>15. \E j \in 0 .. Len(rules) : pve'[job.v].rules = SubSeq(rules, 1, j)
                               /\ todo' = [i \in 1 .. Len(rules) - j |-> j + i]
  <2> WITNESS m \in 0 .. Len(rules)
  <2> QED BY <1>6, <1>7, <1>9, <1>10, <1>13 DEF ToAdd
<1>16. Progress'
  BY <1>1, <1>3, <1>15, ContentInHand DEF Progress
<1> QED BY <1>14, <1>16

LEMMA SetOptionsKeeps ==
  ASSUME FwOK, Progress, SetOptions
  PROVE  FwOK' /\ Progress'
<1>1. /\ wpc = "add" /\ wpc' = "ipset" /\ job' = job
      /\ todo = <<>> /\ todo' = todo
  BY DEF SetOptions, Goto
<1>2. job.v \in VMs /\ pve[job.v] \in Firewall
  BY <1>1, JobInHand
<1>3. job.content \in Content /\ job.content # None
  BY <1>1, ContentInHand
<1>4. PICK rules \in Seq(Rules) : rules = job.content.rules
  BY <1>1, ContentInHand
<1>5. PICK k \in 0 .. Len(rules) : /\ pve[job.v].rules = SubSeq(rules, 1, k)
                                   /\ todo = [i \in 1 .. Len(rules) - k |-> k + i]
  BY <1>1, <1>4 DEF Progress
<1>6. k = Len(rules)
  BY <1>1, <1>5, AddNext DEF ToAdd
<1>7. pve[job.v].rules = rules
  BY <1>5, <1>6, SubSeqFull
<1>8. PICK f \in Firewall : /\ f = [pve[job.v] EXCEPT !.policy = job.content.policy]
                            /\ f.rules = rules /\ f.policy = job.content.policy
  <2>1. job.content.policy \in Policies
    BY <1>3 DEF Content
  <2>2. [pve[job.v] EXCEPT !.policy = job.content.policy] \in Firewall
    BY <1>2, <2>1, FirewallWith, Zenon
  <2>3. LET g == [pve[job.v] EXCEPT !.policy = job.content.policy]
        IN g.rules = rules /\ g.policy = job.content.policy
    BY <1>2, <1>7 DEF Firewall
  <2> QED BY <2>2, <2>3
<1>9. Sets(f)
  BY <1>8 DEF SetOptions
<1>10. pve' \in [VMs -> Firewall] /\ pve'[job.v] = f
  BY <1>1, <1>9, SetsFirewall
<1>11. FwOK'
  BY <1>1, <1>10 DEF FwOK, Working
<1>12. Progress'
  BY <1>1, <1>3, <1>4, <1>8, <1>10 DEF Progress
<1> QED BY <1>11, <1>12

\* Only the set of addresses changes.
LEMMA EntryKeeps ==
  ASSUME FwOK, Progress, wpc = "ipset", UNCHANGED <<wpc, job, todo>>,
         NEW set \in SUBSET CIDRs, NEW f, f = [pve[job.v] EXCEPT !.ipset = set], Sets(f)
  PROVE  FwOK' /\ Progress'
<1>1. job.v \in VMs /\ pve[job.v] \in Firewall
  BY JobInHand
<1>2. f \in Firewall /\ f.rules = pve[job.v].rules /\ f.policy = pve[job.v].policy
  BY <1>1 DEF Firewall
<1>3. pve' \in [VMs -> Firewall] /\ pve'[job.v] = f
  BY <1>2, SetsFirewall
<1>4. FwOK'
  BY <1>3 DEF FwOK
<1>5. Progress'
  BY <1>2, <1>3 DEF Progress
<1> QED BY <1>4, <1>5

LEMMA EntriesKeep ==
  ASSUME FwOK, Progress, AddEntry \/ DeleteEntry
  PROVE  FwOK' /\ Progress'
<1>1. wpc = "ipset" /\ UNCHANGED <<wpc, job, todo>>
  BY DEF AddEntry, DeleteEntry
<1>2. job \in Job /\ job.v \in VMs /\ pve[job.v] \in Firewall
  BY <1>1, JobInHand
<1>3. CASE AddEntry
  <2>1. PICK e \in MissingEntries : Sets([pve[job.v] EXCEPT !.ipset = @ \union {e}])
    BY <1>3 DEF AddEntry
  <2>2. e \in CIDRs
    BY <1>2, <2>1 DEF MissingEntries, Wanted, CIDRs, Job
  <2>3. PICK set \in SUBSET CIDRs : set = pve[job.v].ipset \union {e}
    BY <1>2, <2>2 DEF Firewall
  <2>4. Sets([pve[job.v] EXCEPT !.ipset = set])
    BY <2>1, <2>3
  <2> QED BY <1>1, <2>4, EntryKeeps
<1>4. CASE DeleteEntry
  <2>1. PICK e \in ExcessEntries : Sets([pve[job.v] EXCEPT !.ipset = @ \ {e}])
    BY <1>4 DEF DeleteEntry
  <2>2. PICK set \in SUBSET CIDRs : set = pve[job.v].ipset \ {e}
    BY <1>2 DEF Firewall
  <2>3. Sets([pve[job.v] EXCEPT !.ipset = set])
    BY <2>1, <2>2
  <2> QED BY <1>1, <2>3, EntryKeeps
<1> QED BY <1>3, <1>4

LEMMA AddGroupRuleKeeps ==
  ASSUME FwOK, Progress, AddGroupRule
  PROVE  FwOK' /\ Progress'
<1>1. /\ wpc = "ipset" /\ wpc' = "mark" /\ job' = job /\ todo' = todo
      /\ MissingEntries = {} /\ ExcessEntries = {}
  BY DEF AddGroupRule, Goto
<1>2. job \in Job /\ job.v \in VMs /\ pve[job.v] \in Firewall
  BY <1>1, JobInHand
<1>3. job.content \in Content /\ job.content # None
  BY <1>1, ContentInHand
<1>4. PICK rules \in RuleSeq : rules = job.content.rules
  BY <1>1, ContentInHand
<1>5. pve[job.v].rules = rules /\ pve[job.v].policy = job.content.policy
  BY <1>1, <1>4 DEF Progress
<1>6. pve[job.v].ipset = {job.addr} \union Bridge
  BY <1>1, <1>2 DEF MissingEntries, ExcessEntries, Wanted
<1>7. CASE job.restricted
  <2>1. PICK more \in RuleSeq : more = Append(rules, Uestc) /\ more = rules \o <<Uestc>>
    <3>1. rules \in Seq(Rules \union {Uestc}) /\ Uestc \in Rules \union {Uestc}
      BY DEF RuleSeq
    <3>2. Append(rules, Uestc) \in Seq(Rules \union {Uestc})
      BY <3>1, AppendProperties
    <3>3. Append(rules, Uestc) = rules \o <<Uestc>>
      BY <3>1, AppendIsConcat
    <3> QED BY <3>2, <3>3 DEF RuleSeq
  <2>2. PICK f \in Firewall : /\ f = [pve[job.v] EXCEPT !.rules = more]
                              /\ f = [rules |-> more, policy |-> job.content.policy,
                                      ipset |-> {job.addr} \union Bridge]
    <3>1. [pve[job.v] EXCEPT !.rules = more] \in Firewall
      BY <1>2, FirewallWith, Zenon
    <3>2. [pve[job.v] EXCEPT !.rules = more] =
            [rules |-> more, policy |-> pve[job.v].policy, ipset |-> pve[job.v].ipset]
      BY <1>2, FirewallWith, Zenon
    <3> QED BY <1>5, <1>6, <3>1, <3>2
  <2>3. Sets(f)
    BY <1>5, <1>7, <2>1, <2>2 DEF AddGroupRule
  <2>4. pve' \in [VMs -> Firewall] /\ pve'[job.v] = f
    BY <1>1, <2>3, SetsFirewall
  <2>5. f = Wanted(job, job.content)
    BY <1>4, <1>7, <2>1, <2>2 DEF Wanted
  <2>6. FwOK'
    BY <1>1, <2>4 DEF FwOK, Working
  <2>7. Progress'
    BY <1>1, <1>3, <2>4, <2>5 DEF Progress
  <2> QED BY <2>6, <2>7
<1>8. CASE ~job.restricted
  <2>1. pve' = pve
    BY <1>8 DEF AddGroupRule
  <2>2. pve[job.v] = [rules |-> rules, policy |-> job.content.policy,
                      ipset |-> {job.addr} \union Bridge]
    BY <1>2, <1>5, <1>6 DEF Firewall
  <2>3. rules \o <<>> = rules
    BY ConcatEmptySeq DEF RuleSeq
  <2>4. pve[job.v] = Wanted(job, job.content)
    BY <1>4, <1>8, <2>2, <2>3 DEF Wanted
  <2>5. FwOK'
    BY <1>1, <2>1 DEF FwOK, Working
  <2>6. Progress'
    BY <1>1, <1>3, <2>1, <2>4 DEF Progress
  <2> QED BY <2>5, <2>6
<1> QED BY <1>7, <1>8

--------------------------------------------------------------------------------
(* Rows and what is written to them.                                       *)

Syncs == {"pending", "synced", "failed", "deleting"}
Rows  == Row \union {NoRow, Unmanaged}

\* What a firewall is made from is the same.
Same(r, s) == Key(r) = Key(s) /\ r.addr = s.addr /\ r.restricted = s.restricted

LEMMA RowFields ==
  ASSUME NEW r \in Row
  PROVE  /\ r.known = "managed" /\ r.sync \in Syncs /\ r.leaving \in BOOLEAN
         /\ r.owner \in Users /\ r.name \in Names /\ r.addr \in Addresses
         /\ Key(r) \in Keys
  BY DEF Row, Syncs, Key, Keys

LEMMA Unwritten == NoRow.known = "no" /\ Unmanaged.known = "unmanaged"
  BY DEF NoRow, Unmanaged

LEMMA SyncWritten ==
  ASSUME NEW r \in Row, NEW sync \in Syncs, NEW s, s = [r EXCEPT !.sync = sync]
  PROVE  s \in Row /\ Same(r, s) /\ s.sync = sync /\ s.leaving = r.leaving
  BY DEF Row, Syncs, Same, Key

LEMMA ManagedRow ==
  ASSUME DbOK, NEW v \in VMs
  PROVE  /\ row[v] \in Rows
         /\ Managed(v) <=> row[v] \in Row
<1>1. row[v] \in Rows
  BY DEF DbOK, Rows
<1> QED BY <1>1, RowFields, Unwritten DEF Managed, Rows

LEMMA NewRowTyped ==
  ASSUME NEW u \in Users, NEW n \in Names, NEW a \in Addresses, NEW restricted \in Restrictions
  PROVE  NewRow(u, n, a, restricted) \in Row /\ Key(NewRow(u, n, a, restricted)) = <<u, n>>
  BY DEF NewRow, Row, Key

--------------------------------------------------------------------------------
(* What the steps do to rows and requests.                                 *)

\* One row of a managed VM is written; owner, group and address stay.
Marks(v, sync) ==
  /\ row' \in [VMs -> Rows]
  /\ \A w \in VMs : w # v => row'[w] = row[w]
  /\ row[v] \in Row /\ row'[v] \in Row
  /\ Same(row[v], row'[v]) /\ row'[v].sync = sync

LEMMA SyncMarks ==
  ASSUME DbOK, NEW v \in VMs, Managed(v), NEW sync \in Syncs,
         row' = [row EXCEPT ![v].sync = sync]
  PROVE  Marks(v, sync) /\ row'[v].leaving = row[v].leaving
<1>1. row[v] \in Row
  BY ManagedRow
<1>2. PICK s : s = [row[v] EXCEPT !.sync = sync]
  OBVIOUS
<1>3. s \in Row /\ Same(row[v], s) /\ s.sync = sync /\ s.leaving = row[v].leaving
  BY <1>1, <1>2, SyncWritten
<1>4. row' = [row EXCEPT ![v] = s]
  BY <1>2
<1>5. row \in [VMs -> Rows] /\ s \in Rows
  BY <1>3 DEF DbOK, Rows
<1>6. row'[v] = s /\ row' \in [VMs -> Rows] /\ \A w \in VMs : w # v => row'[w] = row[w]
  BY <1>4, <1>5
<1> QED BY <1>1, <1>3, <1>6 DEF Marks

LEMMA LeavingMarks ==
  ASSUME DbOK, NEW v \in VMs, Managed(v), NEW sync \in Syncs, NEW leaving \in BOOLEAN,
         row' = [row EXCEPT ![v].leaving = leaving, ![v].sync = sync]
  PROVE  Marks(v, sync) /\ row'[v].leaving = leaving
<1>1. row[v] \in Row
  BY ManagedRow
<1>2. PICK s : s = [row[v] EXCEPT !.leaving = leaving, !.sync = sync]
  OBVIOUS
<1>3. s \in Row /\ Same(row[v], s) /\ s.sync = sync /\ s.leaving = leaving
  BY <1>1, <1>2 DEF Row, Syncs, Same, Key
<1>4. row \in [VMs -> Rows] /\ s \in Rows
  BY <1>3 DEF DbOK, Rows
<1>5. row' = [row EXCEPT ![v] = s]
  BY <1>2, <1>4
<1>6. row'[v] = s /\ row' \in [VMs -> Rows] /\ \A w \in VMs : w # v => row'[w] = row[w]
  BY <1>4, <1>5
<1> QED BY <1>1, <1>3, <1>6 DEF Marks

\* handlePatchSecurityGroup
LEMMA PatchGroupMarks ==
  ASSUME DbOK, NEW c \in Clients, NEW k \in Keys, NEW content \in Contents, PatchGroup(c, k, content)
  PROVE  /\ row' \in [VMs -> Rows]
         /\ \A v \in VMs : v \notin UsedBy(k) => row'[v] = row[v]
         /\ \A v \in UsedBy(k) :
              /\ row[v] \in Row /\ row'[v] \in Row
              /\ Same(row[v], row'[v]) /\ row'[v].leaving = row[v].leaving
              /\ row'[v].sync # "synced"
<1>1. \A v \in VMs : v \notin UsedBy(k) => row'[v] = row[v]
  BY DEF PatchGroup
<1>2. ASSUME NEW v \in UsedBy(k)
      PROVE  /\ row[v] \in Row /\ row'[v] \in Row
             /\ Same(row[v], row'[v]) /\ row'[v].leaving = row[v].leaving
             /\ row'[v].sync # "synced"
  <2>1. v \in VMs /\ row[v] \in Row
    BY ManagedRow DEF UsedBy
  <2>2. CASE row[v].sync = "deleting"
    <3>1. row'[v] = row[v]
      BY <2>1, <2>2 DEF PatchGroup
    <3> QED BY <2>1, <2>2, <3>1 DEF Same
  <2>3. CASE row[v].sync # "deleting"
    <3>1. row'[v] = [row[v] EXCEPT !.sync = "pending"]
      BY <2>1, <2>3 DEF PatchGroup
    <3>2. "pending" \in Syncs
      BY DEF Syncs
    <3> QED BY <2>1, <3>1, <3>2, SyncWritten
  <2> QED BY <2>2, <2>3
<1>3. \A v \in VMs : row'[v] \in Rows
  BY <1>1, <1>2, ManagedRow DEF Rows
<1>4. row' = [v \in VMs |-> row'[v]]
  BY DEF PatchGroup
<1>5. row' \in [VMs -> Rows]
  BY <1>3, <1>4
<1> QED BY <1>1, <1>2, <1>5

LEMMA RequestFields ==
  ASSUME NEW q \in Request
  PROVE  /\ q.op \in {"create", "patch", "adopt"} => q.v \in VMs /\ q.row \in Row
         /\ q.op = "newGroup" => q.key \in Keys /\ q.content \in Contents
         /\ q.op = "delete" => q.key \in Keys
         /\ q # NoRequest
  BY DEF Request, NoRequest

\* A request that has an operation is not idle.
LEMMA RequestInFlight ==
  ASSUME DbOK, NEW c \in Clients, req[c].op # "idle"
  PROVE  req[c] \in Request
  BY DEF DbOK, NoRequest

LEMMA RequestWritten ==
  ASSUME DbOK, NEW c \in Clients, NEW q \in Request \union {NoRequest}, req' = [req EXCEPT ![c] = q]
  PROVE  req' \in [Clients -> Request \union {NoRequest}] /\ req'[c] = q
  BY DEF DbOK

\* The row a request carries is written, as pending.
LEMMA CommitVMWrites ==
  ASSUME DbOK, NEW c \in Clients, CommitVM(c)
  PROVE  /\ req[c] \in Request /\ req[c].op \in {"create", "adopt", "patch"}
         /\ req[c].v \in VMs
         /\ row' \in [VMs -> Rows]
         /\ \A w \in VMs : w # req[c].v => row'[w] = row[w]
         /\ row'[req[c].v] \in Row
         /\ Key(row'[req[c].v]) = Key(req[c].row)
         /\ row'[req[c].v].sync = "pending"
         /\ open' = open \union {req[c].v}
<1>1. req[c] \in Request /\ req[c].op \in {"create", "adopt", "patch"}
  BY RequestInFlight DEF CommitVM
<1>2. req[c].v \in VMs /\ req[c].row \in Row
  BY <1>1, RequestFields
<1>3. PICK leaving : leaving = (req[c].op = "patch" /\ row[req[c].v].leaving)
  OBVIOUS
<1>4. leaving \in BOOLEAN
  BY <1>3, Zenon
<1>5. PICK s : s = [req[c].row EXCEPT !.sync = "pending", !.leaving = leaving]
  OBVIOUS
<1>6. s \in Row /\ Key(s) = Key(req[c].row) /\ s.sync = "pending"
  BY <1>2, <1>4, <1>5 DEF Row, Key
<1>7. row' = [row EXCEPT ![req[c].v] = s] /\ open' = open \union {req[c].v}
  BY <1>3, <1>5 DEF CommitVM
<1>8. row \in [VMs -> Rows] /\ s \in Rows
  BY <1>6 DEF DbOK, Rows
<1>9. /\ row'[req[c].v] = s /\ row' \in [VMs -> Rows]
      /\ \A w \in VMs : w # req[c].v => row'[w] = row[w]
  BY <1>2, <1>7, <1>8
<1> QED BY <1>1, <1>2, <1>6, <1>7, <1>9

\* markDeleted
LEMMA DestroyVMWrites ==
  ASSUME DbOK, NEW v \in VMs, DestroyVM(v)
  PROVE  /\ row' \in [VMs -> Rows]
         /\ \A w \in VMs : w # v => row'[w] = row[w]
         /\ row'[v] = NoRow
<1>1. row \in [VMs -> Rows] /\ NoRow \in Rows
  BY DEF DbOK, Rows
<1> QED BY <1>1 DEF DestroyVM

--------------------------------------------------------------------------------
(* Type correctness and Progress, for any number of requests.              *)

LEMMA ApplyKeeps ==
  ASSUME FwOK, Progress, Apply
  PROVE  FwOK' /\ Progress'
  BY DeleteRuleKeeps, RulesClearedKeeps, AddRuleKeeps, SetOptionsKeeps, EntriesKeep,
     AddGroupRuleKeeps DEF Apply, EnsureFirewall

LEMMA PickTaskKeeps ==
  ASSUME TypeOK, NEW v \in VMs, PickTask(v)
  PROVE  FwOK' /\ Progress'
<1>1. FwOK /\ DbOK
  BY Typed
<1>2. row[v] \in Row
  BY <1>1, ManagedRow DEF PickTask
<1>3. row[v].restricted \in Restrictions
  BY <1>2 DEF Row
<1>4. job' \in Job
  BY <1>2, <1>3 DEF PickTask, Row, Job
<1>5. wpc' = "picked" /\ pve' = pve /\ todo' = todo
  BY DEF PickTask
<1>6. job' # NoJob
  BY <1>4, NoJobIsNone
<1>7. FwOK'
  BY <1>1, <1>4, <1>5, <1>6 DEF FwOK, Working
<1>8. Progress'
  BY <1>5 DEF Progress
<1> QED BY <1>7, <1>8

LEMMA LoadGroupKeeps ==
  ASSUME TypeOK, LoadGroup
  PROVE  FwOK' /\ Progress'
<1>1. FwOK /\ DbOK
  BY Typed
<1>2. /\ wpc = "picked" /\ wpc' = "clear" /\ pve' = pve
      /\ job' = [job EXCEPT !.content = groups[Key(job)]]
      /\ todo' = DeleteOrder(Len(pve[job.v].rules))
      /\ groups[Key(job)] # None
  BY DEF LoadGroup, StartFirewall, Exists
<1>3. job \in Job /\ job.v \in VMs /\ pve[job.v] \in Firewall
  BY <1>1, <1>2, JobInHand
<1>4. Key(job) \in Keys
  BY <1>3 DEF Job, Key, Keys
<1>5. PICK content \in Contents : content = groups[Key(job)] /\ content # None
  BY <1>1, <1>2, <1>4 DEF DbOK
<1>6. job' \in Job /\ job'.v = job.v /\ job'.content = content
  <2>1. job' = [job EXCEPT !.content = content]
    BY <1>2, <1>5
  <2> QED BY <1>3, <2>1 DEF Job
<1>7. PICK n \in Nat : n = Len(pve[job.v].rules)
  BY <1>3 DEF Firewall, RuleSeq
<1>8. todo' \in Seq(Nat)
  BY <1>2, <1>7, DeleteOrderTail
<1>9. FwOK'
  BY <1>1, <1>2, <1>6, <1>8, NoJobIsNone DEF FwOK, Working
<1>10. Progress'
  BY <1>2, <1>5, <1>6 DEF Progress
<1> QED BY <1>9, <1>10

LEMMA LeaveTaskKeeps ==
  ASSUME TypeOK, wpc # "idle", LeaveTask
  PROVE  FwOK' /\ Progress'
<1>1. FwOK
  BY Typed
<1>2. wpc' = "idle" /\ job' = NoJob /\ todo' = <<>>
  BY DEF LeaveTask
<1>3. pve' \in [VMs -> Firewall]
  <2>1. CASE UNCHANGED pve
    BY <1>1, <2>1 DEF FwOK
  <2>2. CASE \E f \in Untouched : Sets(f)
    BY <1>1, <2>2, SetsFirewall, UntouchedAssumption
  <2> QED BY <2>1, <2>2 DEF LeaveTask
<1>4. FwOK'
  BY <1>2, <1>3 DEF FwOK
<1>5. Progress'
  BY <1>2 DEF Progress
<1> QED BY <1>4, <1>5

LEMMA DestroyVMKeeps ==
  ASSUME TypeOK, NEW v \in VMs, DestroyVM(v)
  PROVE  FwOK' /\ Progress'
<1>1. FwOK
  BY Typed
<1>2. wpc = "idle" /\ wpc' = wpc /\ job' = job /\ todo' = todo
  BY DEF DestroyVM
<1>3. PICK f \in Untouched : pve' = [pve EXCEPT ![v] = f]
  BY DEF DestroyVM
<1>4. pve' \in [VMs -> Firewall]
  BY <1>1, <1>3, UntouchedAssumption DEF FwOK
<1>5. FwOK'
  BY <1>1, <1>2, <1>4 DEF FwOK
<1>6. Progress'
  BY <1>2 DEF Progress
<1> QED BY <1>5, <1>6

\* The server does not touch the cluster.
LEMMA ServerLeavesFirewalls ==
  ASSUME Server
  PROVE  UNCHANGED fwVars
<1>1. ASSUME NEW c \in Clients, NEW k \in Keys, NEW content \in Contents,
             LoadNewGroup(c, k, content) \/ PatchGroup(c, k, content)
      PROVE  UNCHANGED fwVars
  <2>1. LoadNewGroup(c, k, content) => UNCHANGED fwVars
    BY DEF LoadNewGroup, Checks, LooksUp
  <2>2. PatchGroup(c, k, content) => UNCHANGED fwVars
    BY DEF PatchGroup
  <2> QED BY <1>1, <2>1, <2>2
<1>2. ASSUME NEW c \in Clients, NEW k \in Keys, LoadDeleteGroup(c, k)
      PROVE  UNCHANGED fwVars
  BY <1>2 DEF LoadDeleteGroup, Checks, LooksUp
<1>3. ASSUME NEW c \in Clients, NEW v \in VMs, DeleteVM(c, v) \/ RestoreVM(c, v)
      PROVE  UNCHANGED fwVars
  BY <1>3 DEF DeleteVM, RestoreVM
<1>4. ASSUME NEW c \in Clients, NEW v \in VMs, NEW u \in Users, NEW n \in Names,
             NEW a \in Addresses, NEW restricted \in Restrictions
      PROVE  /\ LoadCreateVM(c, v, u, n, a, restricted) => UNCHANGED fwVars
             /\ LoadAdoptVM(c, v, u, n, a, restricted) => UNCHANGED fwVars
             /\ LoadPatchVM(c, v, u, n, a, restricted) => UNCHANGED fwVars
  <2>1. LoadCreateVM(c, v, u, n, a, restricted) => UNCHANGED fwVars
    BY DEF LoadCreateVM, Checks, LooksUp
  <2>2. LoadAdoptVM(c, v, u, n, a, restricted) => UNCHANGED fwVars
    BY DEF LoadAdoptVM, LooksUp
  <2>3. LoadPatchVM(c, v, u, n, a, restricted) => UNCHANGED fwVars
    BY DEF LoadPatchVM, Checks, LooksUp
  <2> QED BY <2>1, <2>2, <2>3
<1>5. ASSUME NEW c \in Clients,
             CommitNewGroup(c) \/ CommitDeleteGroup(c) \/ CommitVM(c) \/ RequestFails(c)
      PROVE  UNCHANGED fwVars
  <2>1. CommitNewGroup(c) => UNCHANGED fwVars
    BY DEF CommitNewGroup
  <2>2. CommitDeleteGroup(c) => UNCHANGED fwVars
    BY DEF CommitDeleteGroup
  <2>3. CommitVM(c) => UNCHANGED fwVars
    BY DEF CommitVM
  <2>4. RequestFails(c) => UNCHANGED fwVars
    BY DEF RequestFails
  <2> QED BY <1>5, <2>1, <2>2, <2>3, <2>4
<1> QED BY <1>1, <1>2, <1>3, <1>4, <1>5 DEF Server

LEMMA FirewallStep ==
  ASSUME TypeOK, Progress, [Next]_vars
  PROVE  FwOK' /\ Progress'
<1>1. FwOK
  BY Typed
<1>2. CASE UNCHANGED fwVars
  BY <1>1, <1>2 DEF fwVars, FwOK, Progress
<1>3. CASE Server
  BY <1>2, <1>3, ServerLeavesFirewalls
<1>4. ASSUME NEW v \in VMs, PickTask(v) \/ DestroyVM(v)
      PROVE  FwOK' /\ Progress'
  BY <1>4, PickTaskKeeps, DestroyVMKeeps
<1>5. CASE LoadGroup
  BY <1>5, LoadGroupKeeps
<1>6. CASE GroupMissing \/ ApplyFails
  BY <1>6, LeaveTaskKeeps DEF GroupMissing, ApplyFails
<1>7. CASE Apply
  BY <1>1, <1>7, ApplyKeeps
<1>8. CASE MarkSynced
  <2>1. wpc' = "idle" /\ job' = NoJob /\ pve' = pve /\ todo' = todo
    BY <1>8 DEF MarkSynced
  <2> QED BY <1>1, <2>1 DEF FwOK, Progress
<1>9. CASE UNCHANGED vars
  BY <1>2, <1>9 DEF vars, fwVars
<1> QED BY <1>3, <1>4, <1>5, <1>6, <1>7, <1>8, <1>9 DEF Next, Worker

\* A request that has been checked.
LEMMA ChecksTyped ==
  ASSUME DbOK, NEW c \in Clients, NEW q \in Request, LooksUp(c, q)
  PROVE  DbOK'
<1>1. req' \in [Clients -> Request \union {NoRequest}]
  BY RequestWritten DEF LooksUp, Begins
<1>2. groups' = groups /\ row' = row /\ open' = open /\ overtaken' = overtaken
  BY DEF LooksUp
<1> QED BY <1>1, <1>2 DEF DbOK

LEMMA RequestsTyped ==
  ASSUME DbOK, NEW c \in Clients, NEW v \in VMs, NEW u \in Users, NEW n \in Names,
         NEW a \in Addresses, NEW restricted \in Restrictions
  PROVE  /\ LoadCreateVM(c, v, u, n, a, restricted) => DbOK'
         /\ LoadAdoptVM(c, v, u, n, a, restricted) => DbOK'
         /\ LoadPatchVM(c, v, u, n, a, restricted) => DbOK'
<1>1. PICK r \in Row : r = NewRow(u, n, a, restricted)
  BY NewRowTyped
<1>2. ASSUME LoadCreateVM(c, v, u, n, a, restricted)
      PROVE  DbOK'
  <2>1. PICK q \in Request : q = [op |-> "create", v |-> v, row |-> r]
    BY DEF Request
  <2> QED BY <1>1, <1>2, <2>1, ChecksTyped DEF LoadCreateVM, Checks
<1>3. ASSUME LoadAdoptVM(c, v, u, n, a, restricted)
      PROVE  DbOK'
  <2>1. PICK q \in Request : q = [op |-> "adopt", v |-> v, row |-> r]
    BY DEF Request
  <2> QED BY <1>1, <1>3, <2>1, ChecksTyped DEF LoadAdoptVM
<1>4. ASSUME LoadPatchVM(c, v, u, n, a, restricted)
      PROVE  DbOK'
  <2>1. row[v] \in Row
    BY <1>4, ManagedRow DEF LoadPatchVM
  <2>2. PICK s \in Row : s = [row[v] EXCEPT !.owner = u, !.name = n, !.addr = a,
                                            !.restricted = restricted]
    BY <2>1 DEF Row
  <2>3. PICK q \in Request : q = [op |-> "patch", v |-> v, row |-> s]
    BY DEF Request
  <2> QED BY <1>4, <2>2, <2>3, ChecksTyped DEF LoadPatchVM, Checks
<1> QED BY <1>2, <1>3, <1>4

LEMMA GroupRequestsTyped ==
  ASSUME DbOK, NEW c \in Clients, NEW k \in Keys
  PROVE  /\ \A content \in Contents : LoadNewGroup(c, k, content) => DbOK'
         /\ LoadDeleteGroup(c, k) => DbOK'
<1>1. ASSUME NEW content \in Contents, LoadNewGroup(c, k, content)
      PROVE  DbOK'
  <2>1. PICK q \in Request : q = [op |-> "newGroup", key |-> k, content |-> content]
    BY DEF Request
  <2> QED BY <1>1, <2>1, ChecksTyped DEF LoadNewGroup, Checks
<1>2. ASSUME LoadDeleteGroup(c, k)
      PROVE  DbOK'
  <2>1. PICK q \in Request : q = [op |-> "delete", key |-> k]
    BY DEF Request
  <2> QED BY <1>2, <2>1, ChecksTyped DEF LoadDeleteGroup, Checks
<1> QED BY <1>1, <1>2

\* The end of a request.
LEMMA EndsTyped ==
  ASSUME DbOK, NEW c \in Clients, Ends(c)
  PROVE  req' \in [Clients -> Request \union {NoRequest}] /\ req'[c] = NoRequest
  BY RequestWritten DEF Ends

LEMMA CommitsTyped ==
  ASSUME DbOK, NEW c \in Clients,
         CommitNewGroup(c) \/ CommitDeleteGroup(c) \/ CommitVM(c) \/ RequestFails(c)
  PROVE  DbOK'
<1>1. req' \in [Clients -> Request \union {NoRequest}]
  BY EndsTyped DEF CommitNewGroup, CommitDeleteGroup, CommitVM, RequestFails
<1>2. CASE CommitNewGroup(c)
  <2>1. req[c].key \in Keys /\ req[c].content \in Contents
    BY <1>2, RequestInFlight, RequestFields DEF CommitNewGroup
  <2> QED BY <1>1, <1>2, <2>1 DEF CommitNewGroup, DbOK
<1>3. CASE CommitDeleteGroup(c)
  <2>1. req[c].key \in Keys
    BY <1>3, RequestInFlight, RequestFields DEF CommitDeleteGroup
  <2> QED BY <1>1, <1>3, <2>1 DEF CommitDeleteGroup, DbOK
<1>4. CASE CommitVM(c)
  <2>1. /\ req[c].v \in VMs /\ row' \in [VMs -> Rows] /\ open' = open \union {req[c].v}
    BY <1>4, CommitVMWrites
  <2> QED BY <1>1, <1>4, <2>1 DEF CommitVM, DbOK, Rows
<1>5. CASE RequestFails(c)
  BY <1>1, <1>5 DEF RequestFails, DbOK
<1> QED BY <1>2, <1>3, <1>4, <1>5

\* handleDeleteVM, handleRestoreVM
LEMMA LeavingWrites ==
  ASSUME DbOK, NEW c \in Clients, NEW v \in VMs
  PROVE  /\ DeleteVM(c, v) => Marks(v, "deleting") /\ row'[v].leaving = TRUE
         /\ RestoreVM(c, v) => Marks(v, "pending")
<1>1. "deleting" \in Syncs /\ "pending" \in Syncs
  BY DEF Syncs
<1>2. DeleteVM(c, v) => Marks(v, "deleting") /\ row'[v].leaving = TRUE
  BY <1>1, LeavingMarks DEF DeleteVM
<1>3. RestoreVM(c, v) => Marks(v, "pending")
  BY <1>1, LeavingMarks DEF RestoreVM
<1> QED BY <1>2, <1>3

\* markSynced, markFailed
LEMMA JobMarks ==
  ASSUME DbOK, NEW v \in VMs, NEW sync \in Syncs,
         row' = IF Managed(v) THEN [row EXCEPT ![v].sync = sync] ELSE row
  PROVE  IF Managed(v) THEN Marks(v, sync) /\ row'[v].leaving = row[v].leaving
                       ELSE row' = row
  BY SyncMarks

LEMMA DatabaseStep ==
  ASSUME TypeOK, [Next]_vars
  PROVE  DbOK'
<1>1. FwOK /\ DbOK
  BY Typed
<1>2. ASSUME NEW c \in Clients, NEW k \in Keys, NEW content \in Contents,
             LoadNewGroup(c, k, content) \/ PatchGroup(c, k, content)
      PROVE  DbOK'
  <2>1. CASE LoadNewGroup(c, k, content)
    BY <1>1, <2>1, GroupRequestsTyped
  <2>2. CASE PatchGroup(c, k, content)
    <3>1. row' \in [VMs -> Rows]
      BY <1>1, <2>2, PatchGroupMarks
    <3>2. BeingApplied(k) \subseteq VMs
      BY DEF BeingApplied, UsedBy
    <3> QED BY <1>1, <2>2, <3>1, <3>2 DEF PatchGroup, DbOK, Rows
  <2> QED BY <1>2, <2>1, <2>2
<1>3. ASSUME NEW c \in Clients, NEW k \in Keys, LoadDeleteGroup(c, k)
      PROVE  DbOK'
  BY <1>1, <1>3, GroupRequestsTyped
<1>4. ASSUME NEW c \in Clients, NEW v \in VMs, DeleteVM(c, v) \/ RestoreVM(c, v)
      PROVE  DbOK'
  <2>1. row' \in [VMs -> Rows]
    BY <1>1, <1>4, LeavingWrites DEF Marks
  <2>2. CASE DeleteVM(c, v)
    BY <1>1, <2>1, <2>2 DEF DeleteVM, DbOK, Rows
  <2>3. CASE RestoreVM(c, v)
    BY <1>1, <2>1, <2>3 DEF RestoreVM, DbOK, Rows
  <2> QED BY <1>4, <2>2, <2>3
<1>5. ASSUME NEW c \in Clients, NEW v \in VMs, NEW u \in Users, NEW n \in Names,
             NEW a \in Addresses, NEW restricted \in Restrictions,
             \/ LoadCreateVM(c, v, u, n, a, restricted)
             \/ LoadAdoptVM(c, v, u, n, a, restricted)
             \/ LoadPatchVM(c, v, u, n, a, restricted)
      PROVE  DbOK'
  BY <1>1, <1>5, RequestsTyped
<1>6. ASSUME NEW c \in Clients,
             CommitNewGroup(c) \/ CommitDeleteGroup(c) \/ CommitVM(c) \/ RequestFails(c)
      PROVE  DbOK'
  BY <1>1, <1>6, CommitsTyped
<1>7. ASSUME NEW v \in VMs, PickTask(v)
      PROVE  DbOK'
  BY <1>1, <1>7 DEF PickTask, DbOK
<1>8. ASSUME NEW v \in VMs, DestroyVM(v)
      PROVE  DbOK'
  <2>1. row' \in [VMs -> Rows]
    BY <1>1, <1>8, DestroyVMWrites
  <2> QED BY <1>1, <1>8, <2>1 DEF DestroyVM, DbOK, Rows
<1>9. CASE LoadGroup
  BY <1>1, <1>9 DEF LoadGroup, DbOK
<1>10. CASE Apply
  BY <1>1, <1>10 DEF Apply, DbOK
<1>11. CASE MarkSynced
  <2>1. job.v \in VMs /\ "synced" \in Syncs
    BY <1>1, <1>11, JobInHand DEF MarkSynced, Syncs
  <2>2. row' \in [VMs -> Rows]
    BY <1>1, <1>11, <2>1, JobMarks DEF MarkSynced, Marks, DbOK, Rows
  <2> QED BY <1>1, <1>11, <2>2 DEF MarkSynced, DbOK, Rows
<1>12. CASE GroupMissing \/ ApplyFails
  <2>1. LeaveTask /\ wpc # "idle"
    BY <1>12 DEF GroupMissing, ApplyFails
  <2>2. job.v \in VMs /\ "failed" \in Syncs
    BY <1>1, <2>1, JobInHand DEF Syncs
  <2>3. row' \in [VMs -> Rows]
    BY <1>1, <2>1, <2>2, JobMarks DEF LeaveTask, Marks, DbOK, Rows
  <2> QED BY <1>1, <2>1, <2>2, <2>3 DEF LeaveTask, DbOK, Rows
<1>13. CASE UNCHANGED vars
  BY <1>1, <1>13 DEF vars, DbOK
<1>14. CASE Server
  BY <1>14, <1>2, <1>3, <1>4, <1>5, <1>6 DEF Server
<1>15. CASE Worker
  BY <1>15, <1>7, <1>8, <1>9, <1>10, <1>11, <1>12 DEF Worker
<1> QED BY <1>12, <1>13, <1>14, <1>15 DEF Next

\* What was crossed stays crossed.
LEMMA CrossedGrows ==
  ASSUME TypeOK, [Next]_vars
  PROVE  crossed \subseteq crossed' /\ crossed' \subseteq VMs
<1>1. crossed \subseteq VMs
  BY Typed
<1>2. crossed' = crossed => crossed \subseteq crossed' /\ crossed' \subseteq VMs
  BY <1>1
<1>3. ASSUME NEW c \in Clients, NEW k \in Keys, NEW content \in Contents,
             LoadNewGroup(c, k, content) \/ PatchGroup(c, k, content)
      PROVE  crossed' = crossed
  BY <1>3 DEF LoadNewGroup, PatchGroup, Checks
<1>4. ASSUME NEW c \in Clients, NEW k \in Keys, LoadDeleteGroup(c, k)
      PROVE  crossed' = crossed
  BY <1>4 DEF LoadDeleteGroup, Checks
<1>5. ASSUME NEW c \in Clients, NEW v \in VMs, DeleteVM(c, v) \/ RestoreVM(c, v)
      PROVE  crossed' = crossed
  BY <1>5 DEF DeleteVM, RestoreVM
<1>6. ASSUME NEW c \in Clients, NEW v \in VMs, NEW u \in Users, NEW n \in Names,
             NEW a \in Addresses, NEW restricted \in Restrictions,
             \/ LoadCreateVM(c, v, u, n, a, restricted)
             \/ LoadAdoptVM(c, v, u, n, a, restricted)
             \/ LoadPatchVM(c, v, u, n, a, restricted)
      PROVE  crossed' = crossed \/ crossed' = crossed \union {v}
  <2>1. LoadCreateVM(c, v, u, n, a, restricted) => crossed' = crossed
    BY DEF LoadCreateVM, Checks
  <2>2. LoadPatchVM(c, v, u, n, a, restricted) => crossed' = crossed
    BY DEF LoadPatchVM, Checks
  <2>3. LoadAdoptVM(c, v, u, n, a, restricted)
          => crossed' = crossed \/ crossed' = crossed \union {v}
    BY DEF LoadAdoptVM
  <2> QED BY <1>6, <2>1, <2>2, <2>3
<1>7. ASSUME NEW c \in Clients,
             CommitNewGroup(c) \/ CommitDeleteGroup(c) \/ CommitVM(c) \/ RequestFails(c)
      PROVE  crossed' = crossed \/ crossed' = crossed \union Crossing(c)
  BY <1>7 DEF CommitNewGroup, CommitDeleteGroup, CommitVM, RequestFails
<1>8. \A c \in Clients : Crossing(c) \subseteq VMs
  BY DEF Crossing
<1>9. CASE Server
  BY <1>1, <1>2, <1>3, <1>4, <1>5, <1>6, <1>7, <1>8, <1>9 DEF Server
<1>10. CASE Worker \/ ApplyFails \/ UNCHANGED vars
  <2>1. crossed' = crossed
    BY <1>10 DEF Worker, PickTask, DestroyVM, LoadGroup, GroupMissing, Apply, MarkSynced,
                 ApplyFails, LeaveTask, vars
  <2> QED BY <1>2, <2>1
<1> QED BY <1>9, <1>10 DEF Next

LEMMA Initially == Init => TypeOK /\ Progress
<1> SUFFICES ASSUME Init
             PROVE  TypeOK /\ Progress
  OBVIOUS
<1>1. pve \in [VMs -> Firewall]
  BY UntouchedAssumption DEF Init
<1>2. row \in [VMs -> Row \union {NoRow, Unmanaged}]
  BY DEF Init
<1>3. groups \in [Keys -> Contents \union {None}]
  BY DEF Init
<1>4. req \in [Clients -> Request \union {NoRequest}]
  BY DEF Init
<1>5. wpc = "idle" /\ job = NoJob /\ todo = <<>> /\ open = {} /\ overtaken = {} /\ crossed = {}
  BY DEF Init
<1>6. todo \in Seq(Nat)
  BY <1>5
<1> QED BY <1>1, <1>2, <1>3, <1>4, <1>5, <1>6 DEF TypeOK, Progress

LEMMA TypedStep ==
  ASSUME TypeOK, Progress, [Next]_vars
  PROVE  TypeOK' /\ Progress'
<1>1. FwOK' /\ Progress' /\ DbOK'
  BY FirewallStep, DatabaseStep
<1>2. crossed' \subseteq VMs
  BY CrossedGrows
<1> QED BY <1>1, <1>2 DEF TypeOK, FwOK, DbOK

\* Every reachable state is well typed, whatever requests are in flight.
THEOREM TypeCorrect == Spec => []TypeOK
<1>1. TypeOK /\ Progress /\ [Next]_vars => TypeOK' /\ Progress'
  BY TypedStep
<1> QED BY <1>1, Initially, PTL DEF Spec

--------------------------------------------------------------------------------
(* The groups of VMs are kept, but for requests that crossed a deletion.    *)

\* No VM is new and none changes its group.
RowsKeepGroup ==
  \A v \in VMs : row'[v].known = "managed" => Managed(v) /\ Key(row'[v]) = Key(row[v])

GroupsStay == \A k \in Keys : Exists(k) => groups'[k] # None

LEMMA MarksKeepGroup ==
  ASSUME NEW v \in VMs, NEW sync, Marks(v, sync)
  PROVE  RowsKeepGroup
  BY RowFields DEF Marks, RowsKeepGroup, Same, Managed

LEMMA PatchKeepsGroup ==
  ASSUME DbOK, NEW c \in Clients, NEW k \in Keys, NEW content \in Contents, PatchGroup(c, k, content)
  PROVE  RowsKeepGroup /\ GroupsStay
<1>1. RowsKeepGroup
  <2> SUFFICES ASSUME NEW v \in VMs, row'[v].known = "managed"
               PROVE  Managed(v) /\ Key(row'[v]) = Key(row[v])
    BY DEF RowsKeepGroup
  <2>1. CASE v \in UsedBy(k)
    BY <2>1, PatchGroupMarks DEF Same, UsedBy
  <2>2. CASE v \notin UsedBy(k)
    <3>1. row'[v] = row[v]
      BY <2>2, PatchGroupMarks
    <3> QED BY <3>1 DEF Managed
  <2> QED BY <2>1, <2>2
<1>2. groups' = [groups EXCEPT ![k] = content] /\ content # None
  BY ContentAssumption, NoneAssumption DEF PatchGroup
<1>3. GroupsStay
  BY <1>2 DEF GroupsStay, Exists, DbOK
<1> QED BY <1>1, <1>3

LEMMA DestroyKeepsGroup ==
  ASSUME DbOK, NEW v \in VMs, DestroyVM(v)
  PROVE  RowsKeepGroup
  BY DestroyVMWrites, Unwritten DEF RowsKeepGroup, Managed

LEMMA GroupsOfRowsStay ==
  ASSUME DbOK, GroupKept, RowsKeepGroup, GroupsStay, crossed \subseteq crossed'
  PROVE  GroupKept'
<1> SUFFICES ASSUME NEW v \in VMs, row'[v].known = "managed", v \notin crossed
             PROVE  groups'[Key(row'[v])] # None
  BY DEF GroupKept, Managed, Exists, Key
<1>1. Managed(v) /\ Key(row'[v]) = Key(row[v])
  BY DEF RowsKeepGroup
<1>2. Key(row[v]) \in Keys
  BY <1>1, ManagedRow, RowFields
<1>3. Exists(Key(row[v]))
  BY <1>1 DEF GroupKept
<1> QED BY <1>1, <1>2, <1>3 DEF GroupsStay

\* Requests in flight go on or end; no VM is new to its group, no group goes.
LEMMA CheckedStays ==
  ASSUME DbOK, Checked, RowsKeepGroup, GroupsStay, crossed \subseteq crossed',
         \A c \in Clients : req'[c] = req[c] \/ req'[c] = NoRequest
  PROVE  Checked'
<1> SUFFICES ASSUME NEW c \in Clients, req'[c] = req[c]
             PROVE  /\ req[c].op = "delete" => UsedBy(req[c].key)' \subseteq crossed
                    /\ req[c].op \in {"create", "adopt", "patch"} =>
                         req[c].v \in crossed \/ groups'[Key(req[c].row)] # None
  <2>1. \A c \in Clients : req'[c] = NoRequest => req'[c].op = "idle"
    BY DEF NoRequest
  <2> QED BY <2>1 DEF Checked, Exists, Key, UsedBy, Managed
<1>1. ASSUME req[c].op = "delete"
      PROVE  UsedBy(req[c].key)' \subseteq crossed
  <2>1. UsedBy(req[c].key) \subseteq crossed
    BY <1>1 DEF Checked
  <2> QED BY <2>1 DEF UsedBy, RowsKeepGroup, Managed, Key
<1>2. ASSUME req[c].op \in {"create", "adopt", "patch"}, req[c].v \notin crossed
      PROVE  groups'[Key(req[c].row)] # None
  <2>1. Key(req[c].row) \in Keys
    BY <1>2, RequestInFlight, RequestFields, RowFields
  <2> QED BY <1>2, <2>1 DEF Checked, GroupsStay
<1> QED BY <1>1, <1>2

\* A request that has just been checked is one more.
LEMMA CheckedRequest ==
  ASSUME DbOK, Checked, GroupKept, crossed \subseteq crossed',
         NEW c \in Clients, NEW q \in Request, LooksUp(c, q),
         q.op = "delete" => UsedBy(q.key) \subseteq crossed,
         q.op \in {"create", "adopt", "patch"} => q.v \in crossed' \/ Exists(Key(q.row))
  PROVE  Checked' /\ GroupKept'
<1>1. groups' = groups /\ row' = row /\ req' = [req EXCEPT ![c] = q] /\ req'[c] = q
  BY RequestWritten DEF LooksUp, Begins
<1>2. \A d \in Clients : d # c => req'[d] = req[d]
  BY <1>1 DEF DbOK
<1>3. \A k : UsedBy(k)' = UsedBy(k)
  BY <1>1 DEF UsedBy, Managed, Key
<1>4. ASSUME NEW d \in Clients
      PROVE  /\ req'[d].op = "delete" => UsedBy(req'[d].key) \subseteq crossed'
             /\ req'[d].op \in {"create", "adopt", "patch"} =>
                  req'[d].v \in crossed' \/ groups[Key(req'[d].row)] # None
  <2>1. CASE d = c
    BY <1>1, <2>1 DEF Exists
  <2>2. CASE d # c
    BY <1>2, <2>2 DEF Checked, Exists
  <2> QED BY <2>1, <2>2
<1>5. Checked'
  BY <1>1, <1>4 DEF Checked, UsedBy, Managed, Exists, Key
<1>6. GroupKept'
  BY <1>1 DEF GroupKept, Managed, Exists, Key
<1> QED BY <1>5, <1>6

LEMMA RequestsKeepGroups ==
  ASSUME DbOK, Checked, GroupKept, crossed \subseteq crossed',
         NEW c \in Clients, NEW v \in VMs, NEW u \in Users,
         NEW n \in Names, NEW a \in Addresses, NEW restricted \in Restrictions
  PROVE  /\ LoadCreateVM(c, v, u, n, a, restricted) => Checked' /\ GroupKept'
         /\ LoadAdoptVM(c, v, u, n, a, restricted) => Checked' /\ GroupKept'
         /\ LoadPatchVM(c, v, u, n, a, restricted) => Checked' /\ GroupKept'
<1>1. PICK r \in Row : r = NewRow(u, n, a, restricted) /\ Key(r) = <<u, n>>
  BY NewRowTyped
<1>2. ASSUME LoadCreateVM(c, v, u, n, a, restricted)
      PROVE  Checked' /\ GroupKept'
  <2>1. PICK q \in Request : q = [op |-> "create", v |-> v, row |-> r]
    BY DEF Request
  <2>2. q.op = "create" /\ q.row = r
    BY <2>1
  <2>3. LooksUp(c, q) /\ Exists(Key(q.row))
    BY <1>1, <1>2, <2>1, <2>2 DEF LoadCreateVM, Checks
  <2> QED BY <2>2, <2>3, CheckedRequest
<1>3. ASSUME LoadAdoptVM(c, v, u, n, a, restricted)
      PROVE  Checked' /\ GroupKept'
  <2>1. PICK q \in Request : q = [op |-> "adopt", v |-> v, row |-> r]
    BY DEF Request
  <2>2. q.op = "adopt" /\ q.v = v /\ q.row = r
    BY <2>1
  <2>3. PICK sgOwner \in Users :
          /\ Exists(<<sgOwner, n>>)
          /\ crossed' = IF sgOwner = u THEN crossed ELSE crossed \union {v}
    BY <1>3 DEF LoadAdoptVM
  <2>4. q.v \in crossed' \/ Exists(Key(q.row))
    BY <1>1, <2>2, <2>3
  <2>5. LooksUp(c, q)
    BY <1>1, <1>3, <2>1 DEF LoadAdoptVM
  <2> QED BY <2>2, <2>4, <2>5, CheckedRequest
<1>4. ASSUME LoadPatchVM(c, v, u, n, a, restricted)
      PROVE  Checked' /\ GroupKept'
  <2>1. row[v] \in Row /\ Managed(v)
    BY <1>4, ManagedRow DEF LoadPatchVM
  <2>2. PICK s : s = [row[v] EXCEPT !.owner = u, !.name = n, !.addr = a,
                                    !.restricted = restricted]
    OBVIOUS
  <2>3. s \in Row /\ Key(s) = <<u, n>>
    BY <2>1, <2>2 DEF Row, Key
  <2>4. PICK q \in Request : q = [op |-> "patch", v |-> v, row |-> s]
    BY <2>3 DEF Request
  <2>5. q.op = "patch" /\ q.v = v /\ q.row = s
    BY <2>4
  <2>6. LooksUp(c, q)
    BY <1>4, <2>2, <2>4 DEF LoadPatchVM, Checks
  <2>7. v \in crossed \/ Exists(<<u, n>>)
    BY <1>4, <2>1 DEF LoadPatchVM, GroupKept
  <2> QED BY <2>3, <2>5, <2>6, <2>7, CheckedRequest
<1> QED BY <1>2, <1>3, <1>4

LEMMA GroupRequestsKeepGroups ==
  ASSUME DbOK, Checked, GroupKept, crossed \subseteq crossed', NEW c \in Clients, NEW k \in Keys
  PROVE  /\ \A content \in Contents : LoadNewGroup(c, k, content) => Checked' /\ GroupKept'
         /\ LoadDeleteGroup(c, k) => Checked' /\ GroupKept'
<1>1. ASSUME NEW content \in Contents, LoadNewGroup(c, k, content)
      PROVE  Checked' /\ GroupKept'
  <2>1. PICK q \in Request : q = [op |-> "newGroup", key |-> k, content |-> content]
    BY DEF Request
  <2>2. q.op = "newGroup" /\ LooksUp(c, q)
    BY <1>1, <2>1 DEF LoadNewGroup, Checks
  <2> QED BY <2>2, CheckedRequest
<1>2. ASSUME LoadDeleteGroup(c, k)
      PROVE  Checked' /\ GroupKept'
  <2>1. PICK q \in Request : q = [op |-> "delete", key |-> k]
    BY DEF Request
  <2>2. q.op = "delete" /\ q.key = k /\ LooksUp(c, q) /\ UsedBy(q.key) = {}
    BY <1>2, <2>1 DEF LoadDeleteGroup, Checks
  <2> QED BY <2>2, CheckedRequest
<1> QED BY <1>1, <1>2

\* handleDeleteSecurityGroup writes: who still has the group, or is about to
\* be written with it, is crossed.
LEMMA DeletionKeepsGroups ==
  ASSUME DbOK, Checked, GroupKept, NEW c \in Clients, CommitDeleteGroup(c)
  PROVE  Checked' /\ GroupKept'
<1>1. /\ row' = row /\ groups' = [groups EXCEPT ![req[c].key] = None]
      /\ crossed' = crossed \union Crossing(c) /\ req[c].op = "delete"
      /\ UsedBy(req[c].key) \subseteq crossed
  BY DEF CommitDeleteGroup, Checked
<1>2. req' = [req EXCEPT ![c] = NoRequest]
  BY DEF CommitDeleteGroup, Ends
<1>3. \A k \in Keys : k # req[c].key => groups'[k] = groups[k]
  BY <1>1 DEF DbOK
<1>4. ASSUME NEW v \in VMs, Managed(v), v \notin crossed
      PROVE  groups'[Key(row[v])] # None
  <2>1. Key(row[v]) # req[c].key /\ Key(row[v]) \in Keys
    BY <1>1, <1>4, ManagedRow, RowFields DEF UsedBy
  <2> QED BY <1>3, <1>4, <2>1 DEF GroupKept, Exists
<1>5. GroupKept'
  BY <1>1, <1>4 DEF GroupKept, Managed, Exists, Key
<1>6. ASSUME NEW d \in Clients, d # c
      PROVE  /\ req[d].op = "delete" => UsedBy(req[d].key) \subseteq crossed'
             /\ req[d].op \in {"create", "adopt", "patch"} =>
                  req[d].v \in crossed' \/ groups'[Key(req[d].row)] # None
  <2>1. req[d].op = "delete" => UsedBy(req[d].key) \subseteq crossed'
    BY <1>1 DEF Checked
  <2>2. ASSUME req[d].op \in {"create", "adopt", "patch"}, req[d].v \notin crossed'
        PROVE  groups'[Key(req[d].row)] # None
    <3>1. req[d].v \in VMs /\ Key(req[d].row) \in Keys
      BY <2>2, RequestInFlight, RequestFields, RowFields
    <3>2. Key(req[d].row) # req[c].key
      <4>1. ~Crosses(d, c, req[d].v)
        BY <1>1, <2>2, <3>1 DEF Crossing
      <4> QED BY <1>1, <2>2, <4>1 DEF Crosses
    <3>3. groups[Key(req[d].row)] # None
      BY <1>1, <2>2 DEF Checked, Exists
    <3> QED BY <1>3, <3>1, <3>2, <3>3
  <2> QED BY <2>1, <2>2
<1>7. \A d \in Clients : d # c => req'[d] = req[d]
  BY <1>2 DEF DbOK
<1>8. req'[c].op = "idle"
  BY <1>2 DEF DbOK, NoRequest
<1>9. \A k : UsedBy(k)' = UsedBy(k)
  BY <1>1 DEF UsedBy, Managed, Key
<1>10. ASSUME NEW d \in Clients
       PROVE  /\ req'[d].op = "delete" => UsedBy(req'[d].key) \subseteq crossed'
              /\ req'[d].op \in {"create", "adopt", "patch"} =>
                   req'[d].v \in crossed' \/ groups'[Key(req'[d].row)] # None
  <2>1. CASE d = c
    BY <1>8, <2>1
  <2>2. CASE d # c
    BY <1>6, <1>7, <2>2
  <2> QED BY <2>1, <2>2
<1>11. Checked'
  BY <1>1, <1>10 DEF Checked, UsedBy, Managed, Exists, Key
<1> QED BY <1>5, <1>11

\* handleCreateVM, handleAdminAdoptVM or handlePatchVM writes: if the group is
\* being deleted, the VM is crossed.
LEMMA WritingKeepsGroups ==
  ASSUME DbOK, Checked, GroupKept, NEW c \in Clients, CommitVM(c)
  PROVE  Checked' /\ GroupKept'
<1>1. /\ groups' = groups /\ crossed' = crossed \union Crossing(c)
      /\ req' = [req EXCEPT ![c] = NoRequest]
  BY DEF CommitVM, Ends
<1>2. PICK v \in VMs : /\ v = req[c].v
                       /\ \A w \in VMs : w # v => row'[w] = row[w]
                       /\ Key(row'[v]) = Key(req[c].row)
                       /\ req[c].op \in {"create", "adopt", "patch"}
  BY CommitVMWrites
<1>3. v \in crossed \/ groups[Key(row'[v])] # None
  BY <1>2 DEF Checked, Exists
<1>4. GroupKept'
  <2> SUFFICES ASSUME NEW w \in VMs, w \notin crossed', row'[w].known = "managed"
               PROVE  groups[Key(row'[w])] # None
    BY <1>1 DEF GroupKept, Managed, Exists, Key
  <2>1. CASE w = v
    BY <1>1, <1>3, <2>1
  <2>2. CASE w # v
    BY <1>1, <1>2, <2>2 DEF GroupKept, Managed, Exists
  <2> QED BY <2>1, <2>2
<1>5. \A d \in Clients : d # c => req'[d] = req[d]
  BY <1>1 DEF DbOK
<1>6. req'[c].op = "idle"
  BY <1>1 DEF DbOK, NoRequest
<1>7. ASSUME NEW d \in Clients, req[d].op = "delete", NEW w \in VMs,
             row'[w].known = "managed", Key(row'[w]) = req[d].key
      PROVE  w \in crossed'
  <2>1. CASE w = v
    <3>1. Crosses(c, d, v)
      BY <1>2, <1>7, <2>1 DEF Crosses
    <3> QED BY <1>1, <2>1, <3>1 DEF Crossing
  <2>2. CASE w # v
    <3>1. w \in UsedBy(req[d].key)
      BY <1>2, <1>7, <2>2 DEF UsedBy, Managed
    <3> QED BY <1>1, <1>7, <3>1 DEF Checked
  <2> QED BY <2>1, <2>2
<1>8. ASSUME NEW d \in Clients
      PROVE  /\ req'[d].op = "delete" =>
                  \A w \in VMs : row'[w].known = "managed" /\ Key(row'[w]) = req'[d].key
                                   => w \in crossed'
             /\ req'[d].op \in {"create", "adopt", "patch"} =>
                  req'[d].v \in crossed' \/ groups[Key(req'[d].row)] # None
  <2>1. CASE d = c
    BY <1>6, <2>1
  <2>2. CASE d # c
    <3>1. req[d].op \in {"create", "adopt", "patch"} =>
            req[d].v \in crossed' \/ groups[Key(req[d].row)] # None
      BY <1>1 DEF Checked, Exists
    <3> QED BY <1>5, <1>7, <2>2, <3>1
  <2> QED BY <2>1, <2>2
<1>9. Checked'
  BY <1>1, <1>8 DEF Checked, UsedBy, Managed, Exists, Key
<1> QED BY <1>4, <1>9

LEMMA CommitsKeepGroups ==
  ASSUME DbOK, Checked, GroupKept, crossed \subseteq crossed', NEW c \in Clients,
         CommitNewGroup(c) \/ CommitDeleteGroup(c) \/ CommitVM(c) \/ RequestFails(c)
  PROVE  Checked' /\ GroupKept'
<1>1. ASSUME Ends(c)
      PROVE  \A d \in Clients : req'[d] = req[d] \/ req'[d] = NoRequest
  BY <1>1 DEF Ends, DbOK
<1>2. CASE CommitNewGroup(c)
  <2>1. req[c].key \in Keys /\ req[c].content \in Contents
    BY <1>2, RequestInFlight, RequestFields DEF CommitNewGroup
  <2>2. req[c].content # None
    BY <2>1, ContentAssumption, NoneAssumption
  <2>3. /\ groups' = [groups EXCEPT ![req[c].key] = req[c].content] /\ row' = row /\ Ends(c)
    BY <1>2 DEF CommitNewGroup
  <2>4. GroupsStay
    BY <2>1, <2>2, <2>3 DEF GroupsStay, Exists, DbOK
  <2>5. RowsKeepGroup
    BY <2>3 DEF RowsKeepGroup, Managed
  <2> QED BY <1>1, <2>3, <2>4, <2>5, GroupsOfRowsStay, CheckedStays
<1>3. CASE RequestFails(c)
  <2>1. row' = row /\ groups' = groups /\ Ends(c)
    BY <1>3 DEF RequestFails
  <2>2. RowsKeepGroup /\ GroupsStay
    BY <2>1 DEF RowsKeepGroup, GroupsStay, Managed, Exists
  <2> QED BY <1>1, <2>1, <2>2, GroupsOfRowsStay, CheckedStays
<1> QED BY <1>2, <1>3, DeletionKeepsGroups, WritingKeepsGroups

\* The worker and the deletion of VMs.
LEMMA WorkerKeepsGroups ==
  ASSUME TypeOK, Worker \/ ApplyFails \/ UNCHANGED vars
  PROVE  RowsKeepGroup /\ groups' = groups /\ req' = req
<1>1. FwOK /\ DbOK
  BY Typed
<1>2. row' = row => RowsKeepGroup
  BY DEF RowsKeepGroup, Managed
<1>3. ASSUME NEW v \in VMs, PickTask(v)
      PROVE  RowsKeepGroup /\ groups' = groups /\ req' = req
  BY <1>2, <1>3 DEF PickTask
<1>4. ASSUME NEW v \in VMs, DestroyVM(v)
      PROVE  RowsKeepGroup /\ groups' = groups /\ req' = req
  <2>1. RowsKeepGroup
    BY <1>1, <1>4, DestroyKeepsGroup
  <2> QED BY <1>4, <2>1 DEF DestroyVM
<1>5. LoadGroup => RowsKeepGroup /\ groups' = groups /\ req' = req
  BY <1>2 DEF LoadGroup
<1>6. Apply => RowsKeepGroup /\ groups' = groups /\ req' = req
  BY <1>2 DEF Apply
<1>7. ASSUME NEW sync \in Syncs, wpc # "idle",
             row' = IF Managed(job.v) THEN [row EXCEPT ![job.v].sync = sync] ELSE row
      PROVE  RowsKeepGroup
  <2>1. job.v \in VMs
    BY <1>1, <1>7, JobInHand
  <2>2. CASE Managed(job.v)
    <3>1. row' = [row EXCEPT ![job.v].sync = sync]
      BY <1>7, <2>2
    <3>2. Marks(job.v, sync)
      BY <1>1, <2>1, <2>2, <3>1, SyncMarks
    <3> QED BY <2>1, <3>2, MarksKeepGroup
  <2>3. CASE ~Managed(job.v)
    BY <1>2, <1>7, <2>3
  <2> QED BY <2>2, <2>3
<1>8. CASE MarkSynced
  <2>1. "synced" \in Syncs /\ wpc # "idle" /\ groups' = groups /\ req' = req
        /\ row' = IF Managed(job.v) THEN [row EXCEPT ![job.v].sync = "synced"] ELSE row
    BY <1>8 DEF Syncs, MarkSynced
  <2> QED BY <2>1, <1>7
<1>9. CASE GroupMissing \/ ApplyFails
  <2>1. /\ "failed" \in Syncs /\ wpc # "idle" /\ groups' = groups /\ req' = req
        /\ \/ row' = row
           \/ row' = IF Managed(job.v) THEN [row EXCEPT ![job.v].sync = "failed"] ELSE row
    BY <1>9 DEF Syncs, GroupMissing, ApplyFails, LeaveTask
  <2> QED BY <1>2, <1>7, <2>1
<1>10. CASE UNCHANGED vars
  BY <1>2, <1>10 DEF vars
<1> QED BY <1>3, <1>4, <1>5, <1>6, <1>8, <1>9, <1>10 DEF Worker

LEMMA GroupsKept ==
  ASSUME TypeOK, Checked, GroupKept, [Next]_vars
  PROVE  Checked' /\ GroupKept'
<1>1. DbOK /\ crossed \subseteq crossed'
  BY Typed, CrossedGrows
<1>2. ASSUME RowsKeepGroup, GroupsStay, req' = req
      PROVE  Checked' /\ GroupKept'
  BY <1>1, <1>2, GroupsOfRowsStay, CheckedStays
<1>3. ASSUME NEW c \in Clients, NEW k \in Keys, NEW content \in Contents,
             LoadNewGroup(c, k, content) \/ PatchGroup(c, k, content)
      PROVE  Checked' /\ GroupKept'
  <2>1. CASE LoadNewGroup(c, k, content)
    BY <1>1, <2>1, GroupRequestsKeepGroups
  <2>2. CASE PatchGroup(c, k, content)
    <3>1. RowsKeepGroup /\ GroupsStay
      BY <1>1, <2>2, PatchKeepsGroup
    <3>2. req' = req
      BY <2>2 DEF PatchGroup
    <3> QED BY <1>2, <3>1, <3>2
  <2> QED BY <1>3, <2>1, <2>2
<1>4. ASSUME NEW c \in Clients, NEW k \in Keys, LoadDeleteGroup(c, k)
      PROVE  Checked' /\ GroupKept'
  BY <1>1, <1>4, GroupRequestsKeepGroups
<1>5. ASSUME NEW c \in Clients, NEW v \in VMs, DeleteVM(c, v) \/ RestoreVM(c, v)
      PROVE  Checked' /\ GroupKept'
  <2>1. PICK sync : Marks(v, sync)
    BY <1>1, <1>5, LeavingWrites
  <2>2. RowsKeepGroup
    BY <2>1, MarksKeepGroup
  <2>3. groups' = groups /\ req' = req
    BY <1>5 DEF DeleteVM, RestoreVM
  <2> QED BY <1>2, <2>2, <2>3 DEF GroupsStay, Exists
<1>6. ASSUME NEW c \in Clients, NEW v \in VMs, NEW u \in Users, NEW n \in Names,
             NEW a \in Addresses, NEW restricted \in Restrictions,
             \/ LoadCreateVM(c, v, u, n, a, restricted)
             \/ LoadAdoptVM(c, v, u, n, a, restricted)
             \/ LoadPatchVM(c, v, u, n, a, restricted)
      PROVE  Checked' /\ GroupKept'
  BY <1>1, <1>6, RequestsKeepGroups
<1>7. ASSUME NEW c \in Clients,
             CommitNewGroup(c) \/ CommitDeleteGroup(c) \/ CommitVM(c) \/ RequestFails(c)
      PROVE  Checked' /\ GroupKept'
  BY <1>1, <1>7, CommitsKeepGroups
<1>8. CASE Server
  BY <1>8, <1>3, <1>4, <1>5, <1>6, <1>7 DEF Server
<1>9. CASE Worker \/ ApplyFails \/ UNCHANGED vars
  <2>1. RowsKeepGroup /\ groups' = groups /\ req' = req
    BY <1>9, WorkerKeepsGroups
  <2> QED BY <1>2, <2>1 DEF GroupsStay, Exists
<1> QED BY <1>8, <1>9 DEF Next

--------------------------------------------------------------------------------
(* Copies stay good and firewalls as asked.                                *)

\* What SyncedFirewall and CopyGood speak of.
Shown(v) ==
  /\ v \notin overtaken \union crossed /\ Managed(v) /\ row[v].sync = "synced" /\ ~row[v].leaving
  /\ v \notin open /\ job.v # v
InHand == wpc # "idle" /\ Managed(job.v) /\ ~row[job.v].leaving /\ job.v \notin open

\* The group of a row holds what it held.
GroupSame(v) == groups'[Key(row[v])] = groups[Key(row[v])]

\* What is shown as synced was so before, and nothing it depends on changes.
Undisturbed(v) == Shown(v) /\ pve'[v] = pve[v] /\ Same(row[v], row'[v]) /\ GroupSame(v)

\* The copy in hand was good before, and nothing it depends on changes.
CopyUndisturbed ==
  /\ InHand /\ job' = job /\ Same(row[job.v], row'[job.v])
  /\ wpc' # "picked" /\ job.v \notin overtaken' \union crossed' =>
       wpc # "picked" /\ job.v \notin overtaken \union crossed /\ GroupSame(job.v)

LEMMA SameIsReflexive == \A r : Same(r, r)
  BY DEF Same

LEMMA FirewallsStay ==
  ASSUME SyncedFirewall, \A v \in VMs : Shown(v)' => Undisturbed(v)
  PROVE  SyncedFirewall'
<1> SUFFICES ASSUME NEW v \in VMs, Shown(v)'
             PROVE  pve'[v] = Wanted(row'[v], groups'[Key(row'[v])])
  BY DEF SyncedFirewall, Shown, Managed, Wanted, Key
<1>1. Shown(v) /\ pve'[v] = pve[v] /\ Same(row[v], row'[v]) /\ GroupSame(v)
  BY DEF Undisturbed
<1>2. pve[v] = Wanted(row[v], groups[Key(row[v])])
  BY <1>1 DEF SyncedFirewall, Shown
<1>3. groups'[Key(row'[v])] = groups[Key(row[v])]
  BY <1>1 DEF Same, GroupSame
<1>4. Wanted(row'[v], groups[Key(row[v])]) = Wanted(row[v], groups[Key(row[v])])
  BY <1>1 DEF Same, Wanted
<1> QED BY <1>1, <1>2, <1>3, <1>4

LEMMA CopyStays ==
  ASSUME CopyGood, InHand' => CopyUndisturbed
  PROVE  CopyGood'
<1> SUFFICES ASSUME InHand'
             PROVE  /\ Key(job') = Key(row'[job'.v]) /\ job'.addr = row'[job'.v].addr
                    /\ job'.restricted = row'[job'.v].restricted
                    /\ wpc' # "picked" /\ job'.v \notin overtaken' \union crossed' =>
                         job'.content = groups'[Key(row'[job'.v])]
  BY DEF CopyGood, InHand, Managed, Key
<1>1. InHand /\ job' = job /\ Same(row[job.v], row'[job.v])
  BY DEF CopyUndisturbed
<1>2. Key(job) = Key(row[job.v]) /\ job.addr = row[job.v].addr
      /\ job.restricted = row[job.v].restricted
  BY <1>1 DEF CopyGood, InHand
<1>3. ASSUME wpc' # "picked", job.v \notin overtaken' \union crossed'
      PROVE  job.content = groups'[Key(row'[job.v])]
  <2>1. wpc # "picked" /\ job.v \notin overtaken \union crossed /\ GroupSame(job.v)
    BY <1>3 DEF CopyUndisturbed
  <2>2. job.content = groups[Key(row[job.v])]
    BY <1>1, <2>1 DEF CopyGood, InHand
  <2> QED BY <1>1, <2>1, <2>2 DEF Same, GroupSame
<1> QED BY <1>1, <1>2, <1>3 DEF Same

\* Groups are added and removed, none that a VM has changes.
LEMMA GroupStep ==
  ASSUME CopyGood, SyncedFirewall, UNCHANGED <<fwVars, row, open, overtaken>>,
         crossed \subseteq crossed',
         \A v \in VMs \ crossed : Managed(v) => GroupSame(v), TypeOK
  PROVE  CopyGood' /\ SyncedFirewall'
<1>1. UNCHANGED <<pve, wpc, job>>
  BY DEF fwVars
<1>2. InHand' => CopyUndisturbed
  <2>1. InHand' => InHand /\ job.v \in VMs
    BY <1>1, Typed, JobInHand DEF InHand, Managed
  <2> QED BY <1>1, <2>1, SameIsReflexive DEF CopyUndisturbed, InHand
<1>3. \A v \in VMs : Shown(v)' => Undisturbed(v)
  BY <1>1, SameIsReflexive DEF Shown, Undisturbed, Managed
<1> QED BY <1>2, <1>3, CopyStays, FirewallsStay

\* One row is written in a way that does not leave it synced.
LEMMA RowStep ==
  ASSUME CopyGood, SyncedFirewall, TypeOK, NEW v \in VMs, UNCHANGED <<fwVars, groups, overtaken>>,
         crossed \subseteq crossed',
         \A w \in VMs : w # v => row'[w] = row[w] /\ (w \in open' <=> w \in open),
         row'[v].leaving \/ v \in open'
  PROVE  CopyGood' /\ SyncedFirewall'
<1>1. UNCHANGED <<pve, wpc, job>>
  BY DEF fwVars
<1>2. InHand' => CopyUndisturbed
  <2>1. InHand' => job.v \in VMs /\ job.v # v
    BY <1>1, Typed, JobInHand DEF InHand
  <2>2. InHand' => row'[job.v] = row[job.v] /\ (job.v \in open' <=> job.v \in open)
    BY <2>1
  <2>3. InHand' => InHand
    BY <1>1, <2>2 DEF InHand, Managed
  <2> QED BY <1>1, <2>2, <2>3, SameIsReflexive DEF CopyUndisturbed, GroupSame
<1>3. \A w \in VMs : Shown(w)' => Undisturbed(w)
  <2> SUFFICES ASSUME NEW w \in VMs, Shown(w)'
               PROVE  Undisturbed(w)
    OBVIOUS
  <2>1. w # v
    BY DEF Shown
  <2>2. row'[w] = row[w] /\ (w \in open' <=> w \in open)
    BY <2>1
  <2>3. Shown(w)
    BY <1>1, <2>2 DEF Shown, Managed
  <2> QED BY <1>1, <2>2, <2>3, SameIsReflexive DEF Undisturbed, GroupSame
<1> QED BY <1>2, <1>3, CopyStays, FirewallsStay

\* handlePatchSecurityGroup: the VMs of the group are no longer synced, and the
\* one in hand is overtaken.
LEMMA PatchStep ==
  ASSUME CopyGood, SyncedFirewall, TypeOK, NEW c \in Clients, NEW k \in Keys,
         NEW content \in Contents, PatchGroup(c, k, content)
  PROVE  CopyGood' /\ SyncedFirewall'
<1>1. UNCHANGED <<pve, wpc, job, open, crossed>>
  BY DEF PatchGroup, fwVars
<1>2. FwOK /\ DbOK
  BY Typed
<1>3. overtaken' = overtaken \union BeingApplied(k)
  BY DEF PatchGroup
<1>4. ASSUME NEW v \in VMs, v \notin UsedBy(k)
      PROVE  row'[v] = row[v] /\ (Managed(v) => GroupSame(v))
  <2>1. row'[v] = row[v]
    BY <1>2, <1>4, PatchGroupMarks
  <2>2. ASSUME Managed(v)
        PROVE  GroupSame(v)
    <3>1. Key(row[v]) # k
      BY <1>4, <2>2 DEF UsedBy
    <3> QED BY <1>2, <3>1 DEF PatchGroup, GroupSame, DbOK
  <2> QED BY <2>1, <2>2
<1>5. ASSUME InHand'
      PROVE  CopyUndisturbed
  <2>1. wpc # "idle" /\ job.v \in VMs
    BY <1>1, <1>2, <1>5, JobInHand DEF InHand
  <2>2. CASE job.v \in UsedBy(k)
    <3>1. Same(row[job.v], row'[job.v]) /\ row'[job.v].leaving = row[job.v].leaving
      BY <1>2, <2>2, PatchGroupMarks
    <3>2. InHand
      BY <1>1, <1>5, <2>1, <2>2, <3>1 DEF InHand, UsedBy
    <3>3. wpc # "picked" => job.v \in overtaken'
      BY <1>3, <2>1, <2>2 DEF BeingApplied
    <3> QED BY <1>1, <3>1, <3>2, <3>3 DEF CopyUndisturbed
  <2>3. CASE job.v \notin UsedBy(k)
    <3>1. row'[job.v] = row[job.v] /\ (Managed(job.v) => GroupSame(job.v))
      BY <1>4, <2>1, <2>3
    <3>2. InHand
      BY <1>1, <1>5, <2>1, <3>1 DEF InHand, Managed
    <3> QED BY <1>1, <1>3, <3>1, <3>2, SameIsReflexive DEF CopyUndisturbed, InHand
  <2> QED BY <2>2, <2>3
<1>6. ASSUME NEW v \in VMs, Shown(v)'
      PROVE  Undisturbed(v)
  <2>1. v \notin UsedBy(k)
    BY <1>2, <1>6, PatchGroupMarks DEF Shown
  <2>2. row'[v] = row[v] /\ (Managed(v) => GroupSame(v))
    BY <1>4, <2>1
  <2>3. Shown(v)
    BY <1>1, <1>3, <1>6, <2>2 DEF Shown, Managed
  <2> QED BY <1>1, <2>2, <2>3, SameIsReflexive DEF Undisturbed, Shown
<1> QED BY <1>5, <1>6, CopyStays, FirewallsStay

LEMMA ServerStep ==
  ASSUME TypeOK, Checked, CopyGood, GroupKept, SyncedFirewall, Server,
         crossed \subseteq crossed'
  PROVE  CopyGood' /\ SyncedFirewall'
<1>1. FwOK /\ DbOK
  BY Typed
<1>2. ASSUME NEW c \in Clients, NEW q, LooksUp(c, q)
      PROVE  CopyGood' /\ SyncedFirewall'
  <2>1. UNCHANGED <<fwVars, row, open, overtaken>> /\ groups' = groups
    BY <1>2 DEF LooksUp
  <2> QED BY <2>1, GroupStep DEF GroupSame
<1>3. ASSUME NEW c \in Clients, NEW k \in Keys, NEW content \in Contents,
             LoadNewGroup(c, k, content) \/ PatchGroup(c, k, content)
      PROVE  CopyGood' /\ SyncedFirewall'
  <2>1. CASE LoadNewGroup(c, k, content)
    BY <1>2, <2>1 DEF LoadNewGroup, Checks
  <2>2. CASE PatchGroup(c, k, content)
    BY <2>2, PatchStep
  <2> QED BY <1>3, <2>1, <2>2
<1>4. ASSUME NEW c \in Clients, NEW k \in Keys, LoadDeleteGroup(c, k)
      PROVE  CopyGood' /\ SyncedFirewall'
  BY <1>2, <1>4 DEF LoadDeleteGroup, Checks
<1>5. ASSUME NEW c \in Clients, NEW v \in VMs, DeleteVM(c, v) \/ RestoreVM(c, v)
      PROVE  CopyGood' /\ SyncedFirewall'
  <2>1. UNCHANGED <<fwVars, groups, overtaken>>
    BY <1>5 DEF DeleteVM, RestoreVM
  <2>2. \A w \in VMs : w # v => row'[w] = row[w]
    BY <1>1, <1>5, LeavingWrites DEF Marks
  <2>3. \A w \in VMs : w # v => (w \in open' <=> w \in open)
    BY <1>5 DEF DeleteVM, RestoreVM
  <2>4. DeleteVM(c, v) => row'[v].leaving
    BY <1>1, LeavingWrites
  <2>5. RestoreVM(c, v) => v \in open'
    BY DEF RestoreVM
  <2> QED BY <1>5, <2>1, <2>2, <2>3, <2>4, <2>5, RowStep
<1>6. ASSUME NEW c \in Clients, NEW v \in VMs, NEW u \in Users, NEW n \in Names,
             NEW a \in Addresses, NEW restricted \in Restrictions
      PROVE  /\ LoadCreateVM(c, v, u, n, a, restricted) => CopyGood' /\ SyncedFirewall'
             /\ LoadAdoptVM(c, v, u, n, a, restricted) => CopyGood' /\ SyncedFirewall'
             /\ LoadPatchVM(c, v, u, n, a, restricted) => CopyGood' /\ SyncedFirewall'
  <2>1. LoadCreateVM(c, v, u, n, a, restricted) => CopyGood' /\ SyncedFirewall'
    BY <1>2 DEF LoadCreateVM, Checks
  <2>2. LoadAdoptVM(c, v, u, n, a, restricted) => CopyGood' /\ SyncedFirewall'
    BY <1>2 DEF LoadAdoptVM
  <2>3. LoadPatchVM(c, v, u, n, a, restricted) => CopyGood' /\ SyncedFirewall'
    BY <1>2 DEF LoadPatchVM, Checks
  <2> QED BY <2>1, <2>2, <2>3
<1>7. ASSUME NEW c \in Clients, CommitNewGroup(c)
      PROVE  CopyGood' /\ SyncedFirewall'
  <2>1. UNCHANGED <<fwVars, row, open, overtaken>> /\ ~Exists(req[c].key)
        /\ groups' = [groups EXCEPT ![req[c].key] = req[c].content]
    BY <1>7 DEF CommitNewGroup
  <2>2. \A v \in VMs \ crossed : Managed(v) => Key(row[v]) # req[c].key /\ Key(row[v]) \in Keys
    BY <1>1, <2>1, ManagedRow, RowFields DEF GroupKept
  <2>3. \A v \in VMs \ crossed : Managed(v) => GroupSame(v)
    BY <1>1, <2>1, <2>2 DEF GroupSame, DbOK
  <2> QED BY <2>1, <2>3, GroupStep
<1>8. ASSUME NEW c \in Clients, CommitDeleteGroup(c)
      PROVE  CopyGood' /\ SyncedFirewall'
  <2>1. UNCHANGED <<fwVars, row, open, overtaken>> /\ UsedBy(req[c].key) \subseteq crossed
        /\ groups' = [groups EXCEPT ![req[c].key] = None]
    BY <1>8 DEF CommitDeleteGroup, Checked
  <2>2. \A v \in VMs \ crossed : Managed(v) => Key(row[v]) # req[c].key /\ Key(row[v]) \in Keys
    BY <1>1, <2>1, ManagedRow, RowFields DEF UsedBy
  <2>3. \A v \in VMs \ crossed : Managed(v) => GroupSame(v)
    BY <1>1, <2>1, <2>2 DEF GroupSame, DbOK
  <2> QED BY <2>1, <2>3, GroupStep
<1>9. ASSUME NEW c \in Clients, CommitVM(c)
      PROVE  CopyGood' /\ SyncedFirewall'
  <2>1. UNCHANGED <<fwVars, groups, overtaken>>
    BY <1>9 DEF CommitVM
  <2>2. PICK v \in VMs : /\ v = req[c].v /\ open' = open \union {v}
                         /\ \A w \in VMs : w # v => row'[w] = row[w]
    BY <1>1, <1>9, CommitVMWrites
  <2> QED BY <2>1, <2>2, RowStep
<1>10. ASSUME NEW c \in Clients, RequestFails(c)
       PROVE  CopyGood' /\ SyncedFirewall'
  <2>1. UNCHANGED <<fwVars, row, open, overtaken>> /\ groups' = groups
    BY <1>10 DEF RequestFails
  <2> QED BY <2>1, GroupStep DEF GroupSame
<1> QED BY <1>3, <1>4, <1>5, <1>6, <1>7, <1>8, <1>9, <1>10 DEF Server

\* No VM is in hand when the worker is idle.
LEMMA NobodyInHand ==
  ASSUME FwOK, wpc = "idle"
  PROVE  job.v \notin VMs
<1>1. job.v = None
  BY DEF FwOK, NoJob
<1> QED BY <1>1, NoneAssumption

LEMMA PickTaskStep ==
  ASSUME TypeOK, CopyGood, SyncedFirewall, NEW v \in VMs, PickTask(v)
  PROVE  CopyGood' /\ SyncedFirewall'
<1>1. FwOK /\ DbOK /\ wpc = "idle"
  BY Typed DEF PickTask
<1>2. /\ UNCHANGED <<pve, groups, row, overtaken, crossed>>
      /\ open' = open \ {v} /\ wpc' = "picked"
  BY DEF PickTask
<1>3. /\ job'.v = v /\ job'.owner = row[v].owner /\ job'.name = row[v].name
      /\ job'.addr = row[v].addr /\ job'.restricted = row[v].restricted
  BY DEF PickTask
<1>4. CopyGood'
  BY <1>2, <1>3 DEF CopyGood, Key
<1>5. ASSUME NEW w \in VMs, Shown(w)'
      PROVE  Undisturbed(w)
  <2>1. w # v /\ w \notin open
    BY <1>2, <1>3, <1>5 DEF Shown
  <2>2. job.v # w
    BY <1>1, NobodyInHand
  <2>3. Shown(w)
    BY <1>2, <1>5, <2>1, <2>2 DEF Shown, Managed
  <2> QED BY <1>2, <2>3, SameIsReflexive DEF Undisturbed, GroupSame
<1> QED BY <1>4, <1>5, FirewallsStay

\* The group of the copy is read, which is the group of the row.
LEMMA LoadGroupStep ==
  ASSUME TypeOK, CopyGood, SyncedFirewall, LoadGroup
  PROVE  CopyGood' /\ SyncedFirewall'
<1>1. FwOK /\ wpc = "picked"
  BY Typed DEF LoadGroup
<1>2. UNCHANGED <<pve, groups, row, open, crossed>> /\ overtaken' = overtaken \ {job.v}
      /\ job' = [job EXCEPT !.content = groups[Key(job)]]
  BY DEF LoadGroup, StartFirewall
<1>3. job \in Job
  BY <1>1, JobInHand
<1>4. /\ job'.v = job.v /\ job'.owner = job.owner /\ job'.name = job.name
      /\ job'.addr = job.addr /\ job'.restricted = job.restricted
      /\ job'.content = groups[Key(job)]
  BY <1>2, <1>3 DEF Job
<1>5. ASSUME InHand'
      PROVE  /\ Key(job') = Key(row'[job'.v]) /\ job'.addr = row'[job'.v].addr
             /\ job'.restricted = row'[job'.v].restricted
             /\ job'.content = groups'[Key(row'[job'.v])]
  <2>1. InHand
    BY <1>1, <1>2, <1>4, <1>5 DEF InHand, Managed
  <2>2. Key(job) = Key(row[job.v]) /\ job.addr = row[job.v].addr
        /\ job.restricted = row[job.v].restricted
    BY <2>1 DEF CopyGood, InHand
  <2>3. Key(job') = Key(job)
    BY <1>4 DEF Key
  <2> QED BY <1>2, <1>4, <2>2, <2>3
<1>6. CopyGood'
  BY <1>5 DEF CopyGood, InHand, Managed, Key
<1>7. ASSUME NEW w \in VMs, Shown(w)'
      PROVE  Undisturbed(w)
  <2>1. Shown(w)
    BY <1>2, <1>4, <1>7 DEF Shown, Managed
  <2> QED BY <1>2, <2>1, SameIsReflexive DEF Undisturbed, GroupSame
<1> QED BY <1>6, <1>7, FirewallsStay

\* EnsureFirewall changes the VM in hand only.
LEMMA ApplyStep ==
  ASSUME TypeOK, CopyGood, SyncedFirewall, Apply
  PROVE  CopyGood' /\ SyncedFirewall'
<1>1. FwOK /\ UNCHANGED <<groups, row, open, overtaken, crossed>>
  BY Typed DEF Apply
<1>2. wpc \notin {"idle", "picked"} /\ wpc' \notin {"idle", "picked"} /\ job' = job
      /\ (pve' = pve \/ \E f : Sets(f))
  BY DEF Apply, EnsureFirewall, DeleteRule, RulesCleared, AddRule, SetOptions, AddEntry,
         DeleteEntry, AddGroupRule, Goto
<1>3. \A w \in VMs : w # job.v => pve'[w] = pve[w]
  BY <1>1, <1>2 DEF Sets, FwOK
<1>4. InHand' => CopyUndisturbed
  <2>1. InHand' => InHand
    BY <1>1, <1>2 DEF InHand, Managed
  <2> QED BY <1>1, <1>2, <2>1, SameIsReflexive DEF CopyUndisturbed, GroupSame
<1>5. ASSUME NEW w \in VMs, Shown(w)'
      PROVE  Undisturbed(w)
  <2>1. Shown(w) /\ w # job.v
    BY <1>1, <1>2, <1>5 DEF Shown, Managed
  <2> QED BY <1>1, <1>3, <2>1, SameIsReflexive DEF Undisturbed, GroupSame
<1> QED BY <1>4, <1>5, CopyStays, FirewallsStay

\* The VM in hand is left: as synced, if its firewall is as asked, or not.
LEMMA LeftStep ==
  ASSUME TypeOK, CopyGood, SyncedFirewall, NEW v \in VMs,
         wpc' = "idle", job.v = v \/ job.v \notin VMs, UNCHANGED <<groups, overtaken, crossed>>,
         \A w \in VMs : w # v => row'[w] = row[w] /\ pve'[w] = pve[w]
                               /\ (w \in open' <=> w \in open),
         Shown(v)' => pve'[v] = Wanted(row'[v], groups[Key(row'[v])])
  PROVE  CopyGood' /\ SyncedFirewall'
<1>1. CopyGood'
  BY DEF CopyGood
<1> SUFFICES ASSUME NEW w \in VMs, Shown(w)'
             PROVE  pve'[w] = Wanted(row'[w], groups[Key(row'[w])])
  BY <1>1 DEF SyncedFirewall, Shown, Managed, Wanted, Key
<1>2. CASE w # v
  <2>1. row'[w] = row[w] /\ pve'[w] = pve[w] /\ (w \in open' <=> w \in open)
    BY <1>2
  <2>2. Shown(w)
    BY <1>2, <2>1 DEF Shown, Managed
  <2> QED BY <2>1, <2>2 DEF SyncedFirewall, Shown
<1> QED BY <1>2

LEMMA MarkSyncedStep ==
  ASSUME TypeOK, Progress, CopyGood, SyncedFirewall, MarkSynced
  PROVE  CopyGood' /\ SyncedFirewall'
<1>1. FwOK /\ DbOK
  BY Typed
<1>2. PICK v \in VMs : v = job.v
  BY <1>1, JobInHand DEF MarkSynced
<1>3. UNCHANGED <<pve, groups, open, overtaken, crossed>> /\ wpc = "mark" /\ wpc' = "idle"
      /\ row' = IF Managed(v) THEN [row EXCEPT ![v].sync = "synced"] ELSE row
  BY <1>2 DEF MarkSynced
<1>4. "synced" \in Syncs
  BY DEF Syncs
<1>5. CASE Managed(v)
  <2>1. Marks(v, "synced") /\ row'[v].leaving = row[v].leaving
    BY <1>1, <1>3, <1>4, <1>5, SyncMarks
  <2>2. ASSUME Shown(v)'
        PROVE  pve'[v] = Wanted(row'[v], groups[Key(row'[v])])
    <3>1. ~row[v].leaving /\ v \notin open /\ v \notin overtaken \union crossed
      BY <1>3, <2>1, <2>2 DEF Shown
    <3>2. /\ Key(job) = Key(row[v]) /\ job.addr = row[v].addr
          /\ job.restricted = row[v].restricted /\ job.content = groups[Key(row[v])]
      BY <1>2, <1>3, <1>5, <3>1 DEF CopyGood
    <3>3. pve[v] = Wanted(job, job.content)
      BY <1>2, <1>3 DEF Progress
    <3>4. Same(row[v], row'[v])
      BY <2>1 DEF Marks
    <3>5. Wanted(row'[v], job.content) = Wanted(job, job.content)
      BY <3>2, <3>4 DEF Same, Wanted
    <3> QED BY <1>3, <3>2, <3>3, <3>4, <3>5 DEF Same
  <2>3. \A w \in VMs : w # v => row'[w] = row[w]
    BY <2>1 DEF Marks
  <2> QED BY <1>2, <1>3, <2>2, <2>3, LeftStep
<1>6. CASE ~Managed(v)
  <2>1. row' = row
    BY <1>3, <1>6
  <2>2. ~Shown(v)'
    BY <1>6, <2>1 DEF Shown, Managed
  <2> QED BY <1>2, <1>3, <2>1, <2>2, LeftStep
<1> QED BY <1>5, <1>6

LEMMA LeaveTaskStep ==
  ASSUME TypeOK, CopyGood, SyncedFirewall, wpc # "idle", LeaveTask
  PROVE  CopyGood' /\ SyncedFirewall'
<1>1. FwOK /\ DbOK
  BY Typed
<1>2. PICK v \in VMs : v = job.v
  BY <1>1, JobInHand
<1>3. UNCHANGED <<groups, overtaken, crossed>> /\ wpc' = "idle"
  BY DEF LeaveTask
<1>4. \A w \in VMs : w # v => pve'[w] = pve[w]
  BY <1>1, <1>2 DEF LeaveTask, Sets, FwOK
<1>5. CASE open' = open \union {v} /\ row' = row
  <2>1. ~Shown(v)'
    BY <1>5 DEF Shown
  <2> QED BY <1>2, <1>3, <1>4, <1>5, <2>1, LeftStep
<1>6. CASE /\ open' = open
           /\ row' = IF Managed(v) THEN [row EXCEPT ![v].sync = "failed"] ELSE row
  <2>1. "failed" \in Syncs
    BY DEF Syncs
  <2>2. CASE Managed(v)
    <3>1. Marks(v, "failed")
      BY <1>1, <1>6, <2>1, <2>2, SyncMarks
    <3>2. ~Shown(v)' /\ \A w \in VMs : w # v => row'[w] = row[w]
      BY <3>1 DEF Marks, Shown
    <3> QED BY <1>2, <1>3, <1>4, <1>6, <3>2, LeftStep
  <2>3. CASE ~Managed(v)
    <3>1. row' = row
      BY <1>6, <2>3
    <3>2. ~Shown(v)'
      BY <2>3, <3>1 DEF Shown, Managed
    <3> QED BY <1>2, <1>3, <1>4, <1>6, <3>1, <3>2, LeftStep
  <2> QED BY <2>2, <2>3
<1> QED BY <1>2, <1>5, <1>6 DEF LeaveTask

LEMMA DestroyVMStep ==
  ASSUME TypeOK, CopyGood, SyncedFirewall, NEW v \in VMs, DestroyVM(v)
  PROVE  CopyGood' /\ SyncedFirewall'
<1>1. FwOK /\ DbOK
  BY Typed
<1>2. UNCHANGED <<groups, overtaken, crossed>> /\ wpc = "idle" /\ wpc' = "idle" /\ open' = open \ {v}
  BY DEF DestroyVM
<1>3. job.v \notin VMs
  BY <1>1, <1>2, NobodyInHand
<1>4. row'[v] = NoRow /\ \A w \in VMs : w # v => row'[w] = row[w]
  BY <1>1, DestroyVMWrites
<1>5. \A w \in VMs : w # v => pve'[w] = pve[w]
  BY <1>1 DEF DestroyVM, FwOK
<1>6. ~Shown(v)'
  BY <1>4, Unwritten DEF Shown, Managed
<1> QED BY <1>2, <1>3, <1>4, <1>5, <1>6, LeftStep

LEMMA FirewallsKept ==
  ASSUME TypeOK, Checked, Progress, CopyGood, GroupKept, SyncedFirewall, [Next]_vars
  PROVE  CopyGood' /\ SyncedFirewall'
<1>1. CASE Server
  BY <1>1, ServerStep, CrossedGrows
<1>2. ASSUME NEW v \in VMs, PickTask(v) \/ DestroyVM(v)
      PROVE  CopyGood' /\ SyncedFirewall'
  BY <1>2, PickTaskStep, DestroyVMStep
<1>3. CASE LoadGroup
  BY <1>3, LoadGroupStep
<1>4. CASE Apply
  BY <1>4, ApplyStep
<1>5. CASE MarkSynced
  BY <1>5, MarkSyncedStep
<1>6. CASE GroupMissing \/ ApplyFails
  <2>1. LeaveTask /\ wpc # "idle"
    BY <1>6 DEF GroupMissing, ApplyFails
  <2> QED BY <2>1, LeaveTaskStep
<1>7. CASE UNCHANGED vars
  <2>1. UNCHANGED <<fwVars, row, open, overtaken, crossed>> /\ groups' = groups
    BY <1>7 DEF vars, fwVars
  <2> QED BY <2>1, GroupStep DEF GroupSame
<1> QED BY <1>1, <1>2, <1>3, <1>4, <1>5, <1>6, <1>7 DEF Next, Worker

LEMMA InitiallyKept == Init => Checked /\ CopyGood /\ GroupKept /\ SyncedFirewall
<1> SUFFICES ASSUME Init
             PROVE  Checked /\ CopyGood /\ GroupKept /\ SyncedFirewall
  OBVIOUS
<1>1. \A v \in VMs : row[v] \in {NoRow, Unmanaged}
  BY DEF Init
<1>2. \A v \in VMs : ~Managed(v)
  BY <1>1, Unwritten DEF Managed
<1>3. \A c \in Clients : req[c].op = "idle"
  BY DEF Init, NoRequest
<1>4. Checked
  BY <1>3 DEF Checked
<1>5. CopyGood
  BY DEF Init, CopyGood
<1> QED BY <1>2, <1>4, <1>5 DEF GroupKept, SyncedFirewall

\* However many requests are in flight: unless a VM was crossed, checks hold
\* until the request writes, copies of rows are good, groups of VMs are there
\* and firewalls shown as synced are as asked.
THEOREM Invariance == Spec => []IInv
<1>1. Init => IInv
  BY Initially, InitiallyKept DEF IInv
<1>2. IInv /\ [Next]_vars => IInv'
  <2> SUFFICES ASSUME IInv, [Next]_vars
               PROVE  IInv'
    OBVIOUS
  <2>1. TypeOK /\ Checked /\ Progress /\ CopyGood /\ GroupKept /\ SyncedFirewall
    BY DEF IInv
  <2>2. TypeOK' /\ Progress'
    BY <2>1, TypedStep
  <2>3. Checked' /\ GroupKept'
    BY <2>1, GroupsKept
  <2>4. CopyGood' /\ SyncedFirewall'
    BY <2>1, FirewallsKept
  <2> QED BY <2>2, <2>3, <2>4 DEF IInv
<1> QED BY <1>1, <1>2, PTL DEF Spec

\* Whatever requests are in flight together, a VM loses its group only if one
\* of its requests and the deletion of that very group were both past their
\* checks at some moment, or if it was adopted by another user's group: no
\* deletion that counts before, or after, the request of a VM takes its group,
\* nor one that a VM awaiting its deletion would need again.
THEOREM GroupKeptHolds == Spec => []GroupKept
<1>1. IInv => GroupKept
  BY DEF IInv
<1> QED BY <1>1, Invariance, PTL

\* Whatever requests to server and PVE are mixed or fail and however often the
\* worker dies, a VM shown as synced with no task left has the firewall its row
\* and its group ask for, unless its group was patched while it was applied or
\* a deletion of the group crossed a request for the VM.
THEOREM SyncedFirewallHolds == Spec => []SyncedFirewall
<1>1. IInv => SyncedFirewall
  BY DEF IInv
<1> QED BY <1>1, Invariance, PTL
================================================================================
