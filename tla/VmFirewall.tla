------------------------------- MODULE VmFirewall -------------------------------
(***************************************************************************)
(* How the worker brings the firewall of one VM to what it should be       *)
(* (syncFirewall, EnsureFirewall): request by request, since each of them  *)
(* may be the last one that gets through.                                  *)
(*                                                                         *)
(* PVE keeps, for every VM, a list of rules in which a rule is named by    *)
(* its position, two default policies (one value here) and a set of        *)
(* addresses the VM may send from.  The list is emptied and filled again;  *)
(* the set is compared and corrected.                                      *)
(*                                                                         *)
(* EXTENDed by SecurityGroups, which says what the worker starts from.     *)
(***************************************************************************)
EXTENDS Naturals, Sequences

CONSTANTS
  VMs,       \* rows of the vms table
  Rules,     \* rules a security group may have
  Contents,  \* bound: what the groups may hold, [rules, policy]
  Addresses, \* bound: addresses of VMs
  Bridge,    \* config: the bridge's ipfilter
  Strange,   \* bound: other addresses a VM's set may hold at first
  Uestc,     \* config: the cluster's group for restricted VMs, a rule as well
  Untouched, \* bound: firewalls a VM may have at first: a clone has its template's,
             \* an adopted VM whatever it was given
  None       \* no group loaded

Policies == {"ACCEPT", "DROP"}
RuleSeq  == Seq(Rules \union {Uestc})
Content  == [rules : Seq(Rules), policy : Policies]

ASSUME ContentAssumption  == Contents \subseteq Content
ASSUME NoneAssumption     == None \notin Content /\ None \notin VMs
ASSUME RuleAssumption     == Uestc \notin Rules

VARIABLES
  pve,  \* the firewall of every VM, as the cluster has it
  wpc,  \* where the worker is
  job,  \* the row and the group it works from
  todo  \* positions: of rules still to be removed, then of those still to be added

fwVars == <<pve, wpc, job, todo>>

CIDRs    == Addresses \union Bridge \union Strange
Firewall == [rules : RuleSeq, policy : Policies, ipset : SUBSET CIDRs]
Working  == {"picked", "clear", "add", "ipset", "mark"}

ASSUME UntouchedAssumption == Untouched \subseteq Firewall

\* FirewallSpec: what a row and the content of its group ask for.
Wanted(vm, content) ==
  [rules  |-> content.rules \o (IF vm.restricted THEN <<Uestc>> ELSE <<>>),
   policy |-> content.policy,
   ipset  |-> {vm.addr} \union Bridge]

\* Mutant: rules are removed from the first position on.
DeleteOrderForward(n) == [i \in 1 .. n |-> i]

\* clearFirewallRules reads the list once and removes from its end.
DeleteOrder(n) == [i \in 1 .. n |-> n - i + 1]

Without(rules, i) == SubSeq(rules, 1, i - 1) \o SubSeq(rules, i + 1, Len(rules))

Sets(f)  == pve' = [pve EXCEPT ![job.v] = f]
Goto(pc) == wpc' = pc /\ UNCHANGED job

--------------------------------------------------------------------------------
\* The list as PVE has it is read; content is what the group holds.
StartFirewall(content) ==
  /\ wpc = "picked"
  /\ wpc' = "clear"
  /\ job' = [job EXCEPT !.content = content]
  /\ todo' = DeleteOrder(Len(pve[job.v].rules))
  /\ UNCHANGED pve

DeleteRule ==
  /\ wpc = "clear" /\ todo # <<>>
  /\ Head(todo) \in 1 .. Len(pve[job.v].rules)
  /\ Sets([pve[job.v] EXCEPT !.rules = Without(@, Head(todo))])
  /\ todo' = Tail(todo)
  /\ UNCHANGED <<wpc, job>>

RulesCleared ==
  /\ wpc = "clear" /\ todo = <<>>
  /\ Goto("add")
  /\ todo' = [i \in DOMAIN job.content.rules |-> i]
  /\ UNCHANGED pve

\* The rule is posted without a position; where PVE puts it is PVE's choice.
\* That it comes after the rules that are there is an assumption of this module:
\* nothing in the repository settles it.
AddRule ==
  /\ wpc = "add" /\ todo # <<>>
  /\ Sets([pve[job.v] EXCEPT !.rules = Append(@, job.content.rules[Head(todo)])])
  /\ todo' = Tail(todo)
  /\ UNCHANGED <<wpc, job>>

SetOptions ==
  /\ wpc = "add" /\ todo = <<>>
  /\ Sets([pve[job.v] EXCEPT !.policy = job.content.policy])
  /\ Goto("ipset")
  /\ UNCHANGED todo

\* ensureVMIPSet: wanted entries first, then those that are not wanted.
MissingEntries == Wanted(job, job.content).ipset \ pve[job.v].ipset

\* Mutant: entries that are no longer wanted stay.
ExcessEntriesKept == {}

ExcessEntries == pve[job.v].ipset \ Wanted(job, job.content).ipset

AddEntry ==
  /\ wpc = "ipset"
  /\ \E e \in MissingEntries : Sets([pve[job.v] EXCEPT !.ipset = @ \union {e}])
  /\ UNCHANGED <<wpc, job, todo>>

DeleteEntry ==
  /\ wpc = "ipset" /\ MissingEntries = {}
  /\ \E e \in ExcessEntries : Sets([pve[job.v] EXCEPT !.ipset = @ \ {e}])
  /\ UNCHANGED <<wpc, job, todo>>

\* ensureVMGroupRules
AddGroupRule ==
  /\ wpc = "ipset" /\ MissingEntries = {} /\ ExcessEntries = {}
  /\ IF job.restricted
     THEN Sets([pve[job.v] EXCEPT !.rules = Append(@, Uestc)])
     ELSE UNCHANGED pve
  /\ Goto("mark")
  /\ UNCHANGED todo

EnsureFirewall ==
  DeleteRule \/ RulesCleared \/ AddRule \/ SetOptions
    \/ AddEntry \/ DeleteEntry \/ AddGroupRule
================================================================================
