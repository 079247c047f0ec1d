------------------------------ MODULE SerialQueue ------------------------------
(***************************************************************************)
(* What pve-manage promises of the tasks of its VMs: every VM has a queue  *)
(* of numbered tasks; new ones go to the back; the worker carries out one  *)
(* task at a time, always the first of its VM's queue; a task leaves the   *)
(* queue when it is finished, withdrawn or given up, but never while it is *)
(* being carried out, and none comes back.                                 *)
(*                                                                         *)
(* There are no rows, statuses, copies, retries or transactions here:      *)
(* VmQueue shows that VmLifecycle, which has them all, keeps this promise. *)
(***************************************************************************)
EXTENDS Naturals

CONSTANTS
  VMs,
  Numbers,  \* what tasks are numbered with
  Nothing   \* no task is being carried out

VARIABLES
  open,     \* numbers of each VM's tasks that are neither finished nor withdrawn
  exec      \* the task being carried out

vars == <<open, exec>>

Execution == [vm : VMs, seq : Numbers]

Init ==
  /\ open = [v \in VMs |-> {}]
  /\ exec = Nothing

First(v, s) == s \in open[v] /\ \A r \in open[v] : r >= s

\* new is old without some of its tasks and with some tasks behind them.
Continues(old, new) == \A n \in new \ old, s \in old : n > s

\* Tasks are queued and withdrawn, of one VM or of several, while the worker
\* is idle or busy.
Change ==
  /\ open' \in [VMs -> SUBSET Numbers]
  /\ \A v \in VMs : Continues(open[v], open'[v])
  /\ exec # Nothing => exec.seq \in open'[exec.vm]
  /\ UNCHANGED exec

\* The worker starts a task, for the first time or again.
Begin(v, s) ==
  /\ exec = Nothing
  /\ First(v, s)
  /\ exec' = [vm |-> v, seq |-> s]
  /\ UNCHANGED open

\* The worker is through with its task, which leaves the queue or stays.
End ==
  /\ exec # Nothing
  /\ exec' = Nothing
  /\ \/ UNCHANGED open
     \/ open' = [open EXCEPT ![exec.vm] = @ \ {exec.seq}]

\* The worker dies; tasks withdrawn from under it are gone.
Die ==
  /\ exec' = Nothing
  /\ open' \in [VMs -> SUBSET Numbers]
  /\ \A v \in VMs : open'[v] \subseteq open[v]

Next ==
  \/ Change
  \/ \E v \in VMs, s \in Numbers : Begin(v, s)
  \/ End
  \/ Die

Spec == Init /\ [][Next]_vars
================================================================================
