-------------------------------- MODULE VmQueue --------------------------------
(***************************************************************************)
(* The refinement mapping from VmLifecycle to SerialQueue.                 *)
(*                                                                         *)
(* A task is open while its row is neither done nor canceled, and as long  *)
(* as the worker holds a copy of it in its batch: the worker writes the    *)
(* row by id without looking at it, so that a task canceled meanwhile may  *)
(* be running, failed and tried again after all.                           *)
(***************************************************************************)
EXTENDS VmLifecycleInv

Nothing == [vm |-> NoVM, seq |-> 0]

Claimed(j) == IF j = NoJob THEN {} ELSE {j.seq}

OpenTasks == [v \in VMs |-> Open(tasks[v]) \union Claimed(batch[v])]

InExecution == IF cur = NoVM THEN Nothing ELSE [vm |-> cur, seq |-> batch[cur].seq]

Queue == INSTANCE SerialQueue
           WITH Numbers <- Seqs, open <- OpenTasks, exec <- InExecution

\* The rows of vm_tasks, the statements of handlers and worker that overwrite
\* them by id, the batch the worker works off from copies, its retries and
\* its crashes (worker.go, syncOnce) together behave like a queue for each VM
\* whose first task alone is ever carried out ("worker 按 `seq` 串行消费",
\* docs/sql-tables.md): what is queued goes to the back, and nothing overtakes.
QueuesAreSerial == Queue!Spec
================================================================================
