----------------------------- MODULE ProvisionProofs -----------------------------
(***************************************************************************)
(* Proofs about Provision, for any nodes, storages, sizes and numbers of   *)
(* attempts: types, and the VM that is as its row asks for once the row is *)
(* shown as synced.                                                        *)
(***************************************************************************)
EXTENDS Provision, TLAPS

--------------------------------------------------------------------------------
(* Tasks and machines.                                                     *)

Tasks    == Task \union {NoTask}
Machines == Machine \union {NoVM}

Moving  == [kind : {"clone", "migrate", "move", "tpm"}, to : Storages, then : Steps, awaited : BOOLEAN]
Growing == [kind : {"resize"}, add : Nat, then : Steps, awaited : BOOLEAN]
Powered == [kind : {"start", "shutdown", "stop"}, then : Steps, awaited : BOOLEAN]

LEMMA Kinds == Tasks = Moving \union Growing \union Powered \union {NoTask}
  BY DEF Tasks, Task, Moving, Growing, Powered

\* No task is one of the kind "none".
LEMMA TaskKinds ==
  ASSUME NEW t \in Tasks
  PROVE  /\ t = NoTask <=> t.kind = "none"
         /\ t.awaited \in BOOLEAN /\ (t = NoTask => ~t.awaited)
         /\ t.kind \in {"none", "clone", "migrate", "move", "tpm", "resize", "start", "shutdown", "stop"}
         /\ t.kind \in {"clone", "migrate", "move", "tpm"} => t.to \in Storages
         /\ t.kind = "resize" => t.add \in Nat
<1>1. CASE t \in Moving
  BY <1>1 DEF Moving, NoTask
<1>2. CASE t \in Growing
  BY <1>2 DEF Growing, NoTask
<1>3. CASE t \in Powered
  BY <1>3 DEF Powered, NoTask
<1>4. CASE t = NoTask
  BY <1>4 DEF NoTask
<1> QED BY <1>1, <1>2, <1>3, <1>4, Kinds

\* Nobody waits for the task any longer.
LEMMA Abandoned ==
  ASSUME NEW t \in Tasks, NEW u, u = [t EXCEPT !.awaited = FALSE]
  PROVE  u \in Tasks /\ ~u.awaited /\ u.kind = t.kind
<1>1. CASE t \in Moving
  <2>1. u \in Moving /\ ~u.awaited /\ u.kind = t.kind
    BY <1>1 DEF Moving
  <2> QED BY <2>1, Kinds
<1>2. CASE t \in Growing
  <2>1. u \in Growing /\ ~u.awaited /\ u.kind = t.kind
    BY <1>2 DEF Growing
  <2> QED BY <2>1, Kinds
<1>3. CASE t \in Powered
  <2>1. u \in Powered /\ ~u.awaited /\ u.kind = t.kind
    BY <1>3 DEF Powered
  <2> QED BY <2>1, Kinds
<1>4. CASE t = NoTask
  <2>1. u = NoTask
    BY <1>4 DEF NoTask
  <2> QED BY <1>4, <2>1, Kinds, TaskKinds
<1> QED BY <1>1, <1>2, <1>3, <1>4, Kinds

LEMMA Stopped ==
  ASSUME NEW t \in Tasks, t.kind = "shutdown", NEW u, u = [t EXCEPT !.kind = "stop"]
  PROVE  u \in Task /\ u.awaited = t.awaited /\ u.kind = "stop" /\ u.then = t.then
  BY DEF Tasks, Task, NoTask

LEMMA Machinery ==
  ASSUME NEW m \in Machines
  PROVE  m # NoVM => /\ m \in Machine /\ m.node \in Nodes /\ m.disk \in Nat
                     /\ m.storage \in Storages /\ m.tpm \in Storages
                     /\ m.power \in {"running", "stopped"}
  BY DEF Machines, Machine

LEMMA NoMachine == \A m \in Machine : m # NoVM
<1> SUFFICES ASSUME NEW m \in Machine, m = NoVM
             PROVE  FALSE
  OBVIOUS
<1>1. DOMAIN m = {"node", "disk", "storage", "tpm", "power"}
  BY DEF Machine
<1>2. DOMAIN NoVM = {"node"}
  BY DEF NoVM
<1> QED BY <1>1, <1>2

LEMMA JobFields ==
  ASSUME NEW j \in Job
  PROVE  /\ j.want \in Wanted /\ j.created \in BOOLEAN
         /\ j.cfg \in Machines /\ j.left \in 0 .. Attempts - 1
         /\ j.want.disk \in Nat /\ j.want.disk \in Disks /\ TemplateDisk <= j.want.disk
         /\ j.want.storage \in Storages /\ j.want.power \in {"running", "stopped"}
  BY DiskAssumption, PowerAssumption DEF Job, Wanted, Machines

LEMMA NoJobIsNone == \A j \in Job : j # NoJob
<1> SUFFICES ASSUME NEW j \in Job, j = NoJob
             PROVE  FALSE
  OBVIOUS
<1>1. DOMAIN j = {"want", "created", "cfg", "left"}
  BY DEF Job
<1>2. DOMAIN NoJob = {"created"}
  BY DEF NoJob
<1> QED BY <1>1, <1>2

LEMMA WantFields ==
  ASSUME NEW w \in Wanted
  PROVE  w.disk \in Disks /\ w.disk \in Nat /\ w.storage \in Storages /\ w.power \in Powers
         /\ TemplateDisk <= w.disk
  BY DiskAssumption DEF Wanted

LEMMA AtWork ==
  ASSUME TypeOK
  PROVE  /\ op \in Tasks /\ vm \in Machines
         /\ wpc # "idle" => job \in Job
         /\ TemplateDisk \in Nat
  BY DiskAssumption DEF TypeOK, Tasks, Machines

--------------------------------------------------------------------------------
(* What a task does to the VM.                                             *)

LEMMA CloneDone ==
  ASSUME NEW t \in Tasks, t.kind = "clone"
  PROVE  /\ Done(t) \in Machine
         /\ Done(t).node = TemplateNode /\ Done(t).disk = TemplateDisk
<1>1. t.to \in Storages
  BY TaskKinds
<1>2. Done(t) = [node |-> TemplateNode, disk |-> TemplateDisk, storage |-> t.to,
                 tpm |-> t.to, power |-> "stopped"]
  BY DEF Done
<1> QED BY <1>1, <1>2, NodeAssumption, DiskAssumption DEF Machine

LEMMA MigrateDone ==
  ASSUME vm \in Machine, NEW t \in Tasks, t.kind = "migrate"
  PROVE  /\ Done(t) \in Machine
         /\ Done(t).node = TargetNode /\ Done(t).disk = vm.disk
<1>1. t.to \in Storages
  BY TaskKinds
<1>2. Done(t) = [vm EXCEPT !.node = TargetNode, !.storage = t.to, !.tpm = t.to]
  BY DEF Done
<1> QED BY <1>1, <1>2, NodeAssumption DEF Machine

LEMMA MoveDone ==
  ASSUME vm \in Machine, NEW t \in Tasks, t.kind \in {"move", "tpm"}
  PROVE  /\ Done(t) \in Machine
         /\ Done(t).node = vm.node /\ Done(t).disk = vm.disk /\ Done(t).power = vm.power
         /\ t.kind = "move" => Done(t).storage = t.to /\ Done(t).tpm = vm.tpm
         /\ t.kind = "tpm"  => Done(t).tpm = t.to /\ Done(t).storage = vm.storage
<1>1. t.to \in Storages
  BY TaskKinds
<1>2. CASE t.kind = "move"
  <2>1. Done(t) = [vm EXCEPT !.storage = t.to]
    BY <1>2 DEF Done
  <2> QED BY <1>1, <1>2, <2>1 DEF Machine
<1>3. CASE t.kind = "tpm"
  <2>1. Done(t) = [vm EXCEPT !.tpm = t.to]
    BY <1>3 DEF Done
  <2> QED BY <1>1, <1>3, <2>1 DEF Machine
<1> QED BY <1>2, <1>3

LEMMA ResizeDone ==
  ASSUME vm \in Machine, NEW t \in Tasks, t.kind = "resize"
  PROVE  /\ Done(t) \in Machine
         /\ Done(t).node = vm.node /\ Done(t).disk = vm.disk + t.add /\ Done(t).power = vm.power
         /\ Done(t).storage = vm.storage /\ Done(t).tpm = vm.tpm
<1>1. t.add \in Nat
  BY TaskKinds
<1>2. Done(t) = [vm EXCEPT !.disk = vm.disk + t.add]
  BY DEF Done
<1> QED BY <1>1, <1>2 DEF Machine

LEMMA PowerDone ==
  ASSUME vm \in Machine, NEW t \in Tasks, t.kind \in {"start", "shutdown", "stop"}
  PROVE  /\ Done(t) \in Machine
         /\ Done(t).node = vm.node /\ Done(t).disk = vm.disk
         /\ Done(t).storage = vm.storage /\ Done(t).tpm = vm.tpm
         /\ Done(t).power = IF t.kind = "start" THEN "running" ELSE "stopped"
<1>1. CASE t.kind = "start"
  <2>1. Done(t) = [vm EXCEPT !.power = "running"]
    BY <1>1 DEF Done
  <2> QED BY <1>1, <2>1 DEF Machine
<1>2. CASE t.kind \in {"shutdown", "stop"}
  <2>1. Done(t) = [vm EXCEPT !.power = "stopped"]
    BY <1>2 DEF Done
  <2> QED BY <1>2, <2>1 DEF Machine
<1> QED BY <1>1, <1>2

--------------------------------------------------------------------------------
(* Tasks that are begun and steps that are skipped.                        *)

\* A task the worker waits for is begun.
LEMMA BeginsKeeps ==
  ASSUME IInv, NEW t \in Task, Begins(t), t.awaited, wpc \notin {"idle", "mark"},
         t.kind = "clone" <=> vm = NoVM, AwaitedTask'
  PROVE  IInv'
<1>1. /\ UNCHANGED <<vm, want, sync, open, wpc, job, astray, late, blind>>
      /\ op' = t /\ op = NoTask
  BY DEF Begins, histories
<1>2. TypeOK /\ Present /\ CopyGood /\ Seen /\ Watched /\ OnItsNode /\ DiskWithin
  BY DEF IInv
<1>3. TypeOK'
  BY <1>1, <1>2 DEF TypeOK
<1>4. Present' /\ CopyGood'
  BY <1>1, <1>2 DEF Present, CopyGood
<1>5. Seen'
  BY <1>1, <1>2 DEF Seen
<1>6. Watched' /\ OnItsNode'
  BY <1>1, <1>2 DEF Watched, OnItsNode
<1>7. Settled' /\ DoneAsAsked' /\ DiskWithin'
  BY <1>1, <1>2 DEF Settled, DoneAsAsked, DiskWithin
<1> QED BY <1>3, <1>4, <1>5, <1>6, <1>7 DEF IInv

\* Nothing is to be done at this step.
LEMMA SkipsKeeps ==
  ASSUME IInv, NEW step \in Steps, Skips(step), wpc \notin {"idle", "migrate"}, ~op.awaited,
         Present', Seen', step \in Configuring => wpc \in Configuring
  PROVE  IInv'
<1>1. /\ UNCHANGED <<vm, op, want, sync, open, job, astray, late, blind>>
      /\ wpc' = step /\ step # "idle"
  BY DEF Skips, Goto, histories, Steps
<1>2. TypeOK /\ CopyGood /\ Watched /\ OnItsNode /\ DiskWithin
  BY DEF IInv
<1>3. TypeOK'
  BY <1>1, <1>2 DEF TypeOK
<1>4. AwaitedTask' /\ CopyGood'
  BY <1>1, <1>2 DEF AwaitedTask, CopyGood
<1>5. Watched' /\ OnItsNode'
  BY <1>1, <1>2 DEF Watched, OnItsNode
<1>6. Settled' /\ DoneAsAsked' /\ DiskWithin'
  BY <1>1, <1>2 DEF Settled, DoneAsAsked, DiskWithin
<1> QED BY <1>3, <1>4, <1>5, <1>6 DEF IInv

--------------------------------------------------------------------------------
(* Requests and the cluster.                                               *)

\* handlePatchVM
LEMMA PatchVMKeeps ==
  ASSUME IInv, NEW w \in Wanted, PatchVM(w)
  PROVE  IInv'
<1>1. /\ UNCHANGED <<vm, op, wpc, job, astray, late, blind>>
      /\ want' = w /\ sync' = "pending" /\ open' = Attempts /\ want.disk <= w.disk
  BY DEF PatchVM, histories
<1>2. TypeOK /\ AwaitedTask /\ Present /\ CopyGood /\ Seen /\ Watched /\ OnItsNode /\ DiskWithin
  BY DEF IInv
<1>3. want \in Wanted /\ want.disk \in Nat /\ w.disk \in Nat
  BY <1>2, WantFields DEF TypeOK
<1>4. Attempts \in Nat /\ Attempts # 0 /\ Attempts \in 0 .. Attempts
  BY AttemptAssumption
<1>5. TypeOK'
  BY <1>1, <1>2, <1>4 DEF TypeOK
<1>6. AwaitedTask' /\ Present' /\ Seen' /\ Watched' /\ OnItsNode'
  BY <1>1, <1>2 DEF AwaitedTask, Present, Seen, Watched, OnItsNode
<1>7. CopyGood'
  <2>1. wpc # "idle" => job.want.disk \in Nat
    BY <1>2, AtWork, JobFields
  <2> QED BY <1>1, <1>2, <1>3, <1>4, <2>1 DEF CopyGood
<1>8. Settled' /\ DoneAsAsked'
  BY <1>1 DEF Settled, DoneAsAsked
<1>9. DiskWithin'
  <2>1. vm # NoVM => vm.disk \in Nat
    BY <1>2, AtWork, Machinery
  <2> QED BY <1>1, <1>2, <1>3, <2>1 DEF DiskWithin
<1> QED BY <1>5, <1>6, <1>7, <1>8, <1>9 DEF IInv

LEMMA UnwatchedTaskFailsKeeps ==
  ASSUME IInv, UnwatchedTaskFails
  PROVE  IInv'
<1>1. /\ UNCHANGED <<vm, want, sync, open, wpc, job, astray, late, blind>>
      /\ op' = NoTask /\ op # NoTask /\ ~op.awaited
  BY DEF UnwatchedTaskFails, histories
<1>2. TypeOK /\ Present /\ CopyGood /\ Seen /\ Watched /\ OnItsNode /\ Settled /\ DoneAsAsked
      /\ DiskWithin
  BY DEF IInv
<1>3. NoTask.kind = "none" /\ ~NoTask.awaited
  BY DEF NoTask
<1>4. TypeOK'
  BY <1>1, <1>2, <1>3 DEF TypeOK
<1>5. AwaitedTask' /\ Present' /\ CopyGood'
  BY <1>1, <1>2, <1>3 DEF AwaitedTask, Present, CopyGood
<1>6. Seen' /\ Watched' /\ OnItsNode'
  BY <1>1, <1>2, <1>3 DEF Seen, Watched, OnItsNode
<1>7. Settled' /\ DoneAsAsked' /\ DiskWithin'
  BY <1>1, <1>2 DEF Settled, DoneAsAsked, DiskWithin
<1> QED BY <1>4, <1>5, <1>6, <1>7 DEF IInv

\* The VM after a task; a clone is made where there is none, everything else is
\* done to a VM that is there.
LEMMA Succeeded ==
  ASSUME IInv, TaskSucceeds
  PROVE  /\ op \in Tasks /\ op' = NoTask /\ vm' = Done(op) /\ vm' \in Machine
         /\ op.kind \in {"clone", "migrate", "move", "tpm", "resize", "start", "shutdown", "stop"}
         /\ op.kind # "clone" => vm \in Machine
<1>1. op \in Tasks /\ op # NoTask /\ op' = NoTask /\ vm' = Done(op)
  BY AtWork DEF TaskSucceeds, IInv
<1>2. op.kind \in {"clone", "migrate", "move", "tpm", "resize", "start", "shutdown", "stop"}
  BY <1>1, TaskKinds
<1>3. op.kind # "clone" => vm \in Machine
  BY <1>2, AtWork, Machinery DEF IInv, TypeOK
<1>4. vm' \in Machine
  BY <1>1, <1>2, <1>3, CloneDone, MigrateDone, MoveDone, ResizeDone, PowerDone
<1> QED BY <1>1, <1>2, <1>3, <1>4

LEMMA UnawaitedSucceeds ==
  ASSUME IInv, TaskSucceeds, ~op.awaited
  PROVE  IInv'
<1>1. UNCHANGED <<want, sync, open, wpc, job, astray, late, blind>> /\ op # NoTask
  BY DEF TaskSucceeds, histories
<1>2. TypeOK /\ Present /\ CopyGood /\ Seen /\ Watched /\ OnItsNode /\ Settled /\ DoneAsAsked
  BY DEF IInv
<1>3. op \in Tasks /\ op' = NoTask /\ vm' = Done(op) /\ vm' \in Machine /\ vm' # NoVM
  BY Succeeded, NoMachine
<1>4. NoTask.kind = "none" /\ ~NoTask.awaited
  BY DEF NoTask
<1>5. TypeOK'
  BY <1>1, <1>2, <1>3, <1>4 DEF TypeOK
<1>6. AwaitedTask' /\ Present' /\ CopyGood'
  BY <1>1, <1>2, <1>3, <1>4 DEF AwaitedTask, Present, CopyGood
<1>7. Seen' /\ Watched' /\ late
  BY <1>1, <1>2 DEF Seen, Watched
<1>8. OnItsNode'
  <2>1. ~astray => op.kind # "clone"
    BY <1>2 DEF OnItsNode
  <2>2. op.kind # "clone" => /\ vm \in Machine /\ vm # NoVM
                             /\ vm'.node \in {vm.node, TargetNode}
    BY <1>3, Succeeded, NoMachine, MigrateDone, MoveDone, ResizeDone, PowerDone
  <2> QED BY <1>1, <1>2, <1>3, <1>4, <2>1, <2>2 DEF OnItsNode
<1>9. Settled' /\ DiskWithin'
  BY <1>1, <1>3, <1>7 DEF Settled, DiskWithin
<1>10. DoneAsAsked'
  BY <1>1, <1>2, <1>3, <1>8 DEF DoneAsAsked, Settled, OnItsNode
<1> QED BY <1>5, <1>6, <1>7, <1>8, <1>9, <1>10 DEF IInv

LEMMA AwaitedSucceeds ==
  ASSUME IInv, TaskSucceeds, op.awaited
  PROVE  IInv'
<1>1. /\ UNCHANGED <<want, sync, open, astray, late, blind>>
      /\ wpc' = op.then /\ job' = [job EXCEPT !.created = @ \/ (op.then = "read")]
      /\ wpc # "idle" /\ op # NoTask /\ Possible(op)
  BY DEF TaskSucceeds, histories, IInv, TypeOK
<1>2. TypeOK /\ AwaitedTask /\ Present /\ CopyGood /\ Seen /\ Watched /\ OnItsNode /\ DiskWithin
  BY DEF IInv
<1>3. /\ op \in Tasks /\ op' = NoTask /\ vm' = Done(op) /\ vm' \in Machine /\ vm' # NoVM
      /\ op.kind # "clone" => vm \in Machine
  BY Succeeded, NoMachine
<1>4. NoTask.kind = "none" /\ ~NoTask.awaited
  BY DEF NoTask
<1>5. job \in Job /\ job.created \in BOOLEAN
  BY <1>1, <1>2, AtWork, JobFields
<1>6. PICK created \in BOOLEAN : created = (job.created \/ (op.then = "read"))
  OBVIOUS
<1>7. /\ job' \in Job /\ job' # NoJob
      /\ job'.want = job.want /\ job'.cfg = job.cfg
  <2>1. job' = [job EXCEPT !.created = created]
    BY <1>1, <1>6
  <2>2. job' \in Job /\ job'.want = job.want /\ job'.cfg = job.cfg
    BY <1>5, <2>1 DEF Job
  <2> QED BY <2>2, NoJobIsNone
<1>8. wpc' \in Steps /\ wpc' # "idle"
  BY <1>1, <1>2 DEF AwaitedTask, Steps
<1>9. TypeOK'
  BY <1>1, <1>2, <1>3, <1>4, <1>7, <1>8 DEF TypeOK
<1>10. AwaitedTask' /\ CopyGood' /\ Settled' /\ DoneAsAsked'
  BY <1>1, <1>2, <1>3, <1>4, <1>7, <1>8 DEF AwaitedTask, CopyGood, Settled, DoneAsAsked
<1>11. want.disk \in Nat /\ TemplateDisk <= want.disk /\ job.want.disk \in Nat
       /\ job.want.disk <= want.disk
  BY <1>1, <1>2, <1>5, WantFields, JobFields DEF TypeOK, CopyGood
<1>12. Present' /\ Watched'
  <2>1. wpc' \in Configuring => wpc \in Configuring
    BY <1>1, <1>2 DEF AwaitedTask, Configuring
  <2> QED BY <1>1, <1>2, <1>3, <1>4, <1>7, <2>1 DEF Present, Watched
<1>13. Seen' /\ OnItsNode' /\ DiskWithin'
  <2>1. CASE wpc = "find"
    <3>1. op.kind = "clone" /\ op.then = IF TargetNode = TemplateNode THEN "read" ELSE "migrate"
      BY <1>1, <1>2, <2>1 DEF AwaitedTask
    <3>2. vm'.node = TemplateNode /\ vm'.disk = TemplateDisk
      BY <1>3, <3>1, CloneDone
    <3> QED BY <1>1, <1>3, <1>4, <1>11, <3>1, <3>2 DEF Seen, OnItsNode, DiskWithin, Configuring
  <2>2. CASE wpc = "migrate"
    <3>1. op.kind = "migrate" /\ op.then = "read"
      BY <1>1, <1>2, <2>2 DEF AwaitedTask
    <3>2. vm'.node = TargetNode /\ vm'.disk = vm.disk /\ vm # NoVM
      BY <1>2, <1>3, <2>2, <3>1, MigrateDone DEF Present
    <3> QED BY <1>1, <1>2, <1>3, <1>4, <3>1, <3>2 DEF Seen, OnItsNode, DiskWithin, Configuring
  <2>3. ASSUME wpc \in {"move", "tpm", "resize", "power"}
        PROVE  /\ wpc \in Configuring /\ vm # NoVM /\ vm \in Machine
               /\ vm'.node = vm.node
               /\ op.kind # "resize" => vm'.disk = vm.disk
    <3>1. wpc \in Configuring /\ op.kind \in {"move", "tpm", "resize", "start", "shutdown", "stop"}
      BY <1>1, <1>2, <2>3 DEF AwaitedTask, Configuring
    <3>2. vm # NoVM /\ vm \in Machine
      BY <1>2, <1>3, <3>1 DEF Present
    <3> QED BY <1>3, <3>1, <3>2, MoveDone, ResizeDone, PowerDone
  <2>4. wpc \in {"move", "tpm", "resize", "power"} => OnItsNode'
    BY <1>1, <1>2, <1>3, <1>4, <2>3 DEF OnItsNode
  <2>5. CASE wpc = "move"
    <3>1. op.kind = "move" /\ op.to = job.want.storage /\ op.then = "tpm"
      BY <1>1, <1>2, <2>5 DEF AwaitedTask
    <3>2. vm'.storage = job.want.storage /\ vm'.tpm = vm.tpm /\ vm'.disk = vm.disk
      BY <1>3, <2>3, <2>5, <3>1, MoveDone
    <3>3. Seen'
      BY <1>1, <1>2, <1>3, <1>7, <2>3, <2>5, <3>1, <3>2 DEF Seen
    <3> QED BY <1>1, <1>2, <2>3, <2>4, <2>5, <3>2, <3>3 DEF DiskWithin
  <2>6. CASE wpc = "tpm" /\ op.kind = "tpm"
    <3>1. op.to = TPM /\ op.then = "resize"
      BY <1>1, <1>2, <2>6 DEF AwaitedTask
    <3>2. vm'.storage = vm.storage /\ vm'.tpm = TPM /\ vm'.disk = vm.disk
      BY <1>3, <2>3, <2>6, <3>1, MoveDone
    <3>3. Seen'
      BY <1>1, <1>2, <1>3, <1>7, <2>3, <2>6, <3>1, <3>2 DEF Seen
    <3> QED BY <1>1, <1>2, <2>3, <2>4, <2>6, <3>2, <3>3 DEF DiskWithin
  <2>7. CASE wpc = "tpm" /\ op.kind # "tpm"
    <3>1. op.kind \in {"shutdown", "stop"} /\ op.then = "tpm"
      BY <1>1, <1>2, <2>7 DEF AwaitedTask
    <3>2. vm'.storage = vm.storage /\ vm'.tpm = vm.tpm /\ vm'.disk = vm.disk
      BY <1>3, <2>3, <2>7, <3>1, PowerDone
    <3>3. Seen'
      BY <1>1, <1>2, <1>3, <1>7, <2>3, <2>7, <3>1, <3>2 DEF Seen
    <3> QED BY <1>1, <1>2, <2>3, <2>4, <2>7, <3>2, <3>3 DEF DiskWithin
  <2>8. CASE wpc = "resize"
    <3>1. op.kind = "resize" /\ job.cfg.disk + op.add = job.want.disk /\ op.then = "power"
      BY <1>1, <1>2, <2>8 DEF AwaitedTask
    <3>2. vm'.storage = vm.storage /\ vm'.tpm = vm.tpm /\ vm'.disk = vm.disk + op.add
      BY <1>3, <2>3, <2>8, <3>1, ResizeDone
    <3>3. ~blind => vm'.disk = job.want.disk
      BY <1>2, <2>3, <2>8, <3>1, <3>2 DEF Seen
    <3>4. Seen'
      BY <1>1, <1>2, <1>3, <1>7, <2>3, <2>8, <3>1, <3>2, <3>3 DEF Seen
    <3>5. DiskWithin'
      BY <1>1, <1>2, <1>11, <2>3, <2>8, <3>3 DEF DiskWithin, Watched
    <3> QED BY <2>4, <2>8, <3>4, <3>5
  <2>9. CASE wpc = "power"
    <3>1. /\ op.then = "mark"
          /\ \/ op.kind = "start" /\ job.want.power = "running"
             \/ op.kind \in {"shutdown", "stop"} /\ job.want.power = "stopped"
      BY <1>1, <1>2, <2>9 DEF AwaitedTask
    <3>2. vm'.storage = vm.storage /\ vm'.tpm = vm.tpm /\ vm'.disk = vm.disk
          /\ vm'.power = job.want.power
      BY <1>3, <2>3, <2>9, <3>1, PowerDone
    <3>3. Seen'
      BY <1>1, <1>2, <1>3, <1>7, <2>3, <2>9, <3>1, <3>2 DEF Seen
    <3> QED BY <1>1, <1>2, <2>3, <2>4, <2>9, <3>2, <3>3 DEF DiskWithin
  <2> QED BY <1>1, <1>2, <2>1, <2>2, <2>5, <2>6, <2>7, <2>8, <2>9 DEF AwaitedTask
<1> QED BY <1>9, <1>10, <1>12, <1>13 DEF IInv

--------------------------------------------------------------------------------
(* The worker.                                                             *)

LEMMA PickTaskKeeps ==
  ASSUME IInv, PickTask
  PROVE  IInv'
<1>1. /\ UNCHANGED <<vm, op, want, sync, astray, late, blind>>
      /\ wpc = "idle" /\ open > 0 /\ open' = 0 /\ wpc' = "find"
      /\ job' = [want |-> want, created |-> FALSE, cfg |-> NoVM, left |-> open - 1]
  BY DEF PickTask, histories
<1>2. TypeOK /\ AwaitedTask /\ Present /\ Watched /\ OnItsNode /\ DiskWithin
  BY DEF IInv
<1>3. want \in Wanted /\ want.disk \in Nat /\ open - 1 \in 0 .. Attempts - 1
      /\ 0 \in 0 .. Attempts
  BY <1>1, <1>2, WantFields, AttemptAssumption DEF TypeOK
<1>4. job' \in Job /\ job' # NoJob /\ job'.want = want
  <2>1. job' \in Job /\ job'.want = want
    BY <1>1, <1>3 DEF Job
  <2> QED BY <2>1, NoJobIsNone
<1>5. TypeOK'
  BY <1>1, <1>2, <1>3, <1>4 DEF TypeOK, Steps
<1>6. ~op.awaited
  BY <1>1, <1>2 DEF TypeOK
<1>7. AwaitedTask' /\ Present' /\ CopyGood'
  BY <1>1, <1>2, <1>3, <1>4, <1>6 DEF AwaitedTask, Present, CopyGood, Configuring
<1>8. Seen' /\ Watched' /\ OnItsNode'
  BY <1>1, <1>2, <1>6 DEF Seen, Watched, OnItsNode, Configuring
<1>9. Settled' /\ DoneAsAsked' /\ DiskWithin'
  BY <1>1, <1>2 DEF Settled, DoneAsAsked, DiskWithin
<1> QED BY <1>5, <1>7, <1>8, <1>9 DEF IInv

\* The steps that begin nothing.
LEMMA SkippedSteps ==
  ASSUME IInv, FindVM \/ SetVMConfig \/ DiskInPlace \/ TPMInPlace \/ DiskLargeEnough \/ PowerAsAsked
  PROVE  IInv'
<1>1. Present /\ Seen
  BY DEF IInv
<1>2. CASE FindVM
  <2>1. Skips("read") /\ wpc = "find" /\ ~op.awaited /\ UNCHANGED <<vm, op>> /\ wpc' = "read"
    BY <1>2 DEF FindVM, At, Skips, Goto
  <2>2. Present' /\ Seen'
    BY <1>1, <2>1 DEF Present, Seen, Configuring
  <2> QED BY <2>1, <2>2, SkipsKeeps DEF Steps, Configuring
<1>3. CASE SetVMConfig
  <2>1. Skips("move") /\ wpc = "config" /\ ~op.awaited /\ UNCHANGED <<vm, op, job, blind>> /\ wpc' = "move"
    BY <1>3 DEF SetVMConfig, At, Skips, Goto, histories
  <2>2. Present' /\ Seen'
    BY <1>1, <2>1 DEF Present, Seen, Configuring
  <2> QED BY <2>1, <2>2, SkipsKeeps DEF Steps, Configuring
<1>4. CASE DiskInPlace
  <2>1. Skips("tpm") /\ wpc = "move" /\ ~op.awaited /\ UNCHANGED <<vm, op, job, blind>> /\ wpc' = "tpm"
        /\ job.cfg.storage = job.want.storage
    BY <1>4 DEF DiskInPlace, At, Skips, Goto, histories
  <2>2. Present' /\ Seen'
    BY <1>1, <2>1 DEF Present, Seen, Configuring
  <2> QED BY <2>1, <2>2, SkipsKeeps DEF Steps, Configuring
<1>5. CASE TPMInPlace
  <2>1. Skips("resize") /\ wpc = "tpm" /\ ~op.awaited /\ UNCHANGED <<vm, op, job, blind>> /\ wpc' = "resize"
        /\ job.cfg.tpm = TPM
    BY <1>5 DEF TPMInPlace, At, Skips, Goto, histories
  <2>2. Present' /\ Seen'
    BY <1>1, <2>1 DEF Present, Seen, Configuring
  <2> QED BY <2>1, <2>2, SkipsKeeps DEF Steps, Configuring
<1>6. CASE DiskLargeEnough
  <2>1. Skips("power") /\ wpc = "resize" /\ ~op.awaited /\ UNCHANGED <<vm, op, job, blind>> /\ wpc' = "power"
        /\ job.want.disk = job.cfg.disk
    BY <1>6 DEF DiskLargeEnough, At, Skips, Goto, histories
  <2>2. Present' /\ Seen'
    BY <1>1, <2>1 DEF Present, Seen, Configuring
  <2> QED BY <2>1, <2>2, SkipsKeeps DEF Steps, Configuring
<1>7. CASE PowerAsAsked
  <2>1. Skips("mark") /\ wpc = "power" /\ ~op.awaited /\ UNCHANGED <<vm, op, job, blind>> /\ wpc' = "mark"
        /\ job.want.power = vm.power
    BY <1>7 DEF PowerAsAsked, PowerSeen, At, Skips, Goto, histories
  <2>2. Present' /\ Seen'
    BY <1>1, <2>1 DEF Present, Seen, Configuring
  <2> QED BY <2>1, <2>2, SkipsKeeps DEF Steps, Configuring
<1> QED BY <1>2, <1>3, <1>4, <1>5, <1>6, <1>7

\* The steps that begin a task and wait for it.
LEMMA TasksBegun ==
  ASSUME IInv, CloneVM \/ MigrateVM \/ MoveDisk \/ StopForTPM \/ MoveTPM \/ ResizeDisk \/ ApplyPower
  PROVE  IInv'
<1>1. TypeOK /\ Present
  BY DEF IInv
<1>2. job \in Job
  BY <1>1, AtWork DEF CloneVM, MigrateVM, MoveDisk, StopForTPM, MoveTPM, ResizeDisk, ApplyPower, At
<1>3. job.want.storage \in Storages /\ job.want.disk \in Nat /\ job.cfg \in Machines
  BY <1>2, JobFields
<1>4. CASE CloneVM
  <2>1. PICK t \in Task : t = [kind |-> "clone", to |-> job.want.storage, awaited |-> TRUE,
                               then |-> IF TargetNode = TemplateNode THEN "read" ELSE "migrate"]
    <3>1. PICK step \in Steps : step = IF TargetNode = TemplateNode THEN "read" ELSE "migrate"
      BY DEF Steps
    <3> QED BY <1>3, <3>1 DEF Task
  <2>2. Begins(t) /\ wpc = "find" /\ op' = t /\ wpc' = wpc /\ vm = NoVM
    BY <1>4, <2>1 DEF CloneVM, At, Listed, Begins
  <2>3. t.awaited /\ t.kind = "clone" /\ t.then = IF TargetNode = TemplateNode THEN "read" ELSE "migrate"
    BY <2>1
  <2>4. AwaitedTask'
    BY <2>2, <2>3 DEF AwaitedTask
  <2> QED BY <2>2, <2>3, <2>4, BeginsKeeps
<1>5. CASE MigrateVM
  <2>1. PICK t \in Task : t = [kind |-> "migrate", to |-> job.want.storage, awaited |-> TRUE,
                               then |-> "read"]
    BY <1>3 DEF Task, Steps
  <2>2. Begins(t) /\ wpc = "migrate" /\ op' = t /\ wpc' = wpc /\ vm # NoVM
    BY <1>1, <1>5, <2>1 DEF MigrateVM, At, Begins, Present
  <2>3. t.awaited /\ t.kind = "migrate" /\ t.then = "read"
    BY <2>1
  <2>4. AwaitedTask'
    BY <2>2, <2>3 DEF AwaitedTask
  <2> QED BY <2>2, <2>3, <2>4, BeginsKeeps
<1>6. CASE MoveDisk
  <2>1. PICK t \in Task : t = [kind |-> "move", to |-> job.want.storage, awaited |-> TRUE, then |-> "tpm"]
    BY <1>3 DEF Task, Steps
  <2>2. Begins(t) /\ wpc = "move" /\ op' = t /\ wpc' = wpc /\ job' = job /\ vm # NoVM
    BY <1>1, <1>6, <2>1 DEF MoveDisk, At, Begins, Present, Configuring
  <2>3. t.awaited /\ t.kind = "move" /\ t.then = "tpm" /\ t.to = job.want.storage
    BY <2>1
  <2>4. AwaitedTask'
    BY <2>2, <2>3 DEF AwaitedTask
  <2> QED BY <2>2, <2>3, <2>4, BeginsKeeps
<1>7. CASE StopForTPM
  <2>1. PICK t \in Task : t = [kind |-> "shutdown", awaited |-> TRUE, then |-> "tpm"]
    BY DEF Task, Steps
  <2>2. Begins(t) /\ wpc = "tpm" /\ op' = t /\ wpc' = wpc /\ vm # NoVM
    BY <1>1, <1>7, <2>1 DEF StopForTPM, At, Begins, Present, Configuring
  <2>3. t.awaited /\ t.kind = "shutdown" /\ t.then = "tpm"
    BY <2>1
  <2>4. AwaitedTask'
    BY <2>2, <2>3 DEF AwaitedTask
  <2> QED BY <2>2, <2>3, <2>4, BeginsKeeps
<1>8. CASE MoveTPM
  <2>1. PICK t \in Task : t = [kind |-> "tpm", to |-> TPM, awaited |-> TRUE, then |-> "resize"]
    BY StorageAssumption DEF Task, Steps
  <2>2. Begins(t) /\ wpc = "tpm" /\ op' = t /\ wpc' = wpc /\ vm # NoVM
    BY <1>1, <1>8, <2>1 DEF MoveTPM, At, Begins, Present, Configuring
  <2>3. t.awaited /\ t.kind = "tpm" /\ t.then = "resize" /\ t.to = TPM
    BY <2>1
  <2>4. AwaitedTask'
    BY <2>2, <2>3 DEF AwaitedTask
  <2> QED BY <2>2, <2>3, <2>4, BeginsKeeps
<1>9. CASE ResizeDisk
  <2>1. wpc = "resize" /\ vm # NoVM /\ job.cfg.disk \in Nat /\ Growth \in Nat
        /\ job.cfg.disk + Growth = job.want.disk
    <3>1. wpc = "resize" /\ job.want.disk > job.cfg.disk
      BY <1>9 DEF ResizeDisk, At
    <3>2. vm # NoVM /\ job.cfg # NoVM
      BY <1>1, <3>1 DEF Present, Configuring
    <3>3. job.cfg.disk \in Nat
      BY <1>3, <3>2, Machinery
    <3> QED BY <1>3, <3>1, <3>2, <3>3 DEF Growth
  <2>2. PICK t \in Task : t = [kind |-> "resize", add |-> Growth, awaited |-> TRUE, then |-> "power"]
    BY <2>1 DEF Task, Steps
  <2>3. Begins(t) /\ op' = t /\ wpc' = wpc /\ job' = job
    BY <1>9, <2>2 DEF ResizeDisk, Begins
  <2>4. t.awaited /\ t.kind = "resize" /\ t.then = "power" /\ t.add = Growth
    BY <2>2
  <2>5. AwaitedTask'
    BY <2>1, <2>3, <2>4 DEF AwaitedTask
  <2> QED BY <2>1, <2>3, <2>4, <2>5, BeginsKeeps
<1>10. CASE ApplyPower
  <2>1. PICK t \in Task : /\ Begins(t) /\ t.awaited /\ t.then = "mark"
                          /\ \/ t.kind = "start" /\ job.want.power = "running"
                             \/ t.kind = "shutdown" /\ job.want.power = "stopped"
    <3>1. CASE job.want.power = "running" /\ Begins([kind |-> "start", awaited |-> TRUE, then |-> "mark"])
      <4>1. PICK t \in Task : t = [kind |-> "start", awaited |-> TRUE, then |-> "mark"]
        BY DEF Task, Steps
      <4>2. t.awaited /\ t.then = "mark" /\ t.kind = "start"
        BY <4>1
      <4> QED BY <3>1, <4>1, <4>2
    <3>2. CASE job.want.power = "stopped" /\ Begins([kind |-> "shutdown", awaited |-> TRUE, then |-> "mark"])
      <4>1. PICK t \in Task : t = [kind |-> "shutdown", awaited |-> TRUE, then |-> "mark"]
        BY DEF Task, Steps
      <4>2. t.awaited /\ t.then = "mark" /\ t.kind = "shutdown"
        BY <4>1
      <4> QED BY <3>2, <4>1, <4>2
    <3> QED BY <1>10, <3>1, <3>2 DEF ApplyPower
  <2>2. wpc = "power" /\ op' = t /\ wpc' = wpc /\ job' = job /\ vm # NoVM
    BY <1>1, <1>10, <2>1 DEF ApplyPower, At, Begins, Present, Configuring
  <2>3. AwaitedTask'
    BY <2>1, <2>2 DEF AwaitedTask
  <2> QED BY <2>1, <2>2, <2>3, BeginsKeeps
<1> QED BY <1>4, <1>5, <1>6, <1>7, <1>8, <1>9, <1>10

LEMMA GetVMConfigKeeps ==
  ASSUME IInv, GetVMConfig
  PROVE  IInv'
<1>1. /\ UNCHANGED <<vm, op, want, sync, open, astray, late>>
      /\ wpc = "read" /\ ~op.awaited /\ vm # NoVM /\ wpc' = "config"
      /\ job' = [job EXCEPT !.cfg = vm] /\ blind' = (op # NoTask)
  BY DEF GetVMConfig, At
<1>2. TypeOK /\ Present /\ CopyGood /\ Watched /\ OnItsNode /\ DiskWithin
  BY DEF IInv
<1>3. job \in Job /\ vm \in Machines
  BY <1>1, <1>2, AtWork
<1>4. /\ job' \in Job /\ job' # NoJob
      /\ job'.want = job.want /\ job'.cfg = vm
  <2>1. job' \in Job /\ job'.want = job.want /\ job'.cfg = vm
    BY <1>1, <1>3 DEF Job, Machines
  <2> QED BY <2>1, NoJobIsNone
<1>5. blind' \in BOOLEAN
  BY <1>1, Zenon
<1>6. TypeOK'
  BY <1>1, <1>2, <1>4, <1>5 DEF TypeOK, Steps
<1>7. AwaitedTask' /\ Present' /\ CopyGood'
  BY <1>1, <1>2, <1>4 DEF AwaitedTask, Present, CopyGood
<1>8. ~blind' => op = NoTask
  BY <1>1
<1>9. Seen'
  BY <1>1, <1>4, <1>8 DEF Seen
<1>10. Watched' /\ OnItsNode'
  <2>1. ~late => ~blind'
    BY <1>1, <1>2 DEF Watched
  <2> QED BY <1>1, <1>2, <2>1 DEF Watched, OnItsNode
<1>11. Settled' /\ DoneAsAsked' /\ DiskWithin'
  BY <1>1, <1>2 DEF Settled, DoneAsAsked, DiskWithin
<1> QED BY <1>6, <1>7, <1>9, <1>10, <1>11 DEF IInv

LEMMA HardStopKeeps ==
  ASSUME IInv, HardStop
  PROVE  IInv'
<1>1. /\ UNCHANGED <<vm, want, sync, open, wpc, job, astray, late, blind>>
      /\ op.awaited /\ op.kind = "shutdown" /\ op' = [op EXCEPT !.kind = "stop"]
  BY DEF HardStop, histories
<1>2. TypeOK /\ AwaitedTask /\ Present /\ CopyGood /\ Seen /\ Watched /\ OnItsNode /\ DiskWithin
  BY DEF IInv
<1>3. /\ op' \in Task /\ op'.awaited /\ op'.kind = "stop" /\ op'.then = op.then
      /\ op # NoTask
  BY <1>1, <1>2, AtWork, Stopped, TaskKinds
<1>4. TypeOK'
  BY <1>1, <1>2, <1>3 DEF TypeOK
<1>5. AwaitedTask' /\ Present' /\ CopyGood'
  BY <1>1, <1>2, <1>3 DEF AwaitedTask, Present, CopyGood
<1>6. Seen' /\ Watched' /\ OnItsNode'
  BY <1>1, <1>2, <1>3 DEF Seen, Watched, OnItsNode
<1>7. Settled' /\ DoneAsAsked' /\ DiskWithin'
  BY <1>1, <1>2, <1>3 DEF Settled, DoneAsAsked, DiskWithin, TypeOK
<1> QED BY <1>4, <1>5, <1>6, <1>7 DEF IInv

LEMMA MarkSyncedKeeps ==
  ASSUME IInv, MarkSynced
  PROVE  IInv'
<1>1. /\ UNCHANGED <<vm, op, want, open, astray, late, blind>>
      /\ wpc = "mark" /\ ~op.awaited /\ sync' = "synced" /\ wpc' = "idle" /\ job' = NoJob
  BY DEF MarkSynced, At, histories
<1>2. TypeOK /\ Present /\ CopyGood /\ Seen /\ Watched /\ OnItsNode /\ DiskWithin
  BY DEF IInv
<1>3. TypeOK'
  BY <1>1, <1>2 DEF TypeOK
<1>4. AwaitedTask' /\ Present' /\ CopyGood' /\ Seen' /\ Watched'
  BY <1>1, <1>2 DEF AwaitedTask, Present, CopyGood, Seen, Watched, Configuring
<1>5. OnItsNode' /\ DiskWithin'
  BY <1>1, <1>2 DEF OnItsNode, DiskWithin
<1>6. vm # NoVM /\ (~astray => vm.node = TargetNode)
  BY <1>1, <1>2 DEF Present, OnItsNode, Configuring
<1>7. ~blind => /\ op = NoTask /\ vm.storage = job.want.storage /\ vm.tpm = TPM
                /\ vm.disk = job.want.disk /\ vm.power = job.want.power
  BY <1>1, <1>2 DEF Seen, Configuring
<1>8. open = 0 => job.want = want
  BY <1>1, <1>2 DEF CopyGood
<1>9. Settled' /\ DoneAsAsked'
  BY <1>1, <1>6, <1>7, <1>8 DEF Settled, DoneAsAsked
<1> QED BY <1>3, <1>4, <1>5, <1>9 DEF IInv

--------------------------------------------------------------------------------
(* Failures.                                                               *)

\* However an attempt ends.
LEMMA EndsKeeps ==
  ASSUME IInv, wpc # "idle", Ends, want' = want, blind' = blind,
         op' \in Tasks, ~op'.awaited, op'.kind \in {op.kind, "none"},
         vm' = vm \/ (vm' = NoVM /\ op' = NoTask),
         \/ sync' = "failed" /\ open' = open
         \/ sync' = sync /\ open' \in 0 .. Attempts /\ open' # 0
  PROVE  IInv'
<1>1. /\ wpc' = "idle" /\ job' = NoJob /\ want' = want /\ blind' = blind
      /\ astray' = (IF vm' = NoVM /\ op' = NoTask THEN FALSE
                    ELSE astray \/ wpc = "migrate" \/ (wpc = "find" /\ op.awaited))
      /\ late' = (IF vm' = NoVM /\ op' = NoTask THEN FALSE ELSE late \/ op'.kind # "none")
  BY DEF Ends
<1>2. TypeOK /\ AwaitedTask /\ Present /\ Watched /\ OnItsNode /\ DiskWithin
  BY DEF IInv
<1>3. astray' \in BOOLEAN /\ late' \in BOOLEAN
  <2>1. astray \in BOOLEAN /\ late \in BOOLEAN
    BY <1>2 DEF TypeOK
  <2> QED BY <1>1, <2>1, Zenon
<1>4. op' = NoTask <=> op'.kind = "none"
  BY TaskKinds
<1>5. TypeOK'
  BY <1>1, <1>2, <1>3, <1>4 DEF TypeOK, Tasks
<1>6. AwaitedTask' /\ Present' /\ CopyGood' /\ Seen'
  BY <1>1, <1>2, <1>4 DEF AwaitedTask, Present, CopyGood, Seen, Configuring
<1>7. Watched'
  BY <1>1, <1>2, <1>4 DEF Watched, Configuring
<1>8. OnItsNode'
  <2>1. CASE vm' = NoVM /\ op' = NoTask
    BY <2>1, <1>4 DEF OnItsNode
  <2>2. CASE ~(vm' = NoVM /\ op' = NoTask)
    <3>1. ~astray' => ~astray /\ wpc # "migrate" /\ ~(wpc = "find" /\ op.awaited)
      BY <1>1, <2>2
    <3>2. ~astray' => op'.kind # "clone"
      BY <1>2, <1>4, <3>1 DEF OnItsNode, AwaitedTask
    <3> QED BY <1>1, <1>2, <2>2, <3>1, <3>2 DEF OnItsNode
  <2> QED BY <2>1, <2>2
<1>9. Settled' /\ DoneAsAsked'
  BY <1>2, AttemptAssumption DEF Settled, DoneAsAsked, TypeOK
<1>10. DiskWithin'
  BY <1>1, <1>2 DEF DiskWithin
<1> QED BY <1>5, <1>6, <1>7, <1>8, <1>9, <1>10 DEF IInv

LEMMA RequeueOpens ==
  ASSUME TypeOK, NEW left \in 1 .. Attempts, Requeue(left)
  PROVE  sync' = sync /\ open' \in 0 .. Attempts /\ open' # 0
  BY AttemptAssumption DEF Requeue, TypeOK

LEMMA RetryOpens ==
  ASSUME TypeOK, wpc # "idle", Retry
  PROVE  \/ sync' = "failed" /\ open' = open
         \/ sync' = sync /\ open' \in 0 .. Attempts /\ open' # 0
<1>1. job.left \in 0 .. Attempts - 1
  BY AtWork, JobFields
<1>2. CASE job.left > 0
  <2>1. job.left \in 1 .. Attempts /\ Requeue(job.left)
    BY <1>1, <1>2, AttemptAssumption DEF Retry
  <2> QED BY <2>1, RequeueOpens
<1>3. CASE ~(job.left > 0)
  BY <1>3 DEF Retry
<1> QED BY <1>2, <1>3

LEMMA AttemptFailsKeeps ==
  ASSUME IInv, AttemptFails
  PROVE  IInv'
<1>1. /\ wpc # "idle" /\ Ends /\ want' = want /\ blind' = blind
      /\ op' = (IF op.awaited THEN NoTask ELSE op) /\ Rollback /\ Retry
  BY DEF AttemptFails
<1>2. TypeOK /\ op \in Tasks /\ NoTask \in Tasks /\ NoTask.kind = "none" /\ ~NoTask.awaited
  BY AtWork DEF IInv, NoTask, Tasks
<1>3. op' \in Tasks /\ ~op'.awaited /\ op'.kind \in {op.kind, "none"}
  BY <1>1, <1>2
<1>4. vm' = vm \/ (vm' = NoVM /\ op' = NoTask)
  BY <1>1 DEF Rollback
<1>5. \/ sync' = "failed" /\ open' = open
      \/ sync' = sync /\ open' \in 0 .. Attempts /\ open' # 0
  BY <1>1, <1>2, RetryOpens
<1> QED BY <1>1, <1>3, <1>4, <1>5, EndsKeeps

LEMMA WaitTimesOutKeeps ==
  ASSUME IInv, WaitTimesOut
  PROVE  IInv'
<1>1. /\ op.awaited /\ Ends /\ vm' = vm /\ want' = want /\ blind' = blind
      /\ op' = [op EXCEPT !.awaited = FALSE] /\ Retry
  BY DEF WaitTimesOut
<1>2. TypeOK /\ op \in Tasks /\ wpc # "idle"
  BY <1>1, AtWork DEF IInv, TypeOK
<1>3. op' \in Tasks /\ ~op'.awaited /\ op'.kind = op.kind
  BY <1>1, <1>2, Abandoned
<1>4. op'.kind \in {op.kind, "none"}
  BY <1>3
<1>5. \/ sync' = "failed" /\ open' = open
      \/ sync' = sync /\ open' \in 0 .. Attempts /\ open' # 0
  BY <1>1, <1>2, RetryOpens
<1> QED BY <1>1, <1>2, <1>3, <1>4, <1>5, EndsKeeps

LEMMA CrashWorkerKeeps ==
  ASSUME IInv, CrashWorker
  PROVE  IInv'
<1>1. /\ wpc # "idle" /\ Ends /\ vm' = vm /\ want' = want /\ blind' = blind
      /\ op' = [op EXCEPT !.awaited = FALSE] /\ Requeue(job.left + 1)
  BY DEF CrashWorker
<1>2. TypeOK /\ op \in Tasks
  BY AtWork DEF IInv
<1>3. op' \in Tasks /\ ~op'.awaited /\ op'.kind = op.kind
  BY <1>1, <1>2, Abandoned
<1>4. op'.kind \in {op.kind, "none"}
  BY <1>3
<1>5. job.left + 1 \in 1 .. Attempts
  BY <1>1, <1>2, AtWork, JobFields, AttemptAssumption
<1>6. sync' = sync /\ open' \in 0 .. Attempts /\ open' # 0
  BY <1>1, <1>2, <1>5, RequeueOpens
<1> QED BY <1>1, <1>3, <1>4, <1>6, EndsKeeps

--------------------------------------------------------------------------------

LEMMA Initially == Init => IInv
<1> SUFFICES ASSUME Init
             PROVE  IInv
  OBVIOUS
<1>1. /\ vm \in Adopted \union {NoVM} /\ op = NoTask /\ want \in Wanted
      /\ sync = "pending" /\ open = Attempts /\ wpc = "idle" /\ job = NoJob
      /\ astray = FALSE /\ late = FALSE /\ blind = FALSE
  BY DEF Init
<1>2. NoTask.kind = "none" /\ ~NoTask.awaited
  BY DEF NoTask
<1>3. Attempts \in 0 .. Attempts
  BY AttemptAssumption
<1>4. TypeOK
  BY <1>1, <1>2, <1>3, AdoptedAssumption DEF TypeOK
<1>5. AwaitedTask /\ Present /\ CopyGood /\ Seen /\ Watched /\ Settled /\ DoneAsAsked
  BY <1>1, <1>2 DEF AwaitedTask, Present, CopyGood, Seen, Watched, Settled, DoneAsAsked, Configuring
<1>6. OnItsNode
  BY <1>1, <1>2, AdoptedAssumption DEF OnItsNode
<1>7. DiskWithin
  BY <1>1, WantFields, AdoptedAssumption DEF DiskWithin
<1> QED BY <1>4, <1>5, <1>6, <1>7 DEF IInv

LEMMA Stutters ==
  ASSUME IInv, UNCHANGED vars
  PROVE  IInv'
<1>1. UNCHANGED <<vm, op, want, sync, open, wpc, job, astray, late, blind>>
  BY DEF vars
<1>2. TypeOK' /\ AwaitedTask' /\ Present' /\ CopyGood'
  BY <1>1 DEF IInv, TypeOK, AwaitedTask, Present, CopyGood
<1>3. Seen' /\ Watched' /\ OnItsNode' /\ Settled' /\ DoneAsAsked' /\ DiskWithin'
  BY <1>1 DEF IInv, Seen, Watched, OnItsNode, Settled, DoneAsAsked, DiskWithin
<1> QED BY <1>2, <1>3 DEF IInv

\* In every reachable state the tasks of PVE, the worker's copy of the row and
\* what it has read of the VM's configuration fit together.
THEOREM Invariance == Spec => []IInv
<1>1. IInv /\ [Next]_vars => IInv'
  <2> SUFFICES ASSUME IInv, [Next]_vars
               PROVE  IInv'
    OBVIOUS
  <2>1. CASE \E w \in Wanted : PatchVM(w)
    BY <2>1, PatchVMKeeps
  <2>2. CASE Cluster
    BY <2>2, UnwatchedTaskFailsKeeps, UnawaitedSucceeds, AwaitedSucceeds DEF Cluster
  <2>3. CASE Attempt
    BY <2>3, PickTaskKeeps, SkippedSteps, TasksBegun, GetVMConfigKeeps, MarkSyncedKeeps DEF Attempt
  <2>4. CASE HardStop
    BY <2>4, HardStopKeeps
  <2>5. CASE AttemptFails
    BY <2>5, AttemptFailsKeeps
  <2>6. CASE WaitTimesOut
    BY <2>6, WaitTimesOutKeeps
  <2>7. CASE CrashWorker
    BY <2>7, CrashWorkerKeeps
  <2>8. CASE UNCHANGED vars
    BY <2>8, Stutters
  <2> QED BY <2>1, <2>2, <2>3, <2>4, <2>5, <2>6, <2>7, <2>8 DEF Next
<1> QED BY <1>1, Initially, PTL DEF Spec

\* Every reachable state is well typed: no size becomes negative, and no task
\* runs on a VM that is not there but the one that clones it.
THEOREM TypeCorrect == Spec => []TypeOK
<1>1. IInv => TypeOK
  BY DEF IInv
<1> QED BY <1>1, Invariance, PTL

\* A VM shown as synced with nothing left to do is where and as its row asks
\* for, wherever attempts were cut off, unless a task of PVE was still running
\* when the last one read the configuration (syncPresent, rollbackProvision).
THEOREM DoneAsAskedHolds == Spec => []DoneAsAsked
<1>1. IInv => DoneAsAsked
  BY DEF IInv
<1> QED BY <1>1, Invariance, PTL

\* The disk is never larger than the row asks for unless a task of PVE went on
\* after the worker had given it up (resizeDisk).
THEOREM DiskWithinHolds == Spec => []DiskWithin
<1>1. IInv => DiskWithin
  BY DEF IInv
<1> QED BY <1>1, Invariance, PTL
================================================================================
