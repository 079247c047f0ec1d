---------------------------- MODULE ConfigSyncProofs ---------------------------
(***************************************************************************)
(* Converged, PowerConverged and RealTruthful hold for every number of     *)
(* requests in flight, every set of configurations and passwords, with and *)
(* without failures.                                                       *)
(*                                                                         *)
(* The argument: the last task in the queue that sets the configuration    *)
(* (or the power) is carried out with what the row says, because whoever   *)
(* overwrites the row adds a task that sets it again.                      *)
(***************************************************************************)
EXTENDS ConfigSync, TLAPS

--------------------------------------------------------------------------------
(* Typing.                                                                 *)

LEMMA Kinds ==
  /\ ApplyTask \in Task /\ ApplyTask.kind = "apply"
  /\ RebootTask \in Task /\ RebootTask.kind = "reboot"
  /\ \A w \in Asked : /\ PowerTask(w) \in Task
                      /\ PowerTask(w).kind = "power" /\ PowerTask(w).power = w
BY DEF ApplyTask, RebootTask, PowerTask, Task

\* The values createVM and rollbackProvision give the VM.
LEMMA MachineType ==
  /\ Absent \in Machine /\ ~Absent.exists
  /\ Cloned \in Machine /\ Cloned.exists
BY DEF Absent, Cloned, Machine, Seen

\* What applyPower makes of the VM: its power and nothing else.
LEMMA PoweredType ==
  ASSUME pve \in Machine, NEW w
  PROVE  /\ Powered(w) \in Machine
         /\ Powered(w).exists = pve.exists /\ Powered(w).settings = pve.settings
         /\ w \in Seen => Powered(w).power = w
BY DEF Powered, Machine, Seen

\* A request that handlePatchVM or handlePowerVM loads is well typed.
LEMMA RequestType ==
  ASSUME TypeOK
  PROVE  /\ \A x \in Configs : PatchSettings(x) \in Request
         /\ \A p \in Passwords : PatchPassword(p) \in Request
         /\ \A w \in Powers : Power(w) \in Request
<1>1. /\ row.prefer \in PreferStatus /\ row.config \in ConfigJSON
      /\ row.password \in Passwords
  BY DEF TypeOK, Row
<1>2. Patch \in PatchRequest
  <2>1. (row.real = "running") \in BOOLEAN
    OBVIOUS
  <2> QED BY <1>1, <2>1 DEF Patch, PatchRequest
<1>3. \A x \in Configs : /\ [row.prefer EXCEPT !.settings = x] \in PreferStatus
                        /\ [row.config EXCEPT !.settings = x] \in ConfigJSON
  BY <1>1 DEF PreferStatus, ConfigJSON
<1>4. [row.config EXCEPT !.synced = FALSE] \in ConfigJSON
  BY <1>1 DEF ConfigJSON
<1>5. \A x \in Configs : PatchSettings(x) \in PatchRequest
  BY <1>2, <1>3 DEF PatchSettings, Patch, PatchRequest
<1>6. \A p \in Passwords : PatchPassword(p) \in PatchRequest
  BY <1>2, <1>4 DEF PatchPassword, Patch, PatchRequest
<1>7. \A w \in Powers : [row.prefer EXCEPT !.power = w] \in PreferStatus
  BY <1>1 DEF PreferStatus, Asked
<1>8. \A w \in Powers : Power(w) \in PowerRequest
  BY <1>7 DEF Power, PowerRequest
<1> QED BY <1>5, <1>6, <1>8 DEF Request

\* What a commit writes is well typed.
LEMMA CommitType ==
  ASSUME TypeOK, NEW c \in Clients
  PROVE  /\ req[c].op = "patch" =>
              /\ Patched(c) \in Row
              /\ Patched(c).real = row.real /\ Patched(c).state = "pending"
              /\ PatchTasks(c) \in Seq(Task) /\ PatchTasks(c)[1] = ApplyTask
              /\ Len(PatchTasks(c)) \in Nat \ {0}
         /\ req[c].op = "power" => req[c].prefer \in PreferStatus
<1>1. CASE req[c].op = "patch"
  <2>1. req[c] \in PatchRequest
    BY <1>1 DEF TypeOK, NoRequest, Request, PowerRequest
  <2>2. Patched(c) \in Row
    BY <2>1 DEF Patched, PatchRequest, Row, TypeOK
  <2>3. Patched(c).real = row.real /\ Patched(c).state = "pending"
    BY DEF Patched, Row, TypeOK
  <2>4. /\ PatchTasks(c) \in Seq(Task) /\ PatchTasks(c)[1] = ApplyTask
        /\ Len(PatchTasks(c)) \in Nat \ {0}
    <3>1. CASE req[c].reboot
      BY <3>1, Kinds DEF PatchTasks
    <3>2. CASE ~req[c].reboot
      BY <3>2, Kinds DEF PatchTasks
    <3> QED BY <3>1, <3>2
  <2> QED BY <1>1, <2>2, <2>3, <2>4
<1>2. CASE req[c].op = "power"
  BY <1>2 DEF TypeOK, NoRequest, Request, PatchRequest, PowerRequest
<1> QED BY <1>1, <1>2

\* Rows the worker writes are well typed.
LEMMA RowType ==
  ASSUME TypeOK
  PROVE  /\ [row EXCEPT !.node = TRUE] \in Row
         /\ [row EXCEPT !.config = [raw EXCEPT !.synced = TRUE]] \in Row
         /\ \A s \in {"pending", "failed"} : [row EXCEPT !.state = s] \in Row
         /\ \A w \in Seen : [row EXCEPT !.state = "synced", !.real = w] \in Row
         /\ row.prefer \in PreferStatus /\ copy.prefer \in PreferStatus
         /\ pve.power \in Seen
<1>1. [raw EXCEPT !.synced = TRUE] \in ConfigJSON
  BY DEF TypeOK, ConfigJSON
<1>2. row \in Row /\ copy \in Row /\ pve \in Machine
  BY DEF TypeOK
<1>3. pve.power \in Seen
  BY <1>2 DEF Machine
<1> QED BY <1>1, <1>2, <1>3 DEF Row

--------------------------------------------------------------------------------
(* The queue.                                                              *)

\* A commit adds tasks at the end, the first of them an apply task or the
\* power task of the power it writes.
Extended(w) ==
  /\ queue' \in Seq(Task)
  /\ Len(queue') > Len(queue)
  /\ \A i \in 1 .. Len(queue) : queue'[i] = queue[i]
  /\ LET t == queue'[Len(queue) + 1] IN
       \/ t.kind = "apply"
       \/ t.kind = "power" /\ t.power = w /\ Len(queue') = Len(queue) + 1

LEMMA PatchExtends ==
  ASSUME TypeOK, NEW c \in Clients, CommitPatch(c)
  PROVE  /\ Extended(row'.prefer.power)
         /\ queue'[Len(queue) + 1].kind = "apply"
         /\ row' = Patched(c) /\ row' \in Row
<1>1. /\ queue \in Seq(Task) /\ PatchTasks(c) \in Seq(Task)
      /\ PatchTasks(c)[1] = ApplyTask /\ Len(PatchTasks(c)) \in Nat \ {0}
      /\ row' = Patched(c) /\ Patched(c) \in Row
      /\ queue' = queue \o PatchTasks(c)
  BY CommitType DEF CommitPatch, Commits, TypeOK
<1>2. /\ queue' \in Seq(Task) /\ Len(queue') > Len(queue)
      /\ \A i \in 1 .. Len(queue) : queue'[i] = queue[i]
      /\ queue'[Len(queue) + 1] = ApplyTask
  BY <1>1
<1> QED BY <1>1, <1>2, Kinds DEF Extended

LEMMA PowerExtends ==
  ASSUME TypeOK, NEW c \in Clients, CommitPower(c)
  PROVE  /\ Extended(row'.prefer.power)
         /\ row' \in Row /\ row'.prefer = req[c].prefer
         /\ row'.real = row.real /\ row'.state = "pending"
<1>1. queue \in Seq(Task) /\ row \in Row /\ req[c].prefer \in PreferStatus
  BY CommitType DEF CommitPower, Commits, TypeOK
<1>2. /\ row' \in Row /\ row'.prefer = req[c].prefer
      /\ row'.real = row.real /\ row'.state = "pending"
  BY <1>1 DEF CommitPower, Row
<1>3. req[c].prefer.power \in Asked
  BY <1>1 DEF PreferStatus
<1>4. queue' = Append(queue, PowerTask(req[c].prefer.power))
  BY DEF CommitPower
<1>5. PowerTask(req[c].prefer.power) \in Task
  BY <1>3, Kinds
<1>6. /\ queue' \in Seq(Task) /\ Len(queue') = Len(queue) + 1
      /\ \A i \in 1 .. Len(queue) : queue'[i] = queue[i]
      /\ queue'[Len(queue) + 1] = PowerTask(req[c].prefer.power)
  BY <1>1, <1>4, <1>5
<1> QED BY <1>1, <1>2, <1>3, <1>6, Kinds DEF Extended

\* The first task leaves the queue.
LEMMA TailOf ==
  ASSUME queue \in Seq(Task), queue # <<>>
  PROVE  /\ Tail(queue) \in Seq(Task) /\ Len(Tail(queue)) = Len(queue) - 1
         /\ Head(queue) = queue[1] /\ Len(queue) \in Nat \ {0}
         /\ \A i \in 1 .. Len(queue) - 1 : Tail(queue)[i] = queue[i + 1]
OBVIOUS

--------------------------------------------------------------------------------
(* The shape of the state: who is doing what with which task.              *)

Applying == {"find", "set", "read", "write", "power", "sync"}

\* What is under way, or stuck, is the first task of the queue.
Busy ==
  /\ wpc # "idle" \/ stuck => queue # <<>>
  /\ stuck => wpc = "idle"

\* As long as nothing was purged.
Shape ==
  /\ Busy
  /\ wpc \in Applying => queue[1].kind = "apply"
  /\ wpc = "do" => queue[1].kind # "apply"
  /\ wpc \in {"find", "do"} => ~created
  /\ wpc \in Applying \ {"find"} => pve.exists
  /\ ~pve.exists => queue # <<>> /\ queue[1].kind = "apply" /\ wpc # "done"

\* Every step keeps the state well typed.
LEMMA TypeStep == TypeOK /\ Busy /\ [Next]_vars => TypeOK'
<1> SUFFICES ASSUME TypeOK, Busy, [Next]_vars PROVE TypeOK'
  OBVIOUS
<1>1. ASSUME NEW c \in Clients, NEW x \in Configs, LoadSettings(c, x) PROVE TypeOK'
  BY <1>1, RequestType DEF LoadSettings, Load, TypeOK, PatchSettings
<1>2. ASSUME NEW c \in Clients, NEW p \in Passwords, LoadPassword(c, p) PROVE TypeOK'
  BY <1>2, RequestType DEF LoadPassword, Load, TypeOK
<1>3. ASSUME NEW c \in Clients, NEW w \in Powers, LoadPower(c, w) PROVE TypeOK'
  BY <1>3, RequestType DEF LoadPower, Load, TypeOK
<1>4. ASSUME NEW c \in Clients, CommitPatch(c) PROVE TypeOK'
  <2>1. row' \in Row /\ queue' \in Seq(Task)
    BY <1>4, PatchExtends DEF Extended
  <2> QED BY <1>4, <2>1 DEF CommitPatch, Commits, TypeOK
<1>5. ASSUME NEW c \in Clients, CommitPower(c) PROVE TypeOK'
  <2>1. row' \in Row /\ queue' \in Seq(Task)
    BY <1>5, PowerExtends DEF Extended
  <2> QED BY <1>5, <2>1 DEF CommitPower, Commits, TypeOK
<1>6. CASE RetryByHand
  <2>1. row' \in Row
    BY <1>6, RowType DEF RetryByHand
  <2> QED BY <1>6, <2>1 DEF RetryByHand, TypeOK
<1>7. CASE TakeTask
  BY <1>7 DEF TakeTask, TypeOK, Steps, Goto
<1>8. CASE FindOrClone
  <2>1. row' \in Row
    BY <1>8, RowType DEF FindOrClone
  <2>2. pve' \in Machine /\ created' \in BOOLEAN
    BY <1>8, MachineType DEF FindOrClone, TypeOK, Machine
  <2> QED BY <1>8, <2>1, <2>2 DEF FindOrClone, TypeOK, Steps, Goto, workVars
<1>9. CASE SetVMConfig
  <2>1. copy.prefer.settings \in Configs /\ copy.password \in Passwords /\ pve \in Machine
    BY DEF TypeOK, Row, PreferStatus
  <2>2. pve' \in Machine
    BY <1>9, <2>1 DEF SetVMConfig, Machine
  <2> QED BY <1>9, <2>2 DEF SetVMConfig, TypeOK, Steps, Goto, workVars
<1>10. CASE ReadConfig
  <2>1. row.config \in ConfigJSON
    BY DEF TypeOK, Row
  <2> QED BY <1>10, <2>1 DEF ReadConfig, TypeOK, Steps, Goto
<1>11. CASE WriteConfig
  <2>1. row' \in Row
    BY <1>11, RowType DEF WriteConfig
  <2> QED BY <1>11, <2>1 DEF WriteConfig, TypeOK, Steps, Goto, workVars
<1>12. CASE ApplyPower
  <2>1. pve' \in Machine
    BY <1>12, PoweredType DEF ApplyPower, TypeOK
  <2> QED BY <1>12, <2>1 DEF ApplyPower, TypeOK, Steps, Goto, workVars
<1>13. CASE MarkSynced
  <2>1. row' \in Row
    BY <1>13, RowType DEF MarkSynced, Seen
  <2> QED BY <1>13, <2>1 DEF MarkSynced, TypeOK, Steps, Goto, workVars
<1>14. CASE RunPowerTask
  <2>1. pve' \in Machine
    BY <1>14, PoweredType DEF RunPowerTask, TypeOK
  <2>2. pve'.power \in Seen
    BY <2>1 DEF Machine
  <2>3. row' \in Row
    <3>1. CASE row' = row
      BY <3>1 DEF TypeOK
    <3>2. CASE row' = [row EXCEPT !.state = "synced", !.real = pve'.power]
      BY <3>2, <2>2, RowType
    <3> QED BY <1>14, <3>1, <3>2 DEF RunPowerTask
  <2> QED BY <1>14, <2>1, <2>3 DEF RunPowerTask, TypeOK, Steps, Goto, workVars
<1>15. CASE RunRebootTask
  BY <1>15 DEF RunRebootTask, TypeOK, Steps, Goto, workVars
<1>16. CASE TaskDone
  BY <1>16, TailOf DEF TaskDone, TypeOK, Steps, Goto, Busy
<1>17. CASE TaskFails
  <2>1. pve' \in Machine
    BY <1>17, MachineType DEF TaskFails, TypeOK
  <2>2. LeaveTask
    BY <1>17 DEF TaskFails
  <2>3. row' \in Row /\ stuck' \in BOOLEAN
    <3>1. row' = row \/ row' = [row EXCEPT !.state = "failed"]
      BY <2>2 DEF LeaveTask
    <3>2. row' \in Row
      BY <3>1, RowType DEF TypeOK
    <3> QED BY <2>2, <3>2 DEF LeaveTask, TypeOK
  <2> QED BY <2>1, <2>2, <2>3 DEF LeaveTask, TypeOK, Steps, Goto
<1>18. CASE Purge
  BY <1>18, TailOf DEF Purge, TypeOK, Busy
<1>19. CASE UNCHANGED vars
  BY <1>19 DEF vars, TypeOK
<1> QED
  BY <1>1, <1>2, <1>3, <1>4, <1>5, <1>6, <1>7, <1>8, <1>9, <1>10, <1>11, <1>12, <1>13,
     <1>14, <1>15, <1>16, <1>17, <1>18, <1>19
  DEF Next, Server, Worker, Apply

\* Every step leaves a task in the queue for what is under way.
LEMMA BusyStep == TypeOK /\ Busy /\ [Next]_vars => Busy'
<1> SUFFICES ASSUME TypeOK, Busy, [Next]_vars PROVE Busy'
  OBVIOUS
<1> USE DEF Busy
<1>1. ASSUME NEW c \in Clients, NEW r, Load(c, r) PROVE Busy'
  BY <1>1 DEF Load
<1>2. ASSUME NEW c \in Clients, CommitPatch(c) \/ CommitPower(c) PROVE Busy'
  <2>1. PICK w : Extended(w)
    BY <1>2, PatchExtends, PowerExtends
  <2>2. queue' # <<>>
    BY <2>1 DEF Extended, TypeOK
  <2> QED BY <1>2, <2>2 DEF CommitPatch, CommitPower, Commits
<1>3. CASE RetryByHand \/ TakeTask
  BY <1>3 DEF RetryByHand, TakeTask
<1>4. CASE Apply
  BY <1>4 DEF Apply, FindOrClone, SetVMConfig, ReadConfig, WriteConfig, ApplyPower, MarkSynced, workVars
<1>5. CASE RunPowerTask \/ RunRebootTask
  BY <1>5 DEF RunPowerTask, RunRebootTask, workVars
<1>6. CASE TaskDone \/ Purge
  BY <1>6 DEF TaskDone, Purge, Goto
<1>7. CASE TaskFails
  BY <1>7 DEF TaskFails, LeaveTask, Goto
<1>8. CASE UNCHANGED vars
  BY <1>8 DEF vars
<1> QED
  BY <1>1, <1>2, <1>3, <1>4, <1>5, <1>6, <1>7, <1>8
  DEF Next, Server, Worker, LoadSettings, LoadPassword, LoadPower

\* The shape is kept by every step, as long as nothing is purged.
LEMMA ShapeStep == ~purged' /\ TypeOK /\ Shape /\ [Next]_vars => Shape'
<1> SUFFICES ASSUME ~purged', TypeOK, Shape, [Next]_vars PROVE Shape'
  OBVIOUS
<1>0. queue \in Seq(Task) /\ pve \in Machine
  BY DEF TypeOK
<1> USE DEF Shape, Busy, Applying
<1>1. ASSUME NEW c \in Clients, NEW r, Load(c, r) PROVE Shape'
  BY <1>1 DEF Load
<1>2. ASSUME NEW c \in Clients, CommitPatch(c) \/ CommitPower(c) PROVE Shape'
  <2>1. PICK w : Extended(w)
    BY <1>2, PatchExtends, PowerExtends
  <2>2. UNCHANGED <<stuck, pve, wpc, created>>
    BY <1>2 DEF CommitPatch, CommitPower, Commits
  <2>3. queue' # <<>>
    BY <1>0, <2>1 DEF Extended
  <2>4. queue # <<>> => queue'[1] = queue[1]
    BY <1>0, <2>1 DEF Extended
  <2> QED BY <2>2, <2>3, <2>4
<1>3. CASE RetryByHand
  BY <1>3 DEF RetryByHand
<1>4. CASE TakeTask
  BY <1>4, <1>0, TailOf DEF TakeTask, Goto
<1>5. CASE FindOrClone
  <2>1. pve'.exists /\ wpc' = "set" /\ UNCHANGED <<queue, stuck>>
    BY <1>5, MachineType DEF FindOrClone, Goto, workVars
  <2> QED BY <1>5, <2>1 DEF FindOrClone
<1>6. CASE SetVMConfig
  <2>1. pve'.exists = pve.exists /\ wpc' \in {"power", "read"} /\ UNCHANGED <<queue, stuck, created>>
    BY <1>6, <1>0 DEF SetVMConfig, Goto, workVars, Machine
  <2> QED BY <1>6, <2>1 DEF SetVMConfig
<1>7. CASE ReadConfig \/ WriteConfig \/ MarkSynced
  BY <1>7 DEF ReadConfig, WriteConfig, MarkSynced, Goto, workVars
<1>8. CASE ApplyPower
  <2>1. pve'.exists = pve.exists
    BY <1>8, <1>0, PoweredType DEF ApplyPower
  <2> QED BY <1>8, <2>1 DEF ApplyPower, Goto, workVars
<1>9. CASE RunPowerTask
  <2>1. pve'.exists /\ wpc' = "done" /\ UNCHANGED <<queue, stuck>>
    BY <1>9, <1>0, PoweredType DEF RunPowerTask, Goto, workVars
  <2> QED BY <1>9, <2>1 DEF RunPowerTask
<1>10. CASE RunRebootTask
  BY <1>10 DEF RunRebootTask, Goto, workVars
<1>11. CASE TaskDone
  <2>1. pve.exists /\ wpc' = "idle" /\ UNCHANGED <<pve, stuck>>
    BY <1>11 DEF TaskDone, Goto
  <2>2. ~stuck
    BY <1>11 DEF TaskDone
  <2> QED BY <2>1, <2>2
<1>12. CASE TaskFails
  <2>1. wpc # "idle" /\ wpc' = "idle" /\ queue' = queue
    BY <1>12 DEF TaskFails, LeaveTask, Goto
  <2>2. ~pve'.exists => queue[1].kind = "apply"
    BY <1>12, <1>0 DEF TaskFails, TypeOK, Steps
  <2> QED BY <2>1, <2>2
<1>13. CASE UNCHANGED vars
  BY <1>13 DEF vars
<1> QED
  BY <1>1, <1>2, <1>3, <1>4, <1>5, <1>6, <1>7, <1>8, <1>9, <1>10, <1>11, <1>12, <1>13
  DEF Next, Server, Worker, Apply, Purge, LoadSettings, LoadPassword, LoadPower

--------------------------------------------------------------------------------
(* The configuration, when no power requests are made.                     *)

\* No apply task from the i-th on.
NoApply(i) == \A j \in i .. Len(queue) : queue[j].kind # "apply"

SettingsInv ==
  /\ \A c \in Clients : req[c].op # "power"
  /\ wpc \in {"read", "write", "power", "sync"} => pve.settings = copy.prefer.settings
  /\ wpc = "done" /\ queue[1].kind = "apply" => pve.settings = copy.prefer.settings
  /\ wpc # "idle" /\ queue[1].kind = "apply" /\ NoApply(2) =>
       copy.prefer.settings = row.prefer.settings
  /\ NoApply(1) => pve.settings = row.prefer.settings

LEMMA SettingsStep ==
  ASSUME "power" \notin Ops, ~purged', TypeOK, Shape, SettingsInv, [Next]_vars
  PROVE  SettingsInv'
<1>0. /\ queue \in Seq(Task) /\ pve \in Machine /\ row \in Row /\ copy \in Row
      /\ Len(queue) \in Nat
  BY DEF TypeOK
<1> USE DEF SettingsInv, NoApply
<1>1. ASSUME NEW c \in Clients, NEW r, Load(c, r), r.op = "patch" PROVE SettingsInv'
  BY <1>1 DEF Load, TypeOK
<1>2. \A x : PatchSettings(x).op = "patch" /\ PatchPassword(x).op = "patch"
  BY DEF PatchSettings, PatchPassword, Patch
<1>3. ASSUME NEW c \in Clients, NEW x,
             LoadSettings(c, x) \/ LoadPassword(c, x) \/ LoadPower(c, x)
      PROVE  SettingsInv'
  BY <1>1, <1>2, <1>3 DEF LoadSettings, LoadPassword, LoadPower
<1>4. ASSUME NEW c \in Clients, CommitPatch(c) PROVE SettingsInv'
  <2>1. /\ queue' \in Seq(Task) /\ Len(queue') > Len(queue) /\ Len(queue') \in Nat
        /\ \A i \in 1 .. Len(queue) : queue'[i] = queue[i]
        /\ queue'[Len(queue) + 1].kind = "apply"
    BY <1>0, <1>4, PatchExtends DEF Extended
  <2>2. UNCHANGED <<pve, wpc, copy>> /\ \A d \in Clients : req'[d].op # "power"
    BY <1>4 DEF CommitPatch, Commits, TypeOK, NoRequest
  <2>3. ~NoApply(1)'
    BY <2>1, <1>0
  <2>4. queue # <<>> => Len(queue) >= 1 /\ queue'[1] = queue[1]
    BY <2>1, <1>0
  <2>5. queue # <<>> => ~NoApply(2)'
    BY <2>1, <2>4, <1>0
  <2>6. wpc # "idle" => queue # <<>>
    BY DEF Shape, Busy
  <2> QED BY <2>2, <2>3, <2>4, <2>5, <2>6
<1>5. ASSUME NEW c \in Clients, CommitPower(c) PROVE SettingsInv'
  BY <1>5 DEF CommitPower, Commits
<1>6. CASE RetryByHand
  <2>1. row'.prefer = row.prefer
    BY <1>6, <1>0 DEF RetryByHand, Row
  <2> QED BY <1>6, <2>1 DEF RetryByHand
<1>7. CASE TakeTask
  <2>1. wpc' \in {"find", "do"} /\ copy' = row /\ UNCHANGED <<row, queue, pve, req>>
    BY <1>7 DEF TakeTask, Goto
  <2> QED BY <2>1
<1>8. CASE FindOrClone
  <2>1. row'.prefer = row.prefer /\ wpc' = "set" /\ UNCHANGED <<queue, copy, req>>
    BY <1>8, <1>0 DEF FindOrClone, Goto, workVars, Row
  <2>2. queue[1].kind = "apply" /\ Len(queue) >= 1
    BY <1>8, <1>0 DEF FindOrClone, Shape, Busy, Applying
  <2> QED BY <1>8, <2>1, <2>2, <1>0 DEF FindOrClone
<1>9. CASE SetVMConfig
  <2>1. pve'.settings = copy.prefer.settings /\ wpc' \in {"power", "read"}
    BY <1>9, <1>0 DEF SetVMConfig, Goto, Machine
  <2>2. queue[1].kind = "apply" /\ Len(queue) >= 1
    BY <1>9, <1>0 DEF SetVMConfig, Shape, Busy, Applying
  <2>3. UNCHANGED <<row, copy, queue, req>>
    BY <1>9 DEF SetVMConfig, workVars
  <2> QED BY <1>9, <2>1, <2>2, <2>3, <1>0 DEF SetVMConfig
<1>10. CASE ReadConfig \/ WriteConfig \/ MarkSynced
  <2>1. row'.prefer = row.prefer /\ UNCHANGED <<queue, copy, pve, req>>
    BY <1>10, <1>0 DEF ReadConfig, WriteConfig, MarkSynced, workVars, Row
  <2> QED BY <1>10, <2>1 DEF ReadConfig, WriteConfig, MarkSynced, Goto
<1>11. CASE ApplyPower
  <2>1. pve'.settings = pve.settings /\ wpc' = "sync" /\ UNCHANGED <<queue, copy, row, req>>
    BY <1>11, <1>0, PoweredType DEF ApplyPower, workVars, Goto
  <2> QED BY <1>11, <2>1 DEF ApplyPower
<1>12. CASE RunPowerTask
  <2>1. pve'.settings = pve.settings /\ row'.prefer = row.prefer /\ wpc' = "done"
    <3>1. wpc' = "done"
      BY <1>12 DEF RunPowerTask, Goto
    <3>2. pve'.settings = pve.settings
      BY <1>12, <1>0, PoweredType DEF RunPowerTask
    <3>3. \E w : row' = row \/ row' = [row EXCEPT !.state = "synced", !.real = w]
      BY <1>12 DEF RunPowerTask
    <3> QED BY <1>0, <3>1, <3>2, <3>3 DEF Row
  <2>2. UNCHANGED <<queue, copy, req>> /\ queue[1].kind # "apply"
    BY <1>12 DEF RunPowerTask, workVars, Shape, Busy
  <2> QED BY <1>12, <2>1, <2>2 DEF RunPowerTask
<1>13. CASE RunRebootTask
  <2>1. UNCHANGED <<queue, copy, req, row, pve>> /\ queue[1].kind # "apply" /\ wpc' = "done"
    BY <1>13 DEF RunRebootTask, workVars, Shape, Busy, Goto
  <2> QED BY <2>1
<1>14. CASE TaskDone
  <2>1. /\ queue # <<>> /\ wpc = "done" /\ wpc' = "idle"
        /\ queue' = Tail(queue) /\ UNCHANGED <<row, pve, req, copy>>
    BY <1>14 DEF TaskDone, Goto, Shape, Busy
  <2>2. /\ Len(queue') = Len(queue) - 1 /\ Len(queue) \in Nat \ {0}
        /\ \A i \in 1 .. Len(queue) - 1 : queue'[i] = queue[i + 1]
    BY <2>1, <1>0, TailOf
  <2>3. ASSUME NoApply(1)' PROVE NoApply(2)
    <3>1. ASSUME NEW j \in 2 .. Len(queue) PROVE queue[j].kind # "apply"
      <4>1. j - 1 \in 1 .. Len(queue) - 1 /\ (j - 1) + 1 = j
        BY <1>0
      <4>2. queue'[j - 1] = queue[j]
        BY <4>1, <2>2
      <4>3. j - 1 \in 1 .. Len(queue')
        BY <4>1, <2>2
      <4> QED BY <4>2, <4>3, <2>3
    <3> QED BY <3>1
  <2>4. NoApply(2) /\ queue[1].kind # "apply" => NoApply(1)
    BY <1>0
  <2>5. NoApply(2) => pve.settings = row.prefer.settings
    BY <2>1, <2>4
  <2> QED BY <2>1, <2>3, <2>5
<1>15. CASE TaskFails
  <2>1. wpc' = "idle" /\ UNCHANGED <<queue, req, copy>>
    BY <1>15 DEF TaskFails, LeaveTask, Goto
  <2>2. row'.prefer = row.prefer
    BY <1>15, <1>0 DEF TaskFails, LeaveTask, Row
  <2>3. pve' = pve \/ (queue[1].kind = "apply" /\ queue # <<>>)
    BY <1>15 DEF TaskFails, Shape, Busy, Applying, TypeOK, Steps
  <2>4. queue[1].kind = "apply" /\ queue # <<>> => ~NoApply(1)
    BY <1>0
  <2> QED BY <2>1, <2>2, <2>3, <2>4
<1>16. CASE UNCHANGED vars
  BY <1>16 DEF vars
<1> QED
  BY <1>3, <1>4, <1>5, <1>6, <1>7, <1>8, <1>9, <1>10, <1>11, <1>12, <1>13,
     <1>14, <1>15, <1>16
  DEF Next, Server, Worker, Apply, Purge

--------------------------------------------------------------------------------
(* The power, with any requests.                                           *)

SetsPower(t) == t.kind \in {"apply", "power"}

\* No task that sets the power from the i-th on.
NoSet(i) == \A j \in i .. Len(queue) : ~SetsPower(queue[j])

\* The VM is on or off as w says, if w says so.
Is(w) == w \in Seen => pve.power = w

PowerInv ==
  /\ wpc = "sync" => Is(copy.prefer.power)
  /\ wpc = "done" /\ queue[1].kind = "apply" => Is(copy.prefer.power)
  /\ wpc = "done" /\ queue[1].kind = "power" => Is(queue[1].power)
  /\ wpc # "idle" /\ queue[1].kind = "apply" /\ NoSet(2) =>
       copy.prefer.power = row.prefer.power
  /\ \A i \in 1 .. Len(queue) : queue[i].kind = "power" /\ NoSet(i + 1) =>
       queue[i].power = row.prefer.power
  /\ NoSet(1) => Is(row.prefer.power)

\* What the row says of the power, when no reboot is asked for.
RealInv ==
  /\ wpc = "done" /\ SetsPower(queue[1]) => row.real = pve.power
  /\ NoSet(1) /\ row.state = "synced" => row.real = pve.power

\* A task at the end of the queue: nothing before it is the last to set the
\* power, and if it is, it sets what the row says.
LEMMA Behind ==
  ASSUME queue \in Seq(Task), NEW w, Extended(w)
  PROVE  /\ Len(queue) \in Nat /\ Len(queue') \in Nat
         /\ ~NoSet(1)'
         /\ queue # <<>> => ~NoSet(2)' /\ queue'[1] = queue[1] /\ Len(queue) >= 1
         /\ \A i \in 1 .. Len(queue) : ~NoSet(i + 1)'
         /\ \A i \in 1 .. Len(queue') :
              queue'[i].kind = "power" /\ NoSet(i + 1)' => i > Len(queue)
<1>1. /\ queue' \in Seq(Task) /\ Len(queue') > Len(queue)
      /\ Len(queue) \in Nat /\ Len(queue') \in Nat
      /\ \A i \in 1 .. Len(queue) : queue'[i] = queue[i]
      /\ SetsPower(queue'[Len(queue) + 1])
  BY DEF Extended, SetsPower
<1>2. \A i \in 1 .. Len(queue) + 1 : ~NoSet(i)'
  BY <1>1 DEF NoSet, SetsPower
<1>3. queue # <<>> => Len(queue) >= 1
  BY <1>1
<1>4. \A i \in 1 .. Len(queue) : i + 1 \in 1 .. Len(queue) + 1
  BY <1>1
<1>5. 1 \in 1 .. Len(queue) + 1 /\ (queue # <<>> => 2 \in 1 .. Len(queue) + 1)
  BY <1>1, <1>3
<1>6. \A i \in 1 .. Len(queue') : i \in 1 .. Len(queue) \/ i > Len(queue)
  BY <1>1
<1> QED BY <1>1, <1>2, <1>3, <1>4, <1>5, <1>6

\* A commit keeps the invariant: the task it adds is the last to set the power.
LEMMA PowerCommit ==
  ASSUME TypeOK, Shape, PowerInv, RealInv, NEW c \in Clients, CommitPatch(c) \/ CommitPower(c)
  PROVE  PowerInv' /\ RealInv'
<1>1. /\ queue \in Seq(Task) /\ Extended(row'.prefer.power)
      /\ row'.real = row.real
      /\ UNCHANGED <<pve, wpc, copy>>
  BY PatchExtends, PowerExtends, CommitType
  DEF TypeOK, CommitPatch, CommitPower, Commits
<1>2. wpc # "idle" => queue # <<>>
  BY DEF Shape, Busy
<1>3. ASSUME NEW i \in 1 .. Len(queue'), queue'[i].kind = "power", NoSet(i + 1)'
      PROVE  queue'[i].power = row'.prefer.power
  <2>1. i > Len(queue)
    BY <1>1, <1>3, Behind
  <2>2. CASE queue'[Len(queue) + 1].kind = "apply"
    <3>1. row' = Patched(c) \/ CommitPower(c)
      BY PatchExtends
    <3>2. i # Len(queue) + 1
      BY <1>3, <2>2
    <3>3. CommitPower(c) => Len(queue') = Len(queue) + 1
      BY <1>1 DEF CommitPower
    <3>4. ~CommitPower(c)
      BY <1>1, <2>1, <3>2, <3>3, Behind
    <3>5. queue' = queue \o PatchTasks(c)
      BY <3>4 DEF CommitPatch
    <3>6. PatchTasks(c) \in {<<ApplyTask>>, <<ApplyTask, RebootTask>>}
      BY DEF PatchTasks
    <3>7. queue'[i] \in {ApplyTask, RebootTask}
      BY <1>1, <2>1, <3>5, <3>6, Kinds
    <3> QED BY <1>3, <3>7, Kinds
  <2>3. CASE /\ queue'[Len(queue) + 1].kind = "power"
             /\ queue'[Len(queue) + 1].power = row'.prefer.power
             /\ Len(queue') = Len(queue) + 1
    <3>1. i = Len(queue) + 1
      BY <1>1, <2>1, <2>3, Behind
    <3> QED BY <2>3, <3>1
  <2> QED BY <1>1, <2>2, <2>3 DEF Extended
<1>4. /\ ~NoSet(1)' /\ (wpc # "idle" => ~NoSet(2)' /\ queue'[1] = queue[1])
  BY <1>1, <1>2, Behind
<1> QED BY <1>1, <1>3, <1>4 DEF PowerInv, RealInv, Is, SetsPower

\* The task that has been done leaves the queue.
LEMMA PowerDone ==
  ASSUME TypeOK, Shape, PowerInv, RealInv, TaskDone
  PROVE  PowerInv' /\ RealInv'
<1>1. /\ queue \in Seq(Task) /\ queue # <<>> /\ wpc = "done" /\ wpc' = "idle"
      /\ queue' = Tail(queue) /\ UNCHANGED <<row, pve, copy>>
  BY DEF TypeOK, TaskDone, Goto, Shape, Busy
<1>2. /\ Len(queue') = Len(queue) - 1 /\ Len(queue) \in Nat \ {0}
      /\ \A i \in 1 .. Len(queue) - 1 : queue'[i] = queue[i + 1]
  BY <1>1, TailOf
<1>3. ASSUME NEW i \in Nat, NoSet(i + 1)' PROVE NoSet(i + 2)
  <2>1. ASSUME NEW j \in (i + 2) .. Len(queue) PROVE ~SetsPower(queue[j])
    <3>1. j - 1 \in 1 .. Len(queue) - 1 /\ j - 1 \in (i + 1) .. Len(queue') /\ (j - 1) + 1 = j
      BY <1>2
    <3>2. queue'[j - 1] = queue[j]
      BY <1>2, <3>1
    <3> QED BY <1>3, <3>1, <3>2 DEF NoSet, SetsPower
  <2> QED BY <2>1 DEF NoSet
<1>4. ASSUME NEW i \in 1 .. Len(queue'), queue'[i].kind = "power", NoSet(i + 1)'
      PROVE  queue'[i].power = row'.prefer.power
  <2>1. i \in Nat /\ i \in 1 .. Len(queue) - 1 /\ i + 1 \in 1 .. Len(queue) /\ (i + 1) + 1 = i + 2
    BY <1>2
  <2>2. queue'[i] = queue[i + 1] /\ NoSet((i + 1) + 1)
    BY <1>2, <1>3, <1>4, <2>1
  <2> QED BY <1>1, <1>4, <2>1, <2>2 DEF PowerInv
<1>5. NoSet(1)' => NoSet(2)
  BY <1>3
<1>6. NoSet(2) /\ ~SetsPower(queue[1]) => NoSet(1)
  BY <1>2 DEF NoSet
<1>7. NoSet(2) => Is(row.prefer.power)
  <2>1. CASE queue[1].kind = "apply"
    BY <1>1, <2>1 DEF PowerInv
  <2>2. CASE queue[1].kind = "power"
    BY <1>1, <1>2, <2>2 DEF PowerInv
  <2> QED BY <1>6, <2>1, <2>2 DEF PowerInv, SetsPower
<1>8. NoSet(2) /\ row.state = "synced" => row.real = pve.power
  BY <1>1, <1>6 DEF RealInv
<1> QED BY <1>1, <1>4, <1>5, <1>7, <1>8 DEF PowerInv, RealInv, Is

LEMMA PowerStep ==
  ASSUME ~purged', "reboot" \notin Powers, TypeOK, Shape, PowerInv, RealInv, [Next]_vars
  PROVE  PowerInv' /\ RealInv'
<1>0. /\ queue \in Seq(Task) /\ pve \in Machine /\ row \in Row /\ copy \in Row
      /\ Len(queue) \in Nat /\ pve.power \in Seen
      /\ copy.prefer.power \in Seen
  <2>1. /\ queue \in Seq(Task) /\ pve \in Machine /\ row \in Row /\ copy \in Row
        /\ Len(queue) \in Nat
    BY DEF TypeOK
  <2>2. copy.prefer \in PreferStatus
    BY <2>1 DEF Row
  <2>3. copy.prefer.power \in Seen
    BY <2>2, PowersAssumption DEF PreferStatus, Asked, Seen
  <2> QED BY <2>1, <2>3 DEF Machine
<1> USE DEF PowerInv, RealInv, NoSet, Is, SetsPower
<1>1. ASSUME NEW c \in Clients, NEW r, Load(c, r) PROVE PowerInv' /\ RealInv'
  BY <1>1 DEF Load
<1>2. ASSUME NEW c \in Clients, CommitPatch(c) \/ CommitPower(c) PROVE PowerInv' /\ RealInv'
  BY <1>2, PowerCommit
<1>3. CASE RetryByHand
  <2>1. row'.prefer = row.prefer /\ row'.state = "pending"
    BY <1>3, <1>0 DEF RetryByHand, Row
  <2>2. UNCHANGED <<queue, pve, wpc, copy>> /\ wpc = "idle"
    BY <1>3 DEF RetryByHand, Shape, Busy
  <2> QED BY <2>1, <2>2
<1>4. CASE TakeTask
  <2>1. wpc' \in {"find", "do"} /\ copy' = row /\ UNCHANGED <<row, queue, pve>>
    BY <1>4 DEF TakeTask, Goto
  <2> QED BY <2>1
<1>5. ASSUME queue[1].kind = "apply", queue # <<>>, queue' = queue,
             wpc' \in {"idle", "set", "read", "write", "power"}, copy' = copy,
             row'.prefer = row.prefer, wpc \notin {"idle"}
      PROVE  PowerInv' /\ RealInv'
  <2>1. ~NoSet(1) /\ ~NoSet(1)'
    BY <1>0, <1>5
  <2> QED BY <1>5, <2>1
<1>6. CASE FindOrClone \/ SetVMConfig \/ ReadConfig \/ WriteConfig
  <2>1. row'.prefer = row.prefer
    BY <1>6, <1>0 DEF FindOrClone, SetVMConfig, ReadConfig, WriteConfig, Row
  <2>2. /\ wpc' \in {"set", "read", "write", "power"} /\ wpc # "idle"
        /\ UNCHANGED <<queue, copy>>
    BY <1>6 DEF FindOrClone, SetVMConfig, ReadConfig, WriteConfig, Goto, workVars
  <2>3. queue[1].kind = "apply" /\ queue # <<>>
    BY <1>6 DEF FindOrClone, SetVMConfig, ReadConfig, WriteConfig, Shape, Busy, Applying
  <2> QED BY <1>5, <2>1, <2>2, <2>3
<1>7. CASE ApplyPower
  <2>1. pve'.power = copy.prefer.power /\ wpc' = "sync" /\ UNCHANGED <<queue, copy, row>>
    BY <1>7, <1>0, PoweredType DEF ApplyPower, Goto, workVars
  <2>2. queue[1].kind = "apply" /\ queue # <<>> /\ wpc = "power"
    BY <1>7 DEF ApplyPower, Shape, Busy, Applying
  <2>3. ~NoSet(1)
    BY <1>0, <2>2
  <2> QED BY <2>1, <2>2, <2>3
<1>8. CASE MarkSynced
  <2>1. row'.prefer = row.prefer /\ row'.real = pve.power
    BY <1>8, <1>0 DEF MarkSynced, Row, Seen
  <2>2. /\ wpc = "sync" /\ wpc' = "done" /\ UNCHANGED <<queue, copy, pve>>
        /\ queue[1].kind = "apply" /\ queue # <<>>
    BY <1>8 DEF MarkSynced, Shape, Busy, Applying, workVars, Goto
  <2>3. ~NoSet(1)
    BY <1>0, <2>2
  <2> QED BY <2>1, <2>2, <2>3
<1>9. CASE RunPowerTask
  <2>1. wpc = "do" /\ wpc' = "done" /\ UNCHANGED <<queue, copy>> /\ queue # <<>>
    BY <1>9 DEF RunPowerTask, Goto, workVars, Shape, Busy
  <2>2. queue[1].kind = "power"
    BY <1>9, <1>0, <2>1, TailOf DEF RunPowerTask
  <2>3. pve.exists
    BY <2>1, <2>2 DEF Shape, Busy
  <2>4. pve' = Powered(queue[1].power) /\ row' = [row EXCEPT !.state = "synced", !.real = pve'.power]
    BY <1>9, <1>0, <2>1, <2>3, TailOf DEF RunPowerTask
  <2>5. row'.prefer = row.prefer /\ row'.real = pve'.power
    <3>1. ASSUME NEW w, row' = [row EXCEPT !.state = "synced", !.real = w]
          PROVE  row'.prefer = row.prefer /\ row'.real = w
      BY <1>0, <3>1 DEF Row
    <3> QED BY <2>4, <3>1
  <2>6. queue[1].power \in Seen => pve'.power = queue[1].power
    BY <1>0, <2>4, PoweredType
  <2>7. ~NoSet(1)
    BY <1>0, <2>1, <2>2
  <2> QED BY <2>1, <2>2, <2>5, <2>6, <2>7
<1>10. CASE RunRebootTask
  <2>1. wpc' = "done" /\ queue # <<>> /\ UNCHANGED <<queue, copy, row, pve>>
    BY <1>10 DEF RunRebootTask, Goto, workVars, Shape, Busy
  <2>2. queue[1].kind = "reboot"
    BY <1>10, <1>0, <2>1, TailOf DEF RunRebootTask
  <2> QED BY <2>1, <2>2
<1>11. CASE TaskDone
  BY <1>11, PowerDone
<1>12. CASE TaskFails
  <2>1. wpc' = "idle" /\ UNCHANGED <<queue, copy>> /\ wpc # "idle" /\ queue # <<>>
    BY <1>12 DEF TaskFails, LeaveTask, Goto, Shape, Busy
  <2>2. row'.prefer = row.prefer /\ row'.real = row.real /\ row'.state \in {row.state, "failed"}
    BY <1>12, <1>0 DEF TaskFails, LeaveTask, Row
  <2>3. pve' = pve \/ queue[1].kind = "apply"
    BY <1>12 DEF TaskFails, Shape, Busy, Applying, TypeOK, Steps
  <2>4. queue[1].kind = "apply" => ~NoSet(1)
    BY <1>0, <2>1
  <2> QED BY <2>1, <2>2, <2>3, <2>4
<1>13. CASE UNCHANGED vars
  BY <1>13 DEF vars
<1> QED
  BY <1>1, <1>2, <1>3, <1>4, <1>6, <1>7, <1>8, <1>9, <1>10, <1>11, <1>12, <1>13
  DEF Next, Server, Worker, Apply, Purge, LoadSettings, LoadPassword, LoadPower

--------------------------------------------------------------------------------
\* Initially the provision task is open and everything else has yet to happen.
LEMMA ConfigInit == Init => TypeOK /\ Shape /\ SettingsInv /\ PowerInv /\ RealInv
<1> SUFFICES ASSUME Init PROVE TypeOK /\ Shape /\ SettingsInv /\ PowerInv /\ RealInv
  OBVIOUS
<1>1. row \in Row /\ row.config \in ConfigJSON
  <2>1. PICK x \in Configs, p \in Passwords, w \in Seen : row = NewRow(x, p, w)
    BY DEF Init
  <2>2. /\ [settings |-> x, power |-> w] \in PreferStatus
        /\ [settings |-> x, synced |-> FALSE] \in ConfigJSON
    BY DEF PreferStatus, ConfigJSON, Asked, Seen
  <2> QED BY <2>1, <2>2 DEF NewRow, Row
<1>2. queue \in Seq(Task) /\ queue # <<>> /\ queue[1].kind = "apply" /\ Len(queue) = 1
  BY Kinds DEF Init
<1>3. req \in [Clients -> Request \union {NoRequest}]
  BY DEF Init
<1>4. TypeOK
  BY <1>1, <1>2, <1>3, MachineType DEF Init, TypeOK, Steps
<1>5. Shape
  BY <1>2, MachineType DEF Init, Shape, Busy, Applying
<1>6. SettingsInv
  BY <1>2 DEF Init, SettingsInv, NoApply, NoRequest
<1>7. PowerInv /\ RealInv
  BY <1>2 DEF Init, PowerInv, RealInv, NoSet, SetsPower
<1> QED BY <1>4, <1>5, <1>6, <1>7

\* With an empty queue and nothing under way the invariants say what was wanted.
LEMMA WhenQuiet ==
  ASSUME TypeOK, Shape, Quiet
  PROVE  /\ SettingsInv => Converged
         /\ PowerInv => PowerConverged
<1>1. queue = <<>> /\ Len(queue) = 0 /\ pve.exists
  BY DEF Quiet, Shape, Busy, TypeOK, Machine
<1>2. NoApply(1) /\ NoSet(1)
  BY <1>1 DEF NoApply, NoSet
<1> QED BY <1>1, <1>2 DEF SettingsInv, PowerInv, RealInv, Is, Converged, PowerConverged

\* A purge is not forgotten.
LEMMA PurgedStep == [Next]_vars /\ purged => purged'
BY DEF Next, Server, Worker, Apply, vars, workVars, LoadSettings, LoadPassword, LoadPower,
       Load, CommitPatch, CommitPower, Commits, RetryByHand, TakeTask, FindOrClone,
       SetVMConfig, ReadConfig, WriteConfig, ApplyPower, MarkSynced, RunPowerTask,
       RunRebootTask, TaskDone, TaskFails, LeaveTask, Purge

\* When no task is open, and none was purged, the VM is configured as its row
\* asks: syncPresent against the blind writes of handlePatchVM, when there are
\* no power requests.
THEOREM ConvergedHolds == "power" \notin Ops => (Spec => []Converged)
<1> DEFINE Inv == TypeOK /\ Busy /\ (~purged => Shape /\ SettingsInv)
<1>1. CASE "power" \notin Ops
  <2>1. Init => Inv
    BY ConfigInit DEF Shape, Busy
  <2>2. Inv /\ [Next]_vars => Inv'
    BY <1>1, TypeStep, BusyStep, ShapeStep, SettingsStep, PurgedStep
  <2>3. Inv => Converged
    BY WhenQuiet DEF Converged
  <2> QED BY <2>1, <2>2, <2>3, PTL DEF Spec
<1> QED BY <1>1

\* When no task is open, and none was purged, the VM is on or off as its row
\* asks: power requests and patches in any order and any number, when nobody
\* asks for a reboot.
THEOREM PowerConvergedHolds == "reboot" \notin Powers => (Spec => []PowerConverged)
<1> DEFINE Inv == TypeOK /\ Busy /\ (~purged => Shape /\ PowerInv /\ RealInv)
<1>1. CASE "reboot" \notin Powers
  <2>1. Init => Inv
    BY ConfigInit DEF Shape, Busy
  <2>2. Inv /\ [Next]_vars => Inv'
    BY <1>1, TypeStep, BusyStep, ShapeStep, PowerStep, PurgedStep
  <2>3. Inv => PowerConverged
    BY WhenQuiet DEF PowerConverged
  <2> QED BY <2>1, <2>2, <2>3, PTL DEF Spec
<1> QED BY <1>1

\* Every reachable state is well typed.
THEOREM TypeCorrect == Spec => []TypeOK
<1>1. Init => TypeOK /\ Busy
  BY ConfigInit DEF Shape
<1>2. TypeOK /\ Busy /\ [Next]_vars => (TypeOK /\ Busy)'
  BY TypeStep, BusyStep
<1> QED BY <1>1, <1>2, PTL DEF Spec

--------------------------------------------------------------------------------
(* The power the row shows, purged tasks included.                         *)

\* What of Shape a purge leaves true.
Footing ==
  /\ Busy
  /\ wpc \in Applying => queue[1].kind = "apply"
  /\ wpc = "do" => queue[1].kind # "apply"
  /\ wpc \in {"find", "do"} => ~created
  /\ wpc \in Applying \ {"find"} => pve.exists

LEMMA FootingStep == TypeOK /\ Footing /\ [Next]_vars => Footing'
<1> SUFFICES ASSUME TypeOK, Footing, [Next]_vars PROVE Footing'
  OBVIOUS
<1>0. queue \in Seq(Task) /\ pve \in Machine /\ Busy'
  BY BusyStep DEF TypeOK, Footing
<1> USE DEF Footing, Applying
<1>1. ASSUME NEW c \in Clients, NEW r, Load(c, r) PROVE Footing'
  BY <1>0, <1>1 DEF Load
<1>2. ASSUME NEW c \in Clients, CommitPatch(c) \/ CommitPower(c) PROVE Footing'
  <2>1. PICK w : Extended(w)
    BY <1>2, PatchExtends, PowerExtends
  <2>2. UNCHANGED <<pve, wpc, created>>
    BY <1>2 DEF CommitPatch, CommitPower, Commits
  <2>3. wpc # "idle" => queue'[1] = queue[1]
    <3>1. wpc # "idle" => 1 \in 1 .. Len(queue)
      BY <1>0 DEF Busy
    <3> QED BY <2>1, <3>1 DEF Extended
  <2> QED BY <1>0, <2>2, <2>3
<1>3. CASE RetryByHand
  BY <1>0, <1>3 DEF RetryByHand
<1>4. CASE TakeTask
  BY <1>0, <1>4, TailOf DEF TakeTask, Goto
<1>5. CASE FindOrClone
  <2>1. pve'.exists
    BY <1>5, MachineType DEF FindOrClone
  <2> QED BY <1>0, <1>5, <2>1 DEF FindOrClone, Goto, workVars
<1>6. CASE SetVMConfig \/ ReadConfig \/ WriteConfig \/ ApplyPower \/ MarkSynced
  <2>0. pve.exists
    BY <1>6 DEF SetVMConfig, ReadConfig, WriteConfig, ApplyPower, MarkSynced
  <2>1. pve'.exists
    <3>1. CASE SetVMConfig
      BY <1>0, <2>0, <3>1 DEF SetVMConfig, Machine
    <3>2. CASE ApplyPower
      BY <1>0, <2>0, <3>2, PoweredType DEF ApplyPower
    <3>3. CASE ReadConfig \/ WriteConfig \/ MarkSynced
      BY <2>0, <3>3 DEF ReadConfig, WriteConfig, MarkSynced
    <3> QED BY <1>6, <3>1, <3>2, <3>3
  <2> QED BY <1>0, <1>6, <2>1 DEF SetVMConfig, ReadConfig, WriteConfig, ApplyPower, MarkSynced, Goto, workVars
<1>7. CASE RunPowerTask \/ RunRebootTask \/ TaskDone \/ TaskFails
  BY <1>0, <1>7 DEF RunPowerTask, RunRebootTask, TaskDone, TaskFails, LeaveTask, Goto
<1>8. CASE Purge
  BY <1>0, <1>8 DEF Purge, Busy
<1>9. CASE UNCHANGED vars
  BY <1>9 DEF vars, Busy
<1> QED
  BY <1>1, <1>2, <1>3, <1>4, <1>5, <1>6, <1>7, <1>8, <1>9
  DEF Next, Server, Worker, Apply, LoadSettings, LoadPassword, LoadPower

Synced == row.state = "synced"

\* A row shown as synced belongs to a VM that is there and whose power it
\* shows, unless a task that sets the power is still to come.
TruthInv ==
  /\ stuck \/ ~pve.exists => ~Synced
  /\ created /\ wpc \in Applying => ~Synced
  /\ wpc = "done" /\ SetsPower(queue[1]) /\ Synced => row.real = pve.power
  /\ NoSet(1) /\ Synced => row.real = pve.power

LEMMA TruthStep ==
  ASSUME "reboot" \notin Powers, TypeOK, Footing, TruthInv, [Next]_vars
  PROVE  TruthInv'
<1>0. /\ queue \in Seq(Task) /\ pve \in Machine /\ row \in Row /\ Len(queue) \in Nat
      /\ copy.prefer.power # "reboot"
  <2>1. /\ queue \in Seq(Task) /\ pve \in Machine /\ row \in Row /\ copy \in Row
        /\ Len(queue) \in Nat
    BY DEF TypeOK
  <2>2. copy.prefer \in PreferStatus
    BY <2>1 DEF Row
  <2> QED BY <2>1, <2>2, PowersAssumption DEF PreferStatus, Asked
<1> USE DEF TruthInv, Synced, SetsPower, NoSet
<1>1. ASSUME NEW c \in Clients, NEW r, Load(c, r) PROVE TruthInv'
  BY <1>1 DEF Load
<1>2. ASSUME row'.state # "synced" PROVE TruthInv'
  BY <1>2
<1>3. ASSUME NEW c \in Clients, CommitPatch(c) \/ CommitPower(c) PROVE TruthInv'
  <2>1. row'.state = "pending"
    BY <1>3, PatchExtends, PowerExtends, CommitType DEF CommitPatch, Commits
  <2> QED BY <1>2, <2>1
<1>4. CASE RetryByHand
  <2>1. row'.state = "pending"
    BY <1>0, <1>4 DEF RetryByHand, Row
  <2> QED BY <1>2, <2>1
<1>5. CASE TakeTask
  <2>1. wpc' \in {"find", "do"} /\ ~created' /\ UNCHANGED <<row, queue, pve, stuck>>
    BY <1>5 DEF TakeTask, Goto
  <2> QED BY <2>1
\* Head of the queue while an apply task is under way.
<1>6. ASSUME wpc \in Applying PROVE queue # <<>> /\ queue[1].kind = "apply" /\ ~NoSet(1) /\ ~stuck
  BY <1>0, <1>6 DEF Footing, Busy, Applying
<1>7. CASE FindOrClone
  <2>1. /\ row'.state = row.state /\ pve'.exists /\ created' = ~pve.exists
        /\ wpc' = "set" /\ UNCHANGED <<queue, stuck>> /\ wpc \in Applying
    BY <1>0, <1>7, MachineType DEF FindOrClone, Row, Goto, workVars, Applying
  <2> QED BY <1>6, <2>1
<1>8. CASE SetVMConfig \/ ReadConfig \/ WriteConfig \/ ApplyPower
  <2>1. /\ row'.state = row.state /\ pve'.exists /\ created' = created
        /\ wpc' \in Applying /\ UNCHANGED <<queue, stuck>> /\ wpc \in Applying
    <3>1. row'.state = row.state
      BY <1>0, <1>8 DEF SetVMConfig, ReadConfig, WriteConfig, ApplyPower, Row
    <3>2. pve.exists
      BY <1>8 DEF SetVMConfig, ReadConfig, WriteConfig, ApplyPower, Footing, Applying
    <3>3. pve'.exists
      BY <1>0, <1>8, <3>2, PoweredType DEF SetVMConfig, ReadConfig, WriteConfig, ApplyPower, Machine, workVars
    <3> QED BY <1>8, <3>1, <3>3 DEF SetVMConfig, ReadConfig, WriteConfig, ApplyPower, Goto, workVars, Applying
  <2> QED BY <1>6, <2>1 DEF Applying
<1>9. CASE MarkSynced
  <2>1. row'.real = pve.power
    BY <1>0, <1>9 DEF MarkSynced, Row
  <2>2. /\ wpc \in Applying /\ pve.exists /\ wpc' = "done"
        /\ UNCHANGED <<queue, stuck, pve>>
    BY <1>9 DEF MarkSynced, Goto, workVars, Applying, Footing
  <2> QED BY <1>6, <2>1, <2>2 DEF Applying
<1>10. CASE RunPowerTask
  <2>1. wpc = "do" /\ wpc' = "done" /\ UNCHANGED <<queue, stuck>> /\ ~stuck /\ queue # <<>>
    BY <1>10 DEF RunPowerTask, Goto, workVars, Footing, Busy
  <2>2. queue[1].kind = "power" /\ ~NoSet(1)
    BY <1>0, <1>10, <2>1, TailOf DEF RunPowerTask
  <2>3. CASE pve.exists
    <3>1. pve' = Powered(Head(queue).power) /\ row' = [row EXCEPT !.state = "synced", !.real = pve'.power]
      BY <1>10, <2>3 DEF RunPowerTask
    <3>2. pve'.exists
      BY <1>0, <2>3, <3>1, PoweredType
    <3>3. ASSUME NEW w, row' = [row EXCEPT !.state = "synced", !.real = w] PROVE row'.real = w
      BY <1>0, <3>3 DEF Row
    <3> QED BY <2>1, <2>2, <3>1, <3>2, <3>3 DEF Applying
  <2>4. CASE ~pve.exists
    <3>1. row'.state # "synced"
      BY <1>10, <2>4 DEF RunPowerTask
    <3> QED BY <1>2, <3>1
  <2> QED BY <2>3, <2>4
<1>11. CASE RunRebootTask
  <2>1. /\ wpc = "do" /\ wpc' = "done" /\ queue # <<>> /\ UNCHANGED <<queue, row, pve, stuck>>
    BY <1>11 DEF RunRebootTask, Goto, workVars, Footing, Busy
  <2>2. queue[1].kind = "reboot"
    BY <1>0, <1>11, <2>1, TailOf DEF RunRebootTask
  <2> QED BY <2>1, <2>2 DEF Applying
<1>12. CASE TaskDone
  <2>1. /\ queue # <<>> /\ wpc = "done" /\ wpc' = "idle" /\ queue' = Tail(queue)
        /\ UNCHANGED <<row, pve, stuck>>
    BY <1>12 DEF TaskDone, Goto, Footing, Busy
  <2>2. ASSUME NoSet(1)', ~SetsPower(queue[1]) PROVE NoSet(1)
    <3>1. ASSUME NEW j \in 2 .. Len(queue) PROVE ~SetsPower(queue[j])
      <4>1. /\ j - 1 \in 1 .. Len(queue) - 1 /\ (j - 1) + 1 = j
            /\ Len(queue') = Len(queue) - 1
        BY <1>0, <2>1, TailOf
      <4>2. queue'[j - 1] = queue[j]
        BY <1>0, <2>1, <4>1, TailOf
      <4> QED BY <2>2, <4>1, <4>2
    <3> QED BY <1>0, <2>2, <3>1
  <2> QED BY <2>1, <2>2 DEF Applying
<1>13. CASE TaskFails
  <2>1. wpc' = "idle" /\ queue' = queue /\ wpc # "idle"
    BY <1>13 DEF TaskFails, LeaveTask, Goto
  <2>2. \/ row' = row /\ stuck' = stuck
        \/ row' = [row EXCEPT !.state = "failed"]
    BY <1>13 DEF TaskFails, LeaveTask
  <2>3. CASE row' = [row EXCEPT !.state = "failed"]
    BY <1>0, <1>2, <2>3 DEF Row
  <2>4. CASE row' = row /\ stuck' = stuck
    <3>1. wpc \in Applying \/ wpc \in {"do", "done"}
      BY <2>1 DEF TypeOK, Steps, Applying
    <3>2. pve' = pve \/ (created /\ wpc \in Applying)
      BY <1>13, <3>1 DEF TaskFails, Footing
    <3>3. CASE pve' = pve
      BY <2>1, <2>4, <3>3 DEF Applying
    <3>4. CASE created /\ wpc \in Applying
      BY <1>2, <2>4, <3>4
    <3> QED BY <3>2, <3>3, <3>4
  <2> QED BY <2>2, <2>3, <2>4
<1>14. CASE Purge
  BY <1>2, <1>14 DEF Purge
<1>15. CASE UNCHANGED vars
  BY <1>15 DEF vars
<1> QED
  BY <1>1, <1>3, <1>4, <1>5, <1>7, <1>8, <1>9, <1>10, <1>11, <1>12, <1>13, <1>14, <1>15
  DEF Next, Server, Worker, Apply, LoadSettings, LoadPassword, LoadPower

\* When no task is open, a row shown as synced shows the power state of its VM,
\* failures, roll-backs and purged tasks included (markSynced, runPowerTask),
\* when nobody asks for a reboot.
THEOREM RealTruthfulHolds == "reboot" \notin Powers => (Spec => []RealTruthful)
<1> DEFINE Inv == TypeOK /\ Footing /\ TruthInv
<1>1. CASE "reboot" \notin Powers
  <2>1. Init => Inv
    <3>1. ASSUME Init PROVE Footing /\ TruthInv
      <4>1. wpc = "idle" /\ ~stuck /\ ~created /\ row.state = "pending"
        BY <3>1 DEF Init, NewRow
      <4>2. Shape
        BY <3>1, ConfigInit
      <4> QED BY <4>1, <4>2 DEF Footing, Shape, TruthInv, Synced, Applying
    <3> QED BY <3>1, ConfigInit
  <2>2. Inv /\ [Next]_vars => Inv'
    BY <1>1, TypeStep, FootingStep, TruthStep DEF Footing
  <2>3. Inv => RealTruthful
    BY DEF RealTruthful, TruthInv, Synced, Quiet, NoSet
  <2> QED BY <2>1, <2>2, <2>3, PTL DEF Spec
<1> QED BY <1>1
================================================================================
