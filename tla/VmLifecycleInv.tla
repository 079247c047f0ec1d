--------------------------- MODULE VmLifecycleInv ------------------------------
(***************************************************************************)
(* The inductive invariant IInv of VmLifecycle, which VmLifecycleProofs    *)
(* proves and TLC checks on small instances.  Its parts, one for each      *)
(* thing that has to be remembered:                                        *)
(*   Control   what the worker's program counter says of its variables;    *)
(*   InOrder   tasks that were started, and the one in the batch, are      *)
(*             heads of their queues;                                      *)
(*   Fits      a job of the batch still describes its task;                *)
(*   Budget    a job of the batch may be started;                          *)
(*   Gone      deleted VMs are off the cluster and out of the batch;       *)
(*   Clean     a row without a deletion keeps no trace of one, but for a   *)
(*             failed delete task at the head of its queue;                *)
(*   Settled   nothing that could destroy it is in hand for a synced VM;   *)
(*   Unborn    no deletion is asked for before there is a row;             *)
(*   Requests  patch and power carry no trace of a deletion.               *)
(* DueInv, at the end, is about deletions that nobody takes back.          *)
(***************************************************************************)
EXTENDS VmLifecycle

RoundPcs == {"down", "round", "expired", "queue", "supersede", "pick", "purge"}
ExecPcs  == WorkerPcs \ (RoundPcs \union {"next"})

Control ==
  /\ wpc \in RoundPcs => \A v \in VMs : batch[v] = NoJob
  /\ wpc \in ExecPcs <=> cur # NoVM
  /\ cur # NoVM => batch[cur] # NoJob
  /\ wpc = "run" => ~created
  /\ wpc = "configure" => pve[cur] = "present" /\ batch[cur].act = "present"
  /\ wpc = "destroyed" => pve[cur] = "absent"

InOrder(q, j) ==
  /\ \A s \in Tried(q) : IsHead(q, s)
  /\ j # NoJob => /\ j.seq \in Rows(q)
                  /\ IsHead(q, j.seq)
                  /\ Tried(q) \subseteq {j.seq}

Fits(q, j) ==
  j # NoJob => /\ q[j.seq].kind = "delete" => j.act = "delete"
               /\ q[j.seq].due # "none" => j.due # "none"

Budget(q, j) ==
  j # NoJob /\ q[j.seq].status = "failed" => q[j.seq].attempts <= MaxRetries

Gone(v) ==
  row[v].life = "deleted"
    => /\ pve[v] = "absent"
       /\ batch[v] # NoJob
            => cur = v /\ wpc \in {"cancel", "done", "failed", "exhausted"}

Dated(t) == t.kind = "delete" /\ t.due # "none"

Clean(q, r, j) ==
  ~r.delReq => /\ r.delAfter = "none"
               /\ r.prefer = PreferPresent
               /\ \A s \in Open(q) : Dated(q[s]) => /\ IsHead(q, s)
                                                    /\ j # NoJob => s = j.seq

IsSettled(r) == r.life = "live" /\ r.sync = "synced" /\ ~r.delReq

Settled(v) ==
  IsSettled(row[v])
    => /\ pve[v] = "present"
       /\ \A s \in Open(tasks[v]) : ~Dated(tasks[v][s])
       /\ batch[v].act = "delete" => batch[v].due = "none"
       /\ ~(cur = v /\ wpc = "configure" /\ created)

Unborn(v) == row[v].life = "none" => ~row[v].delReq

Requests ==
  \A c \in Clients : req[c] # NoRequest => /\ Found(req[c].vm)
                                          /\ req[c].prefer = PreferPresent

VmInv(v) ==
  /\ InOrder(tasks[v], batch[v])
  /\ Fits(tasks[v], batch[v])
  /\ v # cur => Budget(tasks[v], batch[v])
  /\ Gone(v)
  /\ Clean(tasks[v], row[v], batch[v])
  /\ Settled(v)
  /\ Unborn(v)

\* What has to be remembered of the past for the safety properties to be
\* kept by every step: why the worker may trust a batch that was read before
\* the handlers changed rows and tasks under it.
IInv == TypeOK /\ Control /\ Requests /\ \A v \in VMs : VmInv(v)

--------------------------------------------------------------------------------
(* Deadlines.                                                              *)

\* Nobody takes a deletion back, and requests come one after the other.
NoRestores == "restore" \notin Ops
OneAtATime == \A b, c \in Clients : b = c

\* The deadlines that queue and worker keep for v beside its row's.
Deadlines(v) == {batch[v].due} \union {tasks[v][s].due : s \in Seqs}

\* There are deadlines only where a deletion was asked for.
Announced(v) ==
  /\ ~row[v].delReq => Deadlines(v) \subseteq {"none"}
  /\ row[v].delReq => row[v].delAfter # "none"

\* No copy of a deadline is over before the row's.
OnTime(v) == row[v].delAfter = "future" => "past" \notin Deadlines(v)

NoneRestores == \A c \in Clients : req[c] # NoRequest => req[c].op # "restore"

\* A deletion that was checked is the first one still.
DeletesFresh ==
  \A c \in Clients :
    req[c] # NoRequest /\ req[c].op = "delete" => ~row[req[c].vm].delReq

\* What has to be remembered for a deletion to be requested and due when the
\* worker carries it out: how the deadlines of rows, payloads and batch, which
\* handleDeleteVM and handleDeleteNowVM write and deleteExecuteAfterForTask
\* chooses from, belong together under NoRestores and OneAtATime.
DueInv ==
  /\ NoneRestores /\ DeletesFresh
  /\ \A v \in VMs : Announced(v) /\ OnTime(v)
================================================================================
