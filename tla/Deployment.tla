------------------------------- MODULE Deployment ------------------------------
(***************************************************************************)
(* The processes of docker-compose.yml: a server and a worker that migrate *)
(* the database at every start (Migrations), and the worker's rounds       *)
(* (Maintenance) for as long as it is up.                                  *)
(***************************************************************************)
EXTENDS Migrations, Maintenance

CONSTANTS server, worker

ASSUME ProcessesAssumption == Processes = {server, worker}

allVars == <<vars, roundVars>>

DeploymentInit == Init /\ RoundInit

\* runWorker: the loop begins when Migrate has returned and ends with the
\* process.
WithWorker ==
  IF pc[worker] # "up" /\ pc'[worker] = "up" THEN StartWorker
  ELSE IF pc[worker] = "up" /\ pc'[worker] # "up" THEN WorkerEnds
  ELSE UNCHANGED roundVars

StartUp(p) == (Start(p) \/ Migrate(p)) /\ WithWorker

Rounds == RoundStep /\ UNCHANGED vars

Clock == Tick /\ UNCHANGED vars

Regular == (\E p \in Processes : StartUp(p)) \/ Rounds \/ Clock

AllFaults ==
  \/ \E p \in Processes : Faults(p) /\ WithWorker
  \/ RoundFaults /\ UNCHANGED vars

DeploymentNext == Regular \/ AllFaults

\* A part of the scan that begins with cluster c.
BeginsWith(k, c) ==
  /\ part = k
  /\ \E served, bad \in SUBSET Clusters : ScanPart(c, served, bad)
  /\ UNCHANGED vars

\* Processes that ended are started again (restart: unless-stopped), their
\* calls return, time passes, and the order of a Go map, random in every
\* loop, begins with each cluster again and again.
DeploymentSpec ==
  /\ DeploymentInit
  /\ [][DeploymentNext]_allVars
  /\ \A p \in Processes : WF_allVars(StartUp(p))
  /\ WF_allVars(Rounds)
  /\ SF_allVars(Clock)
  /\ \A k \in DOMAIN Parts, c \in Clusters :
       Parts[k] \in Gated => SF_allVars(BeginsWith(k, c))

--------------------------------------------------------------------------------
\* The processes stay up and their statements succeed.  PVE may go on failing.
EventuallyReliable == <>[][Regular]_allVars

Finishes(k) == Is("scan") /\ part = k /\ part' # k

\* Calls to cluster c succeed in part k of the scan.
Healthy(k, c) == <>[][Finishes(k) => c \notin outcome'.bad]_allVars

Serves(k, c) == Finishes(k) /\ c \in outcome'.served

\* Whatever fails elsewhere in the scan and at other clusters, each part of it
\* goes on to serve a cluster that answers: scanPVE carries out every part,
\* failed rows are retried, rows left running are recovered, and syncTemplates
\* and syncUnmanagedVMs, which give up at the first cluster that fails, take
\* the clusters in a random order.
EveryPartRuns ==
  EventuallyReliable =>
    \A k \in DOMAIN Parts, c \in Clusters : Healthy(k, c) => []<><<Serves(k, c)>>_allVars

\* Once nothing fails any more every maintenance task is carried out, those
\* included that an earlier process or a failed UPDATE left running and those
\* that failed before; server and worker are up to do so.
ScansDrain ==
  EventuallyReliable /\ <>[](~failed) =>
    []<>(/\ \A i \in DOMAIN rows : rows[i].status = "done"
         /\ \A p \in Processes : pc[p] = "up")

\* The worker's loop touches the database with its whole schema only.
RoundsMigrated == wpc # "down" => recorded = Versions
================================================================================
