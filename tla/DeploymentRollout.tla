-------------------------- MODULE DeploymentRollout --------------------------
(***************************************************************************)
(* One environment of the control plane: Deployments::Scheduler,           *)
(* PublishJob, Publisher, StaleSchedulingRecovery, ProgressRecorder and    *)
(* Nodes::DesiredStatePublisher, with the node agents as the processes     *)
(* that fetch what is published and report back.                           *)
(*                                                                         *)
(* Grain.  A job and a status request are sequences of single statements   *)
(* on the database or the object store; between two of them everybody else *)
(* runs.  Only what the code puts in one transaction, and what one         *)
(* statement does, is one action.                                          *)
(***************************************************************************)
EXTENDS Naturals

CONSTANTS
  Nodes,                \* nodes assigned to the environment
  Releases,             \* releases of the project
  TaskReleases,         \* releases with has_release_task?
  Revisions,            \* git commits
  Revision,             \* release -> revision; releases of one commit share it
  Workers,              \* job threads (JOB_THREADS)
  Requests,             \* web threads serving /api/v1/agent/status
  MaxDeployments,       \* bound: deployments of the environment
  MaxQueued,            \* bound: queued PublishJobs per deployment
  MaxSequence,          \* bound: desired state sequence of a node
  MaxFaults,            \* bound: crashes, lost responses, transient errors
  TaskSuccessReported,  \* does the agent report a release task that succeeded
  NoNode, NoRelease, NoRevision, NoRequest

ASSUME RolloutAssumption ==
  /\ Nodes # {} /\ TaskReleases \subseteq Releases
  /\ Revision \in [Releases -> Revisions] /\ NoRevision \notin Revisions
  /\ MaxDeployments \in Nat /\ MaxQueued \in Nat
  /\ MaxSequence \in Nat /\ MaxFaults \in Nat
  /\ TaskSuccessReported \in BOOLEAN
  /\ NoNode \notin Nodes /\ NoRelease \notin Releases
  /\ NoRequest \notin Requests

VARIABLES
  deployment,   \* sequence -> row of table deployments
  statuses,     \* sequence -> node -> deployment_node_statuses.phase
  current,      \* environments.current_release
  queue,        \* sequence -> PublishJobs waiting
  nodeSeq,      \* nodes.desired_state_sequence
  published,    \* node -> document its desired state pointer leads to
  wpc, wdep, wmem, wrel, wkind, wnode, wtodo, wseen, wrows, \* job threads
  rpc, report, rdep, rphase, rmem, verdict,                 \* status requests
  apc, cached, await, satisfied,                            \* the agents
  reconciled,   \* history: node -> revisions whose document it reconciled
  ran,          \* history: node -> revisions whose release task it ran
  faults

dbVars     == <<deployment, statuses, current, queue, nodeSeq, published>>
workerVars == <<wpc, wdep, wmem, wrel, wkind, wnode, wtodo, wseen,
                wrows>>
reqVars    == <<rpc, report, rdep, rphase, rmem, verdict>>
agentVars  == <<apc, cached, await, satisfied, reconciled, ran>>
vars == <<dbVars, workerVars, reqVars, agentVars, faults>>

Deployments == 1..MaxDeployments
Sequences   == 0..MaxSequence
Statuses    == {"none", "scheduling", "rolling_out", "published", "failed"}
TaskStates  == {"nil", "pending", "running", "succeeded", "failed"}
Phases      == {"reconciling", "settled", "error"}
RowPhases   == Phases \cup {"none", "pending"}
Terminal    == {"published", "failed"}

Rows == [status : Statuses, finished : BOOLEAN, task : TaskStates,
         taskNode : Nodes \cup {NoNode}, release : Releases \cup {NoRelease}]
Documents == [seq : Sequences, release : Releases \cup {NoRelease},
              kind : {"none", "task", "runtime"}]
Reports == [node : Nodes \cup {NoNode}, revision : Revisions \cup {NoRevision},
            phase : Phases \cup {"none"}, task : Phases \cup {"none"}]

NoRow      == [status |-> "none", finished |-> FALSE, task |-> "nil",
               taskNode |-> NoNode, release |-> NoRelease]
NoDocument == [seq |-> 0, release |-> NoRelease, kind |-> "none"]
NoReport   == [node |-> NoNode, revision |-> NoRevision, phase |-> "none",
               task |-> "none"]

(***************************************************************************)
(* ActiveRecord's update!: only the attributes that differ from the copy   *)
(* in memory are written; the rest of the row keeps what others wrote.     *)
(***************************************************************************)
Save(row, mem, new) ==
  [row EXCEPT
     !.status   = IF new.status   # mem.status   THEN new.status   ELSE @,
     !.finished = IF new.finished # mem.finished THEN new.finished ELSE @,
     !.task     = IF new.task     # mem.task     THEN new.task     ELSE @,
     !.taskNode = IF new.taskNode # mem.taskNode THEN new.taskNode ELSE @]

Failed(mem) == [mem EXCEPT !.status = "failed", !.finished = TRUE]

release_task_active(row) == row.task \in {"pending", "running", "succeeded"}

Existing == {d \in Deployments : deployment[d].status # "none"}

Enqueue(q, d) == [q EXCEPT ![d] = IF @ < MaxQueued THEN @ + 1 ELSE @]

Fault == faults < MaxFaults /\ faults' = faults + 1

-----------------------------------------------------------------------------
(* Scheduler, StaleSchedulingRecovery                                      *)

(***************************************************************************)
(* Scheduler#call with a new request token (a known one returns the        *)
(* deployment it made and changes nothing): under the environment's row    *)
(* lock, the next deployment in sequence.  perform_later runs after the    *)
(* commit, so the process can die between the two.                         *)
(***************************************************************************)
Schedule(d, release) ==
  /\ \A e \in Existing : e < d
  /\ d = 1 \/ d - 1 \in Existing
  /\ deployment' = [deployment EXCEPT ![d] =
       [NoRow EXCEPT !.status = "scheduling", !.release = release]]
  /\ \/ queue' = Enqueue(queue, d) /\ UNCHANGED faults
     \/ Fault /\ UNCHANGED queue
  /\ UNCHANGED <<statuses, current, nodeSeq, published,
                 workerVars, reqVars, agentVars>>

RecoverForgetful(d) ==
  /\ deployment[d].status = "scheduling" /\ UNCHANGED vars

(* StaleSchedulingRecovery#recover_deployment!: a deployment still         *)
(* scheduling 90 s after its last update is queued again, under its row    *)
(* lock.  Time is abstracted: any scheduling deployment may be stale.      *)
Recover(d) ==
  /\ deployment[d].status = "scheduling"
  /\ ~deployment[d].finished
  /\ queue' = Enqueue(queue, d)
  /\ UNCHANGED <<deployment, statuses, current, nodeSeq, published,
                 workerVars, reqVars, agentVars, faults>>

-----------------------------------------------------------------------------
(* PublishJob and Publisher                                                *)

publishable(row) ==
  \/ row.status = "scheduling"
  \/ /\ row.status = "rolling_out"
     /\ row.release \in TaskReleases => row.task = "succeeded"

release_task_stageNever(row) == FALSE

release_task_stage(row) ==
  row.release \in TaskReleases /\ row.task # "succeeded"

LockFreeUnlocked(d) == TRUE

(* Runtime::AdvisoryLock "deployments/publish/<id>": one PublishJob per    *)
(* deployment at a time (Postgres; the lock is a no-op on other databases).*)
LockFree(d) == \A w \in Workers : wpc[w] # "idle" => wdep[w] # d

(* The nodes whose status rows the job (re)creates.                        *)
SyncTargets(w) == IF wkind[w] = "task" THEN {wmem[w].taskNode} ELSE Nodes

Idle(w) ==
  /\ wpc'   = [wpc EXCEPT ![w] = "idle"]
  /\ wdep'  = [wdep EXCEPT ![w] = 0]
  /\ wmem'  = [wmem EXCEPT ![w] = NoRow]
  /\ wrel'  = [wrel EXCEPT ![w] = NoRelease]
  /\ wkind' = [wkind EXCEPT ![w] = "none"]
  /\ wnode' = [wnode EXCEPT ![w] = NoNode]
  /\ wtodo' = [wtodo EXCEPT ![w] = {}]
  /\ wseen' = [wseen EXCEPT ![w] = [n \in Nodes |-> 0]]
  /\ wrows' = [wrows EXCEPT ![w] = [n \in Nodes |-> "none"]]

(* PublishJob#perform up to the early returns.                             *)
JobStart(w, d) ==
  /\ wpc[w] = "idle" /\ queue[d] > 0 /\ LockFree(d)
  /\ queue' = [queue EXCEPT ![d] = @ - 1]
  /\ IF ~deployment[d].finished /\ publishable(deployment[d])
     THEN /\ wpc'  = [wpc EXCEPT ![w] = "prepare"]
          /\ wdep' = [wdep EXCEPT ![w] = d]
          /\ wmem' = [wmem EXCEPT ![w] = deployment[d]]
          /\ wrel' = [wrel EXCEPT ![w] = deployment[d].release]
          /\ UNCHANGED <<wkind, wnode, wtodo, wseen, wrows>>
     ELSE UNCHANGED workerVars
  /\ UNCHANGED <<deployment, statuses, current, nodeSeq, published,
                 reqVars, agentVars, faults>>

(***************************************************************************)
(* Publisher#call up to the end of its transaction: capacity and ingress,  *)
(* then under the row locks the assigned nodes are loaded, each with the   *)
(* desired_state_sequence of this moment.  finished_at and error_message   *)
(* are nil in memory already, so update! writes neither.                   *)
(***************************************************************************)
Prepare(w) ==
  /\ wpc[w] = "prepare"
  /\ wseen' = [wseen EXCEPT ![w] = nodeSeq]
  /\ IF release_task_stage(wmem[w])
     THEN /\ wpc'   = [wpc EXCEPT ![w] = "task"]
          /\ UNCHANGED <<wkind, wtodo>>
     ELSE /\ wpc'   = [wpc EXCEPT ![w] = "promote"]
          /\ wkind' = [wkind EXCEPT ![w] = "runtime"]
          /\ wtodo' = [wtodo EXCEPT ![w] = Nodes]
  /\ UNCHANGED <<dbVars, wdep, wmem, wrel, wnode, wrows, reqVars, agentVars,
                 faults>>

(* publish_release_task!, the deployment row; the executor is the one      *)
(* already chosen or the first capable node.                               *)
AnnounceTask(w) ==
  /\ wpc[w] = "task"
  /\ \E n \in IF wmem[w].taskNode # NoNode THEN {wmem[w].taskNode} ELSE Nodes :
       LET new == [wmem[w] EXCEPT !.status = "rolling_out",
                     !.task = "pending", !.taskNode = n, !.finished = FALSE]
       IN /\ deployment' = [deployment EXCEPT ![wdep[w]] =
                              Save(@, wmem[w], new)]
          /\ wmem'  = [wmem EXCEPT ![w] = new]
          /\ wtodo' = [wtodo EXCEPT ![w] = {n}]
  /\ wkind' = [wkind EXCEPT ![w] = "task"]
  /\ wpc'   = [wpc EXCEPT ![w] = "write"]
  /\ UNCHANGED <<statuses, current, queue, nodeSeq, published, wdep, wrel,
                 wnode, wseen, wrows, reqVars, agentVars, faults>>

(* publish_runtime_rollout!: the release and the environment.              *)
Promote(w) ==
  /\ wpc[w] = "promote"
  /\ current' = wrel[w]
  /\ wpc' = [wpc EXCEPT ![w] = "announce"]
  /\ UNCHANGED <<deployment, statuses, queue, nodeSeq, published, wdep, wmem,
                 wrel, wkind, wnode, wtodo, wseen, wrows, reqVars, agentVars,
                 faults>>

(* publish_runtime_rollout!: the deployment row.                           *)
AnnounceRollout(w) ==
  /\ wpc[w] = "announce"
  /\ LET new == [wmem[w] EXCEPT !.status = "rolling_out", !.task = "nil",
                                !.finished = FALSE]
     IN /\ deployment' = [deployment EXCEPT ![wdep[w]] =
                            Save(@, wmem[w], new)]
        /\ wmem' = [wmem EXCEPT ![w] = new]
  /\ wpc' = [wpc EXCEPT ![w] = "write"]
  /\ UNCHANGED <<statuses, current, queue, nodeSeq, published, wdep, wrel,
                 wkind, wnode, wtodo, wseen, wrows, reqVars, agentVars,
                 faults>>

(***************************************************************************)
(* DesiredStatePublisher#call: the document goes to the object store under *)
(* the sequence after the one this process has in memory, and the pointer  *)
(* leads to it at once ...                                                 *)
(***************************************************************************)
WriteDocument(w, n) ==
  /\ wpc[w] = "write" /\ n \in wtodo[w]
  /\ wseen[w][n] < MaxSequence
  /\ published' = [published EXCEPT ![n] =
       [seq |-> wseen[w][n] + 1, release |-> wrel[w], kind |-> wkind[w]]]
  /\ wnode' = [wnode EXCEPT ![w] = n]
  /\ wpc'   = [wpc EXCEPT ![w] = "persist"]
  /\ UNCHANGED <<deployment, statuses, current, queue, nodeSeq, wdep, wmem,
                 wrel, wkind, wtodo, wseen, wrows, reqVars, agentVars, faults>>

(* ... and persist_assignment_state! makes the node row follow.            *)
PersistSequence(w) ==
  /\ wpc[w] = "persist"
  /\ nodeSeq' = [nodeSeq EXCEPT ![wnode[w]] = wseen[w][wnode[w]] + 1]
  /\ LET rest == wtodo[w] \ {wnode[w]} IN
     IF rest # {}
     THEN /\ wpc'   = [wpc EXCEPT ![w] = "write"]
          /\ wtodo' = [wtodo EXCEPT ![w] = rest]
          /\ UNCHANGED <<wdep, wmem, wrel, wkind, wnode, wseen, wrows>>
     ELSE IF wdep[w] = 0
          THEN Idle(w)
          ELSE /\ wpc'   = [wpc EXCEPT ![w] = "index"]
               /\ wtodo' = [wtodo EXCEPT ![w] = SyncTargets(w)]
               /\ UNCHANGED <<wdep, wmem, wrel, wkind, wnode, wseen, wrows>>
  /\ UNCHANGED <<deployment, statuses, current, queue, published,
                 reqVars, agentVars, faults>>

(* sync_deployment_node_statuses! and sync_release_task_status!: after the *)
(* documents are out, the deployment's status rows are loaded ...          *)
IndexStatuses(w) ==
  /\ wpc[w] = "index"
  /\ wpc'   = [wpc EXCEPT ![w] = "sync"]
  /\ wrows' = [wrows EXCEPT ![w] = statuses[wdep[w]]]
  /\ UNCHANGED <<dbVars, wdep, wmem, wrel, wkind, wnode, wtodo, wseen, reqVars,
                 agentVars, faults>>

(***************************************************************************)
(* ... then one row per target is created or reset to pending (update!     *)
(* writes nothing if the row was pending when it was loaded), and the rows *)
(* of other nodes are destroyed once all targets are done.                 *)
(***************************************************************************)
SyncStatus(w, n) ==
  /\ wpc[w] = "sync" /\ n \in wtodo[w]
  /\ LET done == wtodo[w] = {n} IN
     /\ statuses' = [statuses EXCEPT ![wdep[w]] =
          [m \in Nodes |-> IF m = n /\ wrows[w][m] # "pending" THEN "pending"
                           ELSE IF done /\ m \notin SyncTargets(w) THEN "none"
                           ELSE @[m]]]
     /\ IF done THEN Idle(w)
        ELSE /\ wtodo' = [wtodo EXCEPT ![w] = @ \ {n}]
             /\ UNCHANGED <<wpc, wdep, wmem, wrel, wkind, wnode, wseen, wrows>>
  /\ UNCHANGED <<deployment, current, queue, nodeSeq, published,
                 reqVars, agentVars, faults>>

(* Publisher#mark_failed! and the rescue of PublishJob: any step may raise *)
(* (no capacity, an invalid assignment, the object store); a transient     *)
(* database error is raised further and the job is retried.                *)
PublishFail(w) ==
  /\ wpc[w] # "idle" /\ wdep[w] # 0
  /\ deployment' = [deployment EXCEPT ![wdep[w]] =
                      Save(@, wmem[w], Failed(wmem[w]))]
  /\ queue' \in {queue, Enqueue(queue, wdep[w])}
  /\ Idle(w)
  /\ UNCHANGED <<statuses, current, nodeSeq, published, reqVars, agentVars,
                 faults>>

(* The worker dies, or loses the database so that mark_failed! fails too.  *)
(* The job is lost with the process, or retried.                           *)
Interrupt(w) ==
  /\ wpc[w] # "idle" /\ Fault /\ Idle(w)
  /\ queue' \in {queue} \cup
       (IF wdep[w] = 0 THEN {} ELSE {Enqueue(queue, wdep[w])})
  /\ UNCHANGED <<deployment, statuses, current, nodeSeq, published,
                 reqVars, agentVars>>

(* Environments::RepublishDesiredStateJob and DiagnoseSignalPublisher: the *)
(* documents of the current release once more, for these nodes.            *)
Republish(w, targets) ==
  /\ wpc[w] = "idle" /\ current # NoRelease /\ Fault
  /\ wpc'   = [wpc EXCEPT ![w] = "write"]
  /\ wrel'  = [wrel EXCEPT ![w] = current]
  /\ wkind' = [wkind EXCEPT ![w] = "runtime"]
  /\ wtodo' = [wtodo EXCEPT ![w] = targets]
  /\ wseen' = [wseen EXCEPT ![w] = nodeSeq]
  /\ UNCHANGED <<dbVars, wdep, wmem, wnode, wrows, reqVars, agentVars>>

-----------------------------------------------------------------------------
(* StatusesController, ProgressRecorder                                    *)

(* The request ends; an agent that still waits for the response goes on.   *)
Respond(r) ==
  /\ rpc'     = [rpc EXCEPT ![r] = "free"]
  /\ report'  = [report EXCEPT ![r] = NoReport]
  /\ rdep'    = [rdep EXCEPT ![r] = 0]
  /\ rphase'  = [rphase EXCEPT ![r] = "none"]
  /\ rmem'    = [rmem EXCEPT ![r] = NoRow]
  /\ verdict' = [verdict EXCEPT ![r] = "none"]
  /\ await'   = [await EXCEPT ![report[r].node] =
                    IF @ = r THEN NoRequest ELSE @]

TrackedAnyRevision(rep) ==
  {d \in Deployments : statuses[d][rep.node] # "none"}

(* find_deployment_node_status: the latest deployment with a row for the   *)
(* node, of the reported revision if there is one.                         *)
Tracked(rep) ==
  {d \in Deployments : /\ statuses[d][rep.node] # "none"
                       /\ \/ rep.revision = NoRevision
                          \/ rep.revision = Revision[deployment[d].release]}

Latest(D) == {d \in D : \A e \in D : e <= d}

FindStatus(r) ==
  /\ rpc[r] = "find"
  /\ IF Tracked(report[r]) = {}
     THEN Respond(r)
     ELSE \E d \in Latest(Tracked(report[r])) :
            /\ rdep'   = [rdep EXCEPT ![r] = d]
            /\ rphase' = [rphase EXCEPT ![r] = statuses[d][report[r].node]]
            /\ rpc'    = [rpc EXCEPT ![r] = "record"]
            /\ UNCHANGED <<report, rmem, verdict, await>>
  /\ UNCHANGED <<dbVars, workerVars, apc, cached, satisfied, reconciled, ran,
                 faults>>

(* The update! of the status row, of the row as it was found; the row may  *)
(* have been destroyed since.                                              *)
RecordStatus(r) ==
  LET d == rdep[r]
      n == report[r].node
  IN /\ rpc[r] = "record"
     /\ rpc' = [rpc EXCEPT ![r] = "load"]
     /\ IF rphase[r] # report[r].phase /\ statuses[d][n] # "none"
        THEN statuses' = [statuses EXCEPT ![d][n] = report[r].phase]
        ELSE UNCHANGED statuses
     /\ UNCHANGED <<deployment, current, queue, nodeSeq, published, workerVars,
                    report, rdep, rphase, rmem, verdict, agentVars, faults>>

(* handle_release_task_status!: what the row becomes for a task report.    *)
TaskReported(row, phase) ==
  CASE phase = "reconciling" ->
         [row EXCEPT !.status = "rolling_out", !.task = "running",
                     !.finished = FALSE]
    [] phase = "settled" ->
         [row EXCEPT !.status = "rolling_out", !.task = "succeeded",
                     !.finished = FALSE]
    [] phase = "error" ->
         [row EXCEPT !.status = "failed", !.task = "failed",
                     !.finished = TRUE]

(* handle_release_task_status! applies to the node that runs the task.     *)
TaskApplies(r, row) == report[r].task # "none" /\ row.taskNode = report[r].node

(* Variant: a finished deployment is refreshed as well.                    *)
RefreshNeededAlways(row) == TRUE

(* rollout_refresh_needed?                                                 *)
RefreshNeeded(row) == row.status = "rolling_out" \/ ~row.finished

(* The deployment of the status row is loaded when first asked for.        *)
LoadDeployment(r) ==
  LET row == deployment[rdep[r]] IN
  /\ rpc[r] = "load"
  /\ IF TaskApplies(r, row) \/ RefreshNeeded(row)
     THEN /\ rpc'  = [rpc EXCEPT ![r] =
                        IF TaskApplies(r, row) THEN "task" ELSE "count"]
          /\ rmem' = [rmem EXCEPT ![r] = row]
          /\ UNCHANGED <<report, rdep, rphase, verdict, await>>
     ELSE Respond(r)
  /\ UNCHANGED <<dbVars, workerVars, apc, cached, satisfied, reconciled, ran,
                 faults>>

(* handle_release_task_status!; a failure stamps finished_at with the      *)
(* current time, which differs from any time in memory.                    *)
HandleTask(r) ==
  LET new   == TaskReported(rmem[r], report[r].task)
      saved == Save(deployment[rdep[r]], rmem[r], new)
  IN /\ rpc[r] = "task"
     /\ deployment' = [deployment EXCEPT ![rdep[r]] =
          IF report[r].task = "error" THEN [saved EXCEPT !.finished = TRUE]
          ELSE saved]
     /\ IF RefreshNeeded(new)
        THEN /\ rpc'  = [rpc EXCEPT ![r] = IF report[r].task = "settled"
                                          THEN "enqueue" ELSE "count"]
             /\ rmem' = [rmem EXCEPT ![r] = new]
             /\ UNCHANGED <<report, rdep, rphase, verdict, await>>
        ELSE Respond(r)
     /\ UNCHANGED <<statuses, current, queue, nodeSeq, published, workerVars,
                    apc, cached, satisfied, reconciled, ran, faults>>

(* PublishJob.perform_later after a release task that succeeded.           *)
EnqueueRollout(r) ==
  /\ rpc[r] = "enqueue"
  /\ rpc'   = [rpc EXCEPT ![r] = "count"]
  /\ queue' = Enqueue(queue, rdep[r])
  /\ UNCHANGED <<deployment, statuses, current, nodeSeq, published, workerVars,
                 report, rdep, rphase, rmem, verdict, agentVars, faults>>

VerdictsMisnamed(d) ==
  IF \A n \in Nodes : statuses[d][n] = "settled" THEN {"settled"}
  ELSE {"rolling_out"}

(***************************************************************************)
(* refresh_rollout!, the counts: an active release task keeps the rollout  *)
(* open; otherwise it is over when no row is pending or reconciling and    *)
(* either none is in error or the last error is older than                 *)
(* ERROR_GRACE_PERIOD (elapsed; time is abstracted).                       *)
(***************************************************************************)
Verdicts(d) ==
  LET phases == {statuses[d][n] : n \in Nodes} IN
  IF phases \cap {"pending", "reconciling"} # {} THEN {"rolling_out"}
  ELSE IF "error" \in phases THEN {"failed", "rolling_out"}
  ELSE {"published"}

CountStatuses(r) ==
  /\ rpc[r] = "count"
  /\ rpc' = [rpc EXCEPT ![r] = "write"]
  /\ \E v \in IF release_task_active(rmem[r]) THEN {"rolling_out"}
              ELSE Verdicts(rdep[r]) :
       verdict' = [verdict EXCEPT ![r] = v]
  /\ UNCHANGED <<dbVars, workerVars, report, rdep, rphase, rmem, agentVars,
                 faults>>

(* refresh_rollout!, the update! of the deployment.                        *)
WriteRollout(r) ==
  /\ rpc[r] = "write"
  /\ LET new == [rmem[r] EXCEPT !.status = verdict[r],
                                !.finished = verdict[r] \in Terminal]
     IN deployment' = [deployment EXCEPT ![rdep[r]] = Save(@, rmem[r], new)]
  /\ Respond(r)
  /\ UNCHANGED <<statuses, current, queue, nodeSeq, published, workerVars,
                 apc, cached, satisfied, reconciled, ran, faults>>

(* The web process dies in the middle of a request, or the request raises. *)
AbortRequest(r) ==
  /\ rpc[r] # "free" /\ Fault
  /\ Respond(r)
  /\ UNCHANGED <<dbVars, workerVars, apc, cached, satisfied, reconciled, ran>>

-----------------------------------------------------------------------------
(* The node agents (agent.reconcileOnce, reportStatus)                     *)

(* reportStatus: the report reaches a web thread, or does not: it was      *)
(* suppressed as unchanged since the last one delivered, or got lost.      *)
Send(n, rep) ==
  \E r \in Requests :
    /\ rpc[r] = "free"
    /\ rpc'    = [rpc EXCEPT ![r] = "find"]
    /\ report' = [report EXCEPT ![r] = rep]
    /\ await'  = [await EXCEPT ![n] = r]
    /\ UNCHANGED <<rdep, rphase, rmem, verdict>>

Report(n, rep) == Send(n, rep) \/ UNCHANGED <<reqVars, await>>

StatusOf(n, phase, task) ==
  [node |-> n, revision |-> Revision[cached[n].release], phase |-> phase,
   task |-> task]

AgentReady(n, pc) == apc[n] = pc /\ await[n] = NoRequest

(***************************************************************************)
(* remote.Authority.Fetch: a pointer of the sequence already held is not   *)
(* read again; a lower one is refused.  cached[n].seq is the floor.        *)
(***************************************************************************)
AgentFetch(n) ==
  /\ AgentReady(n, "idle")
  /\ published[n].kind # "none" /\ published[n].seq >= cached[n].seq
  /\ LET doc == IF cached[n].kind # "none" /\ published[n].seq = cached[n].seq
                THEN cached[n] ELSE published[n]
     IN /\ cached' = [cached EXCEPT ![n] = doc]
        /\ apc' = [apc EXCEPT ![n] =
             IF doc.kind = "task" /\ satisfied[n] # doc THEN "task"
             ELSE "apply"]
  /\ UNCHANGED <<dbVars, workerVars, reqVars, await, satisfied, reconciled,
                 ran, faults>>

(* Fetch fails: a sequence below the floor, or a source that cannot be     *)
(* read or trusted.  The report carries no revision.                       *)
AgentFetchError(n) ==
  /\ AgentReady(n, "idle")
  /\ published[n].kind # "none"
  /\ Report(n, [NoReport EXCEPT !.node = n, !.phase = "error"])
  /\ UNCHANGED <<dbVars, workerVars, apc, cached, satisfied, reconciled, ran,
                 faults>>

(* ensureTaskSatisfied up to RunTask.                                      *)
AgentStartTask(n) ==
  /\ AgentReady(n, "task")
  /\ apc' = [apc EXCEPT ![n] = "running"]
  /\ Report(n, StatusOf(n, "reconciling", "reconciling"))
  /\ UNCHANGED <<dbVars, workerVars, cached, satisfied, reconciled, ran,
                 faults>>

(* RunTask succeeds; MarkSatisfied, whose failure is only logged; the      *)
(* success is reported only where suppressSuccessReport is off.            *)
AgentFinishTask(n) ==
  /\ AgentReady(n, "running")
  /\ apc' = [apc EXCEPT ![n] = "apply"]
  /\ ran' = [ran EXCEPT ![n] = @ \cup {Revision[cached[n].release]}]
  /\ satisfied' \in {satisfied, [satisfied EXCEPT ![n] = cached[n]]}
  /\ IF TaskSuccessReported THEN Report(n, StatusOf(n, "settled", "settled"))
     ELSE UNCHANGED <<reqVars, await>>
  /\ UNCHANGED <<dbVars, workerVars, cached, reconciled, faults>>

(* HashTask or RunTask fails.                                              *)
AgentFailTask(n) ==
  /\ AgentReady(n, "task") \/ AgentReady(n, "running")
  /\ apc' = [apc EXCEPT ![n] = "idle"]
  /\ Report(n, StatusOf(n, "error", "error"))
  /\ UNCHANGED <<dbVars, workerVars, cached, satisfied, reconciled, ran,
                 faults>>

(* Reconcile succeeds and the settled report goes out, or it fails.        *)
AgentReconcile(n) ==
  /\ AgentReady(n, "apply")
  /\ apc' = [apc EXCEPT ![n] = "idle"]
  /\ reconciled' = [reconciled EXCEPT ![n] = @ \cup {Revision[cached[n].release]}]
  /\ Report(n, StatusOf(n, "settled", "none"))
  /\ UNCHANGED <<dbVars, workerVars, cached, satisfied, ran, faults>>

(* ... also before a task, in the support services it needs.               *)
AgentReconcileError(n) ==
  /\ AgentReady(n, "task") \/ AgentReady(n, "apply")
  /\ apc' = [apc EXCEPT ![n] = "idle"]
  /\ Report(n, StatusOf(n, "error", "none"))
  /\ UNCHANGED <<dbVars, workerVars, cached, satisfied, reconciled, ran,
                 faults>>

(* The agent's HTTP client times out; the request goes on in the server.   *)
AgentTimeout(n) ==
  /\ await[n] # NoRequest /\ Fault
  /\ await' = [await EXCEPT ![n] = NoRequest]
  /\ UNCHANGED <<dbVars, workerVars, reqVars, apc, cached, satisfied,
                 reconciled, ran>>

(* The agent restarts: the sequence floor and the satisfied task are on    *)
(* disk, the document was in memory.                                       *)
AgentRestart(n) ==
  /\ Fault
  /\ apc'    = [apc EXCEPT ![n] = "idle"]
  /\ await'  = [await EXCEPT ![n] = NoRequest]
  /\ cached' = [cached EXCEPT ![n] = [NoDocument EXCEPT !.seq = cached[n].seq]]
  /\ UNCHANGED <<dbVars, workerVars, reqVars, satisfied, reconciled, ran>>

-----------------------------------------------------------------------------
Init ==
  /\ deployment = [d \in Deployments |-> NoRow]
  /\ statuses = [d \in Deployments |-> [n \in Nodes |-> "none"]]
  /\ current = NoRelease
  /\ queue = [d \in Deployments |-> 0]
  /\ nodeSeq = [n \in Nodes |-> 0]
  /\ published = [n \in Nodes |-> NoDocument]
  /\ wpc = [w \in Workers |-> "idle"]
  /\ wdep = [w \in Workers |-> 0]
  /\ wmem = [w \in Workers |-> NoRow]
  /\ wrel = [w \in Workers |-> NoRelease]
  /\ wkind = [w \in Workers |-> "none"]
  /\ wnode = [w \in Workers |-> NoNode]
  /\ wtodo = [w \in Workers |-> {}]
  /\ wseen = [w \in Workers |-> [n \in Nodes |-> 0]]
  /\ wrows = [w \in Workers |-> [n \in Nodes |-> "none"]]
  /\ rpc = [r \in Requests |-> "free"]
  /\ report = [r \in Requests |-> NoReport]
  /\ rdep = [r \in Requests |-> 0]
  /\ rphase = [r \in Requests |-> "none"]
  /\ rmem = [r \in Requests |-> NoRow]
  /\ verdict = [r \in Requests |-> "none"]
  /\ apc = [n \in Nodes |-> "idle"]
  /\ cached = [n \in Nodes |-> NoDocument]
  /\ await = [n \in Nodes |-> NoRequest]
  /\ satisfied = [n \in Nodes |-> NoDocument]
  /\ reconciled = [n \in Nodes |-> {}]
  /\ ran = [n \in Nodes |-> {}]
  /\ faults = 0

SchedulerNext ==
  \/ \E d \in Deployments, rel \in Releases : Schedule(d, rel)
  \/ \E d \in Deployments : Recover(d)

WorkerNext(w) ==
  \/ \E d \in Deployments : JobStart(w, d)
  \/ Prepare(w)
  \/ AnnounceTask(w)
  \/ Promote(w)
  \/ AnnounceRollout(w)
  \/ \E n \in Nodes : WriteDocument(w, n)
  \/ PersistSequence(w)
  \/ IndexStatuses(w)
  \/ \E n \in Nodes : SyncStatus(w, n)

RequestNext(r) ==
  \/ FindStatus(r)
  \/ RecordStatus(r)
  \/ LoadDeployment(r)
  \/ HandleTask(r)
  \/ EnqueueRollout(r)
  \/ CountStatuses(r)
  \/ WriteRollout(r)

AgentNext(n) ==
  \/ AgentFetch(n)
  \/ AgentFetchError(n)
  \/ AgentStartTask(n)
  \/ AgentFinishTask(n)
  \/ AgentFailTask(n)
  \/ AgentReconcile(n)
  \/ AgentReconcileError(n)

Disturbance ==
  \/ \E w \in Workers : PublishFail(w)
  \/ \E w \in Workers : Interrupt(w)
  \/ \E w \in Workers, N \in {Nodes} \cup {{n} : n \in Nodes} : Republish(w, N)
  \/ \E r \in Requests : AbortRequest(r)
  \/ \E n \in Nodes : AgentTimeout(n)
  \/ \E n \in Nodes : AgentRestart(n)

Next ==
  \/ SchedulerNext
  \/ \E w \in Workers : WorkerNext(w)
  \/ \E r \in Requests : RequestNext(r)
  \/ \E n \in Nodes : AgentNext(n)
  \/ Disturbance

Spec == Init /\ [][Next]_vars

(***************************************************************************)
(* Job threads keep working, recovery runs every minute and status         *)
(* requests are served; nothing is assumed of users, agents or faults.     *)
(***************************************************************************)
ServerFairness ==
  /\ \A w \in Workers : WF_vars(WorkerNext(w))
  /\ \A d \in Deployments : WF_vars(Recover(d))
  /\ \A r \in Requests : WF_vars(RequestNext(r))

FairSpec == Spec /\ ServerFairness

(* Agents keep ticking, and of the reports they repeat some get through.   *)
AgentFairness ==
  \A n \in Nodes : /\ WF_vars(AgentNext(n))
                   /\ SF_vars(AgentFinishTask(n))
                   /\ SF_vars(AgentReconcile(n))
                   /\ SF_vars(AgentReconcile(n) /\ rpc' # rpc)

ReportingSpec == FairSpec /\ AgentFairness

-----------------------------------------------------------------------------
DatabaseType ==
  /\ deployment \in [Deployments -> Rows]
  /\ statuses \in [Deployments -> [Nodes -> RowPhases]]
  /\ current \in Releases \cup {NoRelease}
  /\ queue \in [Deployments -> Nat]
  /\ nodeSeq \in [Nodes -> Sequences]
  /\ published \in [Nodes -> Documents]
  /\ faults \in Nat

WorkerType ==
  /\ wpc \in [Workers -> {"idle", "prepare", "task", "promote", "announce",
                          "write", "persist", "index", "sync"}]
  /\ wdep \in [Workers -> {0} \cup Deployments]
  /\ wmem \in [Workers -> Rows]
  /\ wrel \in [Workers -> Releases \cup {NoRelease}]
  /\ wkind \in [Workers -> {"none", "task", "runtime"}]
  /\ wnode \in [Workers -> Nodes \cup {NoNode}]
  /\ wtodo \in [Workers -> SUBSET Nodes]
  /\ wseen \in [Workers -> [Nodes -> Sequences]]
  /\ wrows \in [Workers -> [Nodes -> RowPhases]]

RequestType ==
  /\ rpc \in [Requests -> {"free", "find", "record", "load", "task",
                           "enqueue", "count", "write"}]
  /\ report \in [Requests -> Reports]
  /\ rdep \in [Requests -> {0} \cup Deployments]
  /\ rphase \in [Requests -> RowPhases]
  /\ rmem \in [Requests -> Rows]
  /\ verdict \in [Requests -> {"none", "rolling_out", "published", "failed"}]

AgentType ==
  /\ apc \in [Nodes -> {"idle", "task", "running", "apply"}]
  /\ cached \in [Nodes -> Documents]
  /\ await \in [Nodes -> Requests \cup {NoRequest}]
  /\ satisfied \in [Nodes -> Documents]
  /\ reconciled \in [Nodes -> SUBSET Revisions]
  /\ ran \in [Nodes -> SUBSET Revisions]

(* Every variable holds values of its kind; in particular a status is one  *)
(* of those Deployment and DeploymentNodeStatus validate.                  *)
TypeOK == DatabaseType /\ WorkerType /\ RequestType /\ AgentType

Taskless(d) == deployment[d].release \notin TaskReleases

(***************************************************************************)
(* A deployment without a release task has finished_at set exactly when    *)
(* its status is published or failed, whatever jobs, retries, recovery and *)
(* status requests overlap: nobody's stale copy tears the two columns      *)
(* apart.  (The advisory lock and partial updates are what it rests on.)   *)
(***************************************************************************)
TerminalIffFinished ==
  \A d \in Deployments : Taskless(d) =>
    (deployment[d].finished <=> deployment[d].status \in Terminal)

(***************************************************************************)
(* A deployment without a release task never reopens once finished_at is   *)
(* set: neither a queued duplicate of its job nor a late report of a node  *)
(* takes finished_at back.                                                 *)
(***************************************************************************)
FinishedIsFinal ==
  [][\A d \in Deployments :
       Taskless(d) /\ deployment[d].finished => deployment'[d].finished]_vars

(***************************************************************************)
(* The runtime of a release with a release task is published to a node     *)
(* only after the release task of its revision has succeeded on some node, *)
(* in spite of duplicate jobs, late reports, republishing and restarts.    *)
(***************************************************************************)
TaskBeforeRollout ==
  \A n \in Nodes :
    published[n].kind = "runtime" /\ published[n].release \in TaskReleases
      => \E m \in Nodes : Revision[published[n].release] \in ran[m]

(***************************************************************************)
(* A status row that says settled belongs to a node whose agent did        *)
(* reconcile, or run the task of, that deployment's revision: reports are  *)
(* never credited to a deployment of another revision.                     *)
(***************************************************************************)
SettledWasReconciled ==
  \A d \in Deployments, n \in Nodes :
    statuses[d][n] = "settled" =>
      Revision[deployment[d].release] \in reconciled[n] \cup ran[n]

(***************************************************************************)
(* The object under a node's sequence is immutable: once a document is     *)
(* written for a sequence, no other document takes that sequence.          *)
(***************************************************************************)
ImmutableDocuments ==
  [][\A n \in Nodes :
       published'[n].seq = published[n].seq => published'[n] = published[n]]_vars

(***************************************************************************)
(* No deployment is stuck in scheduling: if its job is lost with the       *)
(* process that enqueued or ran it, StaleSchedulingRecovery brings it back.*)
(***************************************************************************)
SchedulingEnds ==
  \A d \in Deployments :
    deployment[d].status = "scheduling" ~> deployment[d].status # "scheduling"

(***************************************************************************)
(* A release task that succeeded on its executor is recorded: the          *)
(* deployment's release_task_status becomes succeeded, or the deployment   *)
(* has already moved on or failed.                                         *)
(***************************************************************************)
TaskSuccessIsRecorded ==
  \A d \in Deployments, n \in Nodes :
    (deployment[d].taskNode = n /\ Revision[deployment[d].release] \in ran[n])
      ~> (deployment[d].task \in {"succeeded", "nil"} \/ deployment[d].finished)

-----------------------------------------------------------------------------
(***************************************************************************)
(* The inductive invariant.  Open: a deployment that has left scheduling   *)
(* (and never returns to it).  Ran: the release's task has run.            *)
(***************************************************************************)
Open(d) == deployment[d].status \notin {"none", "scheduling"}
Ran(rel) == \E m \in Nodes : Revision[rel] \in ran[m]

(* What a row without release task, in the table or in memory, looks like. *)
Coherent(row) ==
  row.release \notin TaskReleases =>
    row.taskNode = NoNode /\ (row.finished <=> row.status \in Terminal)

RowOK(d) ==
  /\ deployment[d].status = "none" => deployment[d] = NoRow
  /\ deployment[d].status = "scheduling" => ~deployment[d].finished
  /\ deployment[d].status # "none" => deployment[d].release \in Releases
  /\ Coherent(deployment[d])
  /\ deployment[d].task = "succeeded" => Ran(deployment[d].release)

StatusOK(d) ==
  \A n \in Nodes : statuses[d][n] # "none" => Open(d)

(* A job holds the lock of its deployment; what it has in memory is old    *)
(* but says scheduling only if the row still does.                         *)
LockInv ==
  \A v, w \in Workers : wdep[v] # 0 /\ wdep[v] = wdep[w] => v = w

JobOK(w) ==
  /\ wmem[w].release = deployment[wdep[w]].release
  /\ wrel[w] = wmem[w].release /\ wrel[w] \in Releases
  /\ ~wmem[w].finished
  /\ \/ wmem[w].status = "scheduling" /\ deployment[wdep[w]].status = "scheduling"
     \/ wmem[w].status = "rolling_out" /\ Open(wdep[w])
  /\ wpc[w] \in {"write", "persist", "index", "sync"} => wmem[w].status = "rolling_out"
  /\ wmem[w].task = "succeeded" => Ran(wmem[w].release)

WorkerOK(w) ==
  /\ wpc[w] = "idle" => wdep[w] = 0 /\ wkind[w] = "none"
  /\ wpc[w] \in {"prepare", "task", "promote", "announce", "index", "sync"} =>
       wdep[w] # 0
  /\ wpc[w] \in {"write", "persist"} => wkind[w] # "none"
  /\ wpc[w] = "persist" =>
       wnode[w] \in Nodes /\ wseen[w][wnode[w]] < MaxSequence
  /\ wpc[w] = "task" => wmem[w].release \in TaskReleases
  /\ wpc[w] \in {"promote", "announce"} => wkind[w] = "runtime"
  /\ wkind[w] = "task" => wmem[w].taskNode \in Nodes
  /\ wkind[w] # "none" => wrel[w] \in Releases
  /\ wkind[w] = "runtime" /\ wrel[w] \in TaskReleases => Ran(wrel[w])
  /\ wdep[w] # 0 => JobOK(w)

(* A report of success is backed by what its node has done.                *)
ReportOK(r) ==
  /\ report[r].task = "settled" =>
       /\ report[r].revision \in Revisions
       /\ report[r].revision \in ran[report[r].node]
  /\ report[r].phase = "settled" =>
       /\ report[r].revision \in Revisions
       /\ report[r].revision \in
            reconciled[report[r].node] \cup ran[report[r].node]

MemoryOK(r) ==
  /\ rmem[r].release = deployment[rdep[r]].release
  /\ rmem[r].status \notin {"none", "scheduling"}
  /\ Coherent(rmem[r])
  /\ rmem[r].task = "succeeded" => Ran(rmem[r].release)

RequestOK(r) ==
  /\ rpc[r] # "free" =>
       report[r].node \in Nodes /\ report[r].phase \in Phases /\ ReportOK(r)
  /\ rpc[r] \notin {"free", "find"} =>
       /\ rdep[r] # 0 /\ Open(rdep[r])
       /\ report[r].revision \in Revisions =>
            report[r].revision = Revision[deployment[rdep[r]].release]
  /\ rpc[r] \in {"task", "enqueue", "count", "write"} => MemoryOK(r)
  /\ rpc[r] = "task" =>
       rmem[r].taskNode = report[r].node /\ report[r].task # "none"
  /\ rpc[r] \in {"enqueue", "count", "write"} => RefreshNeeded(rmem[r])
  /\ rpc[r] = "write" => verdict[r] # "none"

RowInv     == \A d \in Deployments : RowOK(d)
StatusInv  == \A d \in Deployments : StatusOK(d)
WorkerInv  == \A w \in Workers : WorkerOK(w)
RequestInv == \A r \in Requests : RequestOK(r)

AgentInv ==
  \A n \in Nodes :
    /\ published[n].kind # "none" => published[n].release \in Releases
    /\ cached[n].kind # "none" => cached[n].release \in Releases
    /\ apc[n] # "idle" => cached[n].kind # "none"

CurrentInv == current \in TaskReleases => Ran(current)

IInv == /\ TypeOK /\ RowInv /\ StatusInv /\ LockInv /\ WorkerInv
        /\ RequestInv /\ AgentInv /\ CurrentInv
        /\ TaskBeforeRollout /\ SettledWasReconciled
=============================================================================
