----------------------- MODULE DeploymentRolloutProofs -----------------------
(***************************************************************************)
(* Theorems about DeploymentRollout, for every set of nodes, releases, job *)
(* threads and web threads and every bound.  The inductive invariant IInv  *)
(* is stated in DeploymentRollout; each action has a lemma that it keeps   *)
(* IInv, which treats the conjuncts the action can disturb.                *)
(***************************************************************************)
EXTENDS DeploymentRollout, TLAPS

USE DEF Deployments, Sequences, Statuses, TaskStates, Phases, RowPhases, Terminal

-----------------------------------------------------------------------------
(* Types of the constants and of the helpers.                              *)

LEMMA Empties == NoRow \in Rows /\ NoReport \in Reports /\ NoDocument \in Documents
BY RolloutAssumption DEF NoRow, Rows, NoReport, Reports, NoDocument, Documents

LEMMA SaveType ==
  ASSUME NEW row \in Rows, NEW mem \in Rows, NEW new \in Rows
  PROVE  /\ Save(row, mem, new) \in Rows
         /\ Save(row, mem, new).release = row.release
         /\ Save(row, mem, new).status \in {row.status, new.status}
         /\ Save(row, mem, new).status =
              IF new.status # mem.status THEN new.status ELSE row.status
         /\ Save(row, mem, new).finished =
              IF new.finished # mem.finished THEN new.finished ELSE row.finished
         /\ Save(row, mem, new).task =
              IF new.task # mem.task THEN new.task ELSE row.task
         /\ Save(row, mem, new).taskNode =
              IF new.taskNode # mem.taskNode THEN new.taskNode ELSE row.taskNode
BY DEF Save, Rows

LEMMA EnqueueType ==
  ASSUME NEW q \in [Deployments -> Nat], NEW d \in Deployments
  PROVE  Enqueue(q, d) \in [Deployments -> Nat]
BY RolloutAssumption DEF Enqueue

LEMMA IdleType ==
  ASSUME WorkerType, NEW w \in Workers, Idle(w)
  PROVE  WorkerType'
BY RolloutAssumption, Empties DEF WorkerType, Idle

LEMMA RespondType ==
  ASSUME RequestType, AgentType, NEW r \in Requests, report[r].node \in Nodes,
         Respond(r), UNCHANGED <<apc, cached, satisfied, reconciled, ran>>
  PROVE  RequestType' /\ AgentType'
<1>1. RequestType'
  BY Empties DEF RequestType, Respond
<1>2. AgentType'
  BY DEF AgentType, Respond
<1> QED BY <1>1, <1>2

LEMMA ReportType ==
  ASSUME RequestType, await \in [Nodes -> Requests \cup {NoRequest}],
         NEW n \in Nodes, NEW rep \in Reports, Report(n, rep)
  PROVE  RequestType' /\ await' \in [Nodes -> Requests \cup {NoRequest}]
<1>1. CASE UNCHANGED <<reqVars, await>>
  BY <1>1 DEF RequestType, reqVars
<1>2. CASE Send(n, rep)
  BY <1>2 DEF RequestType, Send
<1> QED BY <1>1, <1>2 DEF Report

LEMMA StatusOfType ==
  ASSUME NEW n \in Nodes, cached[n].release \in Releases,
         NEW phase \in Phases, NEW task \in Phases \cup {"none"}
  PROVE  /\ StatusOf(n, phase, task) \in Reports
         /\ StatusOf(n, phase, task).node = n
         /\ StatusOf(n, phase, task).revision = Revision[cached[n].release]
         /\ StatusOf(n, phase, task).phase = phase
         /\ StatusOf(n, phase, task).task = task
<1>1. Revision[cached[n].release] \in Revisions
  BY RolloutAssumption
<1> QED BY <1>1 DEF StatusOf, Reports

-----------------------------------------------------------------------------
(* What steps of one process leave true of the others.                     *)

(* Rows keep their release and never go back to scheduling; what nodes     *)
(* have done is not undone.                                                *)
Evolves ==
  /\ \A d \in Deployments : Open(d) =>
       Open(d)' /\ deployment'[d].release = deployment[d].release
  /\ \A n \in Nodes : ran[n] \subseteq ran'[n]
                      /\ reconciled[n] \subseteq reconciled'[n]

LEMMA RanGrows ==
  ASSUME Evolves, NEW rel, Ran(rel)
  PROVE  Ran(rel)'
BY DEF Evolves, Ran

LEMMA RequestFrame ==
  ASSUME RequestType, Evolves, NEW r \in Requests, RequestOK(r),
         rpc'[r] = rpc[r], report'[r] = report[r], rdep'[r] = rdep[r],
         rphase'[r] = rphase[r], rmem'[r] = rmem[r], verdict'[r] = verdict[r]
  PROVE  RequestOK(r)'
<1>1. rpc[r] # "free" => ReportOK(r)'
  BY DEF Evolves, RequestOK, ReportOK
<1>2. rdep[r] \in {0} \cup Deployments
  BY DEF RequestType
<1>3. rpc[r] \notin {"free", "find"} =>
        Open(rdep[r])' /\ deployment'[rdep[r]].release = deployment[rdep[r]].release
  BY <1>2 DEF Evolves, RequestOK
<1>4. rpc[r] \in {"task", "enqueue", "count", "write"} => MemoryOK(r)'
  BY <1>3, RanGrows DEF RequestOK, MemoryOK, Coherent
<1> QED BY <1>1, <1>3, <1>4 DEF RequestOK, RefreshNeeded, Open

LEMMA WorkerFrame ==
  ASSUME WorkerType, Evolves, NEW w \in Workers, WorkerOK(w),
         wpc'[w] = wpc[w], wdep'[w] = wdep[w], wmem'[w] = wmem[w],
         wrel'[w] = wrel[w], wkind'[w] = wkind[w], wnode'[w] = wnode[w],
         wseen'[w] = wseen[w],
         wdep[w] # 0 /\ deployment[wdep[w]].status = "scheduling" =>
           deployment'[wdep[w]] = deployment[wdep[w]]
  PROVE  WorkerOK(w)'
<1>1. wdep[w] \in {0} \cup Deployments
  BY DEF WorkerType
<1>2. wdep[w] # 0 => JobOK(w)'
  <2> SUFFICES ASSUME wdep[w] # 0 PROVE JobOK(w)'
    OBVIOUS
  <2>1. JobOK(w) /\ wdep[w] \in Deployments
    BY <1>1 DEF WorkerOK
  <2>2. wmem[w].task = "succeeded" => Ran(wmem[w].release)'
    BY <2>1, RanGrows DEF JobOK
  <2>3. CASE wmem[w].status = "scheduling"
    BY <2>1, <2>2, <2>3 DEF JobOK
  <2>4. CASE wmem[w].status = "rolling_out"
    BY <2>1, <2>2, <2>4 DEF JobOK, Evolves, Open
  <2> QED BY <2>1, <2>3, <2>4 DEF JobOK
<1>3. wkind[w] = "runtime" /\ wrel[w] \in TaskReleases => Ran(wrel[w])'
  BY RanGrows DEF WorkerOK
<1> QED BY <1>2, <1>3 DEF WorkerOK

LEMMA ReportKeeps ==
  ASSUME RequestType, RequestInv, Evolves, NEW n \in Nodes,
         NEW rep \in Reports, rep.node = n, rep.phase \in Phases,
         rep.task = "settled" => rep.revision \in Revisions \cap ran'[n],
         rep.phase = "settled" =>
           rep.revision \in Revisions \cap (reconciled'[n] \cup ran'[n]),
         Report(n, rep)
  PROVE  RequestInv'
<1> SUFFICES ASSUME NEW q \in Requests PROVE RequestOK(q)'
  BY DEF RequestInv
<1>1. RequestOK(q)
  BY DEF RequestInv
<1>2. CASE UNCHANGED <<reqVars, await>>
  BY <1>1, <1>2, RequestFrame DEF reqVars
<1>3. ASSUME NEW r \in Requests,
             rpc[r] = "free", rpc' = [rpc EXCEPT ![r] = "find"],
             report' = [report EXCEPT ![r] = rep],
             UNCHANGED <<rdep, rphase, rmem, verdict>>
      PROVE  RequestOK(q)'
  <2>1. CASE q # r
    BY <1>1, <1>3, <2>1, RequestFrame DEF RequestType
  <2>2. CASE q = r
    <3>1. rpc'[q] = "find" /\ report'[q] = rep
      BY <1>3, <2>2 DEF RequestType
    <3> QED BY <3>1 DEF RequestOK, ReportOK
  <2> QED BY <2>1, <2>2
<1> QED BY <1>2, <1>3 DEF Report, Send

LEMMA RespondKeeps ==
  ASSUME RequestType, RequestInv, Evolves, NEW r \in Requests, Respond(r)
  PROVE  RequestInv'
<1> SUFFICES ASSUME NEW q \in Requests PROVE RequestOK(q)'
  BY DEF RequestInv
<1>1. CASE q # r
  BY <1>1, RequestFrame DEF RequestType, Respond, RequestInv
<1>2. CASE q = r
  BY <1>2 DEF RequestType, Respond, RequestOK
<1> QED BY <1>1, <1>2

LEMMA Stays ==
  ASSUME UNCHANGED <<deployment, ran, reconciled>>
  PROVE  Evolves
BY DEF Evolves, Open

LEMMA RowUpdate ==
  ASSUME DatabaseType, NEW d \in Deployments, NEW new \in Rows,
         deployment' = [deployment EXCEPT ![d] = new],
         Open(d) => /\ new.status \notin {"none", "scheduling"}
                    /\ new.release = deployment[d].release,
         UNCHANGED <<ran, reconciled>>
  PROVE  Evolves
BY DEF Evolves, Open, DatabaseType

(* What a step that leaves a part's own variables alone does to the part.  *)
LEMMA Frames ==
  ASSUME IInv, Evolves
  PROVE  /\ UNCHANGED statuses => StatusInv' /\ SettledWasReconciled'
         /\ UNCHANGED current => CurrentInv'
         /\ UNCHANGED published => TaskBeforeRollout'
         /\ UNCHANGED deployment => RowInv'
         /\ UNCHANGED wdep => LockInv'
         /\ UNCHANGED <<published, cached, apc>> => AgentInv'
         /\ UNCHANGED workerVars /\ UNCHANGED deployment => WorkerInv'
         /\ UNCHANGED reqVars => RequestInv'
<1>1. UNCHANGED statuses => StatusInv' /\ SettledWasReconciled'
  BY DEF IInv, StatusInv, StatusOK, SettledWasReconciled, Evolves
<1>2. UNCHANGED current => CurrentInv'
  BY RanGrows DEF IInv, CurrentInv
<1>3. UNCHANGED published => TaskBeforeRollout'
  BY DEF IInv, TaskBeforeRollout, Evolves
<1>4. UNCHANGED deployment => RowInv'
  <2> SUFFICES ASSUME UNCHANGED deployment, NEW d \in Deployments
               PROVE  RowOK(d)'
    BY DEF RowInv
  <2>1. RowOK(d)
    BY DEF IInv, RowInv
  <2> QED BY <2>1, RanGrows DEF RowOK, Coherent
<1>5. UNCHANGED wdep => LockInv'
  BY DEF IInv, LockInv
<1>6. UNCHANGED <<published, cached, apc>> => AgentInv'
  BY DEF IInv, AgentInv
<1>7. UNCHANGED workerVars /\ UNCHANGED deployment => WorkerInv'
  BY WorkerFrame DEF IInv, TypeOK, WorkerInv, workerVars
<1>8. UNCHANGED reqVars => RequestInv'
  BY RequestFrame DEF IInv, TypeOK, RequestInv, reqVars
<1> QED BY <1>1, <1>2, <1>3, <1>4, <1>5, <1>6, <1>7, <1>8

(* The other jobs, when one job w writes the row of its own deployment.    *)
LEMMA OtherJobs ==
  ASSUME IInv, Evolves, NEW w \in Workers, NEW v \in Workers, v # w,
         \A d \in Deployments : d # wdep[w] => deployment'[d] = deployment[d],
         wpc'[v] = wpc[v], wdep'[v] = wdep[v], wmem'[v] = wmem[v],
         wrel'[v] = wrel[v], wkind'[v] = wkind[v], wnode'[v] = wnode[v],
         wseen'[v] = wseen[v]
  PROVE  WorkerOK(v)'
<1>1. WorkerOK(v) /\ wdep[v] \in {0} \cup Deployments
  BY DEF IInv, TypeOK, WorkerInv, WorkerType
<1>2. wdep[v] # 0 => wdep[v] # wdep[w]
  BY DEF IInv, LockInv
<1> QED BY <1>1, <1>2, WorkerFrame DEF IInv, TypeOK

-----------------------------------------------------------------------------
(* Scheduler, StaleSchedulingRecovery                                      *)

LEMMA ScheduleKeeps ==
  ASSUME IInv, NEW d \in Deployments, NEW rel \in Releases, Schedule(d, rel)
  PROVE  IInv'
<1> DEFINE new == [NoRow EXCEPT !.status = "scheduling", !.release = rel]
<1>1. /\ new \in Rows /\ new.status = "scheduling" /\ new.release = rel
      /\ ~new.finished /\ new.taskNode = NoNode /\ new.task = "nil"
  BY RolloutAssumption DEF NoRow, Rows
<1>2. deployment[d].status = "none" /\ deployment' = [deployment EXCEPT ![d] = new]
  BY DEF Schedule, Existing
<1>3. Evolves
  BY <1>1, <1>2, RowUpdate DEF IInv, TypeOK, Open, Schedule, agentVars
<1>4. DatabaseType'
  <2>1. queue' \in [Deployments -> Nat]
    <3>1. queue \in [Deployments -> Nat] /\ queue' \in {queue, Enqueue(queue, d)}
      BY DEF IInv, TypeOK, DatabaseType, Schedule
    <3> QED BY <3>1, EnqueueType
  <2>2. deployment' \in [Deployments -> Rows]
    BY <1>1, <1>2 DEF IInv, TypeOK, DatabaseType
  <2> QED BY <2>1, <2>2 DEF IInv, TypeOK, DatabaseType, Schedule, Fault
<1>5. WorkerType' /\ RequestType' /\ AgentType'
  BY DEF IInv, TypeOK, WorkerType, RequestType, AgentType, Schedule,
         workerVars, reqVars, agentVars
<1>6. RowInv'
  <2> SUFFICES ASSUME NEW e \in Deployments PROVE RowOK(e)'
    BY DEF RowInv
  <2>1. CASE e = d
    <3>1. deployment'[e] = new
      BY <1>2, <2>1 DEF IInv, TypeOK, DatabaseType
    <3> QED BY <1>1, <3>1 DEF RowOK, Coherent
  <2>2. CASE e # d
    <3>1. RowOK(e) /\ deployment'[e] = deployment[e]
      BY <1>2, <2>2 DEF IInv, TypeOK, DatabaseType, RowInv
    <3> QED BY <1>3, <3>1, RanGrows DEF RowOK, Coherent
  <2> QED BY <2>1, <2>2
<1>7. WorkerInv'
  <2> SUFFICES ASSUME NEW w \in Workers PROVE WorkerOK(w)'
    BY DEF WorkerInv
  <2>1. WorkerOK(w) /\ wdep[w] \in {0} \cup Deployments
    BY DEF IInv, TypeOK, WorkerType, WorkerInv
  <2>2. wdep[w] # 0 => wdep[w] # d
    BY <1>2, <2>1 DEF WorkerOK, JobOK, Open
  <2> QED BY <1>2, <1>3, <2>1, <2>2, WorkerFrame
          DEF IInv, TypeOK, DatabaseType, Schedule, workerVars
<1> QED BY <1>3, <1>4, <1>5, <1>6, <1>7, Frames
        DEF IInv, TypeOK, Schedule, workerVars, reqVars, agentVars

LEMMA RecoverKeeps ==
  ASSUME IInv, NEW d \in Deployments, Recover(d)
  PROVE  IInv'
<1>1. Evolves
  BY Stays DEF Recover, agentVars
<1>2. DatabaseType'
  BY EnqueueType DEF IInv, TypeOK, DatabaseType, Recover
<1>3. WorkerType' /\ RequestType' /\ AgentType'
  BY DEF IInv, TypeOK, WorkerType, RequestType, AgentType, Recover,
         workerVars, reqVars, agentVars
<1> QED BY <1>1, <1>2, <1>3, Frames
        DEF IInv, TypeOK, Recover, workerVars, reqVars, agentVars

-----------------------------------------------------------------------------
(* PublishJob, Publisher, DesiredStatePublisher                            *)

LEMMA JobStartKeeps ==
  ASSUME IInv, NEW w \in Workers, NEW d \in Deployments, JobStart(w, d)
  PROVE  IInv'
<1>1. Evolves
  BY Stays DEF JobStart, agentVars
<1>2. DatabaseType'
  BY DEF IInv, TypeOK, DatabaseType, JobStart
<1>3. RequestType' /\ AgentType'
  BY DEF IInv, TypeOK, RequestType, AgentType, JobStart, reqVars, agentVars
<1>4. CASE UNCHANGED workerVars
  <2>1. WorkerType'
    BY <1>4 DEF IInv, TypeOK, WorkerType, workerVars
  <2> QED BY <1>1, <1>2, <1>3, <1>4, <2>1, Frames
          DEF IInv, TypeOK, JobStart, workerVars, reqVars, agentVars
<1>5. CASE /\ ~deployment[d].finished /\ publishable(deployment[d])
           /\ wpc'  = [wpc EXCEPT ![w] = "prepare"]
           /\ wdep' = [wdep EXCEPT ![w] = d]
           /\ wmem' = [wmem EXCEPT ![w] = deployment[d]]
           /\ wrel' = [wrel EXCEPT ![w] = deployment[d].release]
           /\ UNCHANGED <<wkind, wnode, wtodo, wseen, wrows>>
  <2>1. deployment[d] \in Rows /\ deployment[d].release \in Releases \cup {NoRelease}
    BY DEF IInv, TypeOK, DatabaseType, Rows
  <2>2. WorkerType'
    BY <1>5, <2>1 DEF IInv, TypeOK, WorkerType
  <2>3. wpc[w] = "idle" /\ \A v \in Workers : wdep[v] # d
    BY DEF JobStart, LockFree, IInv, WorkerInv, WorkerOK
  <2>4. LockInv'
    BY <1>5, <2>3 DEF IInv, TypeOK, WorkerType, LockInv
  <2>5. WorkerInv'
    <3> SUFFICES ASSUME NEW v \in Workers PROVE WorkerOK(v)'
      BY DEF WorkerInv
    <3>1. CASE v # w
      BY <1>1, <1>5, <3>1, WorkerFrame
      DEF IInv, TypeOK, WorkerType, WorkerInv, JobStart
    <3>2. CASE v = w
      <4>1. /\ wpc'[v] = "prepare" /\ wdep'[v] = d /\ wmem'[v] = deployment[d]
            /\ wrel'[v] = deployment[d].release /\ wkind'[v] = "none"
            /\ deployment'[d] = deployment[d]
        BY <1>5, <2>3, <3>2
        DEF IInv, TypeOK, WorkerType, WorkerInv, WorkerOK, JobStart
      <4>2. RowOK(d) /\ d # 0
        BY DEF IInv, RowInv
      <4>3. deployment[d].task = "succeeded" => Ran(deployment[d].release)'
        BY <1>1, <4>1, <4>2, RanGrows DEF RowOK
      <4>4. JobOK(v)'
        BY <1>5, <4>1, <4>2, <4>3 DEF JobOK, RowOK, publishable, Open
      <4> QED BY <4>1, <4>2, <4>4 DEF WorkerOK
    <3> QED BY <3>1, <3>2
  <2> QED BY <1>1, <1>2, <1>3, <2>2, <2>4, <2>5, Frames
          DEF IInv, TypeOK, JobStart, reqVars, agentVars
<1> QED BY <1>4, <1>5 DEF JobStart

LEMMA PrepareKeeps ==
  ASSUME IInv, NEW w \in Workers, Prepare(w)
  PROVE  IInv'
<1>1. Evolves
  BY Stays DEF Prepare, dbVars, agentVars
<1>2. DatabaseType' /\ RequestType' /\ AgentType'
  BY DEF IInv, TypeOK, DatabaseType, RequestType, AgentType, Prepare,
         dbVars, reqVars, agentVars
<1>3. WorkerType'
  BY DEF IInv, TypeOK, WorkerType, DatabaseType, Prepare
<1>4. WorkerInv'
  <2> SUFFICES ASSUME NEW v \in Workers PROVE WorkerOK(v)'
    BY DEF WorkerInv
  <2>1. CASE v # w
    BY <1>1, <2>1, WorkerFrame
    DEF IInv, TypeOK, WorkerType, WorkerInv, Prepare, dbVars
  <2>2. CASE v = w
    <3>1. WorkerOK(v) /\ JobOK(v) /\ wpc[v] = "prepare"
      BY <2>2 DEF IInv, WorkerInv, WorkerOK, Prepare
    <3>2. /\ wdep'[v] = wdep[v] /\ wmem'[v] = wmem[v] /\ wrel'[v] = wrel[v]
          /\ deployment' = deployment
      BY DEF Prepare, dbVars
    <3>3. wmem[v].task = "succeeded" => Ran(wmem[v].release)'
      BY <1>1, <3>1, <3>2, RanGrows DEF JobOK
    <3>4. \/ wpc'[v] = "task" /\ wkind'[v] = wkind[v] /\ release_task_stage(wmem[v])
          \/ wpc'[v] = "promote" /\ wkind'[v] = "runtime" /\ ~release_task_stage(wmem[v])
      BY <2>2 DEF IInv, TypeOK, WorkerType, Prepare
    <3>5. JobOK(v)'
      BY <3>1, <3>2, <3>3, <3>4 DEF JobOK, Open
    <3>6. wkind'[v] = "runtime" /\ wrel[v] \in TaskReleases => Ran(wrel[v])'
      <4>1. wrel'[v] = wmem'[v].release /\ wrel[v] = wmem[v].release
        BY <3>1, <3>2 DEF JobOK
      <4>2. CASE wkind[v] = "runtime"
        BY <1>1, <3>1, <3>2, <4>2, RanGrows DEF WorkerOK
      <4>3. CASE wmem[v].task = "succeeded"
        BY <3>3, <4>1, <4>3
      <4> QED BY <3>4, <4>1, <4>2, <4>3 DEF release_task_stage
    <3> QED BY <3>1, <3>2, <3>4, <3>5, <3>6 DEF WorkerOK, JobOK, release_task_stage
  <2> QED BY <2>1, <2>2
<1> QED BY <1>1, <1>2, <1>3, <1>4, Frames
        DEF IInv, TypeOK, Prepare, dbVars, reqVars, agentVars

(* A job writes its deployment's row from memory: nobody else's is torn.   *)
LEMMA AnnounceTaskKeeps ==
  ASSUME IInv, NEW w \in Workers, AnnounceTask(w)
  PROVE  IInv'
<1> DEFINE d == wdep[w]
           mem == wmem[w]
           row == deployment[d]
<1>1. WorkerOK(w) /\ JobOK(w) /\ RowOK(d) /\ d \in Deployments
  BY DEF IInv, TypeOK, WorkerType, WorkerInv, WorkerOK, RowInv, AnnounceTask
<1>2. mem \in Rows /\ row \in Rows
  BY <1>1 DEF IInv, TypeOK, WorkerType, DatabaseType
<1>3. PICK n \in Nodes :
        LET new == [mem EXCEPT !.status = "rolling_out", !.task = "pending",
                               !.taskNode = n, !.finished = FALSE]
        IN /\ deployment' = [deployment EXCEPT ![d] = Save(row, mem, new)]
           /\ wmem'  = [wmem EXCEPT ![w] = new]
           /\ wtodo' = [wtodo EXCEPT ![w] = {n}]
  <2>1. mem.taskNode # NoNode => mem.taskNode \in Nodes
    BY <1>2 DEF Rows
  <2> QED BY <1>1, <2>1 DEF AnnounceTask, IInv, TypeOK, DatabaseType
<1> DEFINE new == [mem EXCEPT !.status = "rolling_out", !.task = "pending",
                              !.taskNode = n, !.finished = FALSE]
           saved == Save(row, mem, new)
<1>4. /\ new \in Rows /\ new.status = "rolling_out" /\ new.task = "pending"
      /\ new.taskNode = n /\ ~new.finished /\ new.release = mem.release
  BY <1>2 DEF Rows
<1>5. saved \in Rows /\ saved.release = row.release
      /\ saved.status \notin {"none", "scheduling"}
      /\ (saved.task = "succeeded" => row.task = "succeeded")
  <2> HIDE DEF new
  <2>1. saved.status = IF new.status # mem.status THEN new.status ELSE row.status
    BY <1>2, <1>4, SaveType
  <2>2. saved.task = IF new.task # mem.task THEN new.task ELSE row.task
    BY <1>2, <1>4, SaveType
  <2>3. saved.status \notin {"none", "scheduling"}
    BY <1>1, <1>4, <2>1 DEF JobOK, Open
  <2> QED BY <1>2, <1>4, <2>2, <2>3, SaveType
<1>6. deployment' = [deployment EXCEPT ![d] = saved] /\ deployment'[d] = saved
  BY <1>1, <1>3 DEF IInv, TypeOK, DatabaseType
<1> HIDE DEF new, saved
<1>7. Evolves
  BY <1>1, <1>5, <1>6, RowUpdate DEF IInv, TypeOK, AnnounceTask, agentVars
<1>8. DatabaseType'
  BY <1>1, <1>5, <1>6 DEF IInv, TypeOK, DatabaseType, AnnounceTask
<1>9. WorkerType'
  BY <1>3, <1>4 DEF new, IInv, TypeOK, WorkerType, AnnounceTask
<1>10. RequestType' /\ AgentType'
  BY DEF IInv, TypeOK, RequestType, AgentType, AnnounceTask, reqVars, agentVars
<1>11. row.release \in TaskReleases
  BY <1>1 DEF AnnounceTask, WorkerOK, JobOK
<1>12. RowInv'
  <2> SUFFICES ASSUME NEW e \in Deployments PROVE RowOK(e)'
    BY DEF RowInv
  <2>1. CASE e = d
    <3>1. saved.task = "succeeded" => Ran(deployment[e].release)'
      BY <1>1, <1>5, <1>6, <1>7, <2>1, RanGrows DEF RowOK
    <3> QED BY <1>1, <1>5, <1>6, <1>11, <2>1, <3>1 DEF RowOK, Coherent, JobOK
  <2>2. CASE e # d
    <3>1. RowOK(e) /\ deployment'[e] = deployment[e]
      BY <1>6, <2>2 DEF IInv, TypeOK, DatabaseType, RowInv
    <3> QED BY <1>7, <3>1, RanGrows DEF RowOK, Coherent
  <2> QED BY <2>1, <2>2
<1>13. WorkerInv'
  <2> SUFFICES ASSUME NEW v \in Workers PROVE WorkerOK(v)'
    BY DEF WorkerInv
  <2>1. CASE v # w
    BY <1>3, <1>6, <1>7, <2>1, OtherJobs
    DEF IInv, TypeOK, WorkerType, DatabaseType, AnnounceTask
  <2>2. CASE v = w
    <3>1. /\ wpc'[v] = "write" /\ wdep'[v] = d /\ wmem'[v] = new
          /\ wkind'[v] = "task" /\ wrel'[v] = wrel[v]
      BY <1>3, <2>2 DEF new, IInv, TypeOK, WorkerType, AnnounceTask
    <3>2. JobOK(v)'
      BY <1>1, <1>4, <1>5, <1>6, <2>2, <3>1 DEF JobOK, Open
    <3> QED BY <1>1, <1>4, <2>2, <3>1, <3>2 DEF WorkerOK, JobOK
  <2> QED BY <2>1, <2>2
<1> QED BY <1>7, <1>8, <1>9, <1>10, <1>12, <1>13, Frames
        DEF IInv, TypeOK, AnnounceTask, reqVars, agentVars

LEMMA PromoteKeeps ==
  ASSUME IInv, NEW w \in Workers, Promote(w)
  PROVE  IInv'
<1>1. Evolves
  BY Stays DEF Promote, agentVars
<1>2. WorkerOK(w) /\ wkind[w] = "runtime"
  BY DEF IInv, WorkerInv, WorkerOK, Promote
<1>3. DatabaseType' /\ WorkerType' /\ RequestType' /\ AgentType'
  BY DEF IInv, TypeOK, DatabaseType, WorkerType, RequestType, AgentType,
         Promote, reqVars, agentVars
<1>4. CurrentInv'
  BY <1>1, <1>2, RanGrows DEF CurrentInv, WorkerOK, Promote
<1>5. WorkerInv'
  <2> SUFFICES ASSUME NEW v \in Workers PROVE WorkerOK(v)'
    BY DEF WorkerInv
  <2>1. CASE v # w
    BY <1>1, <2>1, WorkerFrame
    DEF IInv, TypeOK, WorkerType, WorkerInv, Promote
  <2>2. CASE v = w
    <3>1. JobOK(v) /\ wpc'[v] = "announce"
      BY <1>2, <2>2 DEF WorkerOK, Promote, IInv, TypeOK, WorkerType
    <3>2. /\ wmem[v].task = "succeeded" => Ran(wmem[v].release)'
          /\ wrel[v] \in TaskReleases => Ran(wrel[v])'
      BY <1>1, <1>2, <2>2, <3>1, RanGrows DEF JobOK, WorkerOK, Promote
    <3> QED BY <1>2, <2>2, <3>1, <3>2 DEF WorkerOK, JobOK, Promote, Open
  <2> QED BY <2>1, <2>2
<1> QED BY <1>1, <1>3, <1>4, <1>5, Frames
        DEF IInv, TypeOK, Promote, reqVars, agentVars

LEMMA AnnounceRolloutKeeps ==
  ASSUME IInv, NEW w \in Workers, AnnounceRollout(w)
  PROVE  IInv'
<1> DEFINE d == wdep[w]
           mem == wmem[w]
           row == deployment[d]
           new == [mem EXCEPT !.status = "rolling_out", !.task = "nil",
                              !.finished = FALSE]
           saved == Save(row, mem, new)
<1>1. WorkerOK(w) /\ JobOK(w) /\ RowOK(d) /\ d \in Deployments
  BY DEF IInv, TypeOK, WorkerType, WorkerInv, WorkerOK, RowInv, AnnounceRollout
<1>2. mem \in Rows /\ row \in Rows
  BY <1>1 DEF IInv, TypeOK, WorkerType, DatabaseType
<1>3. /\ new \in Rows /\ new.status = "rolling_out" /\ new.task = "nil"
      /\ new.taskNode = mem.taskNode /\ ~new.finished
      /\ new.release = mem.release
  BY <1>2 DEF Rows
<1>4. /\ saved \in Rows /\ saved.release = row.release
      /\ saved.status = IF mem.status = "rolling_out" THEN row.status ELSE "rolling_out"
      /\ saved.finished = row.finished /\ saved.taskNode = row.taskNode
      /\ saved.task \in {"nil", row.task}
  <2>1. ~mem.finished
    BY <1>1 DEF JobOK
  <2>2. new.finished = mem.finished
    BY <1>2, <1>3, <2>1 DEF Rows
  <2> HIDE DEF new
  <2> QED BY <1>2, <1>3, <2>2, SaveType
<1>5. saved.status \notin {"none", "scheduling"}
  BY <1>1, <1>4 DEF JobOK, Open
<1>6. deployment' = [deployment EXCEPT ![d] = saved] /\ deployment'[d] = saved
  BY <1>1 DEF IInv, TypeOK, DatabaseType, AnnounceRollout
<1>7. /\ wmem' = [wmem EXCEPT ![w] = new] /\ wmem'[w] = new
      /\ wpc' = [wpc EXCEPT ![w] = "write"] /\ wpc'[w] = "write"
  BY DEF AnnounceRollout, IInv, TypeOK, WorkerType
<1> HIDE DEF new, saved
<1>8. Evolves
  BY <1>1, <1>4, <1>5, <1>6, RowUpdate DEF IInv, TypeOK, AnnounceRollout, agentVars
<1>9. DatabaseType'
  BY <1>1, <1>4, <1>6 DEF IInv, TypeOK, DatabaseType, AnnounceRollout
<1>10. WorkerType'
  BY <1>3, <1>7 DEF IInv, TypeOK, WorkerType, AnnounceRollout
<1>11. RequestType' /\ AgentType'
  BY DEF IInv, TypeOK, RequestType, AgentType, AnnounceRollout, reqVars, agentVars
<1>12. RowInv'
  <2> SUFFICES ASSUME NEW e \in Deployments PROVE RowOK(e)'
    BY DEF RowInv
  <2>1. CASE e = d
    <3>1. saved.task = "succeeded" => Ran(deployment[e].release)'
      BY <1>1, <1>4, <1>6, <1>8, <2>1, RanGrows DEF RowOK
    <3>2. Coherent(saved)
      <4>1. CASE mem.status = "rolling_out"
        BY <1>1, <1>4, <4>1 DEF RowOK, Coherent
      <4>2. CASE mem.status = "scheduling"
        BY <1>1, <1>4, <4>2 DEF RowOK, Coherent, JobOK, Open
      <4> QED BY <1>1, <4>1, <4>2 DEF JobOK
    <3> QED BY <1>1, <1>4, <1>5, <1>6, <2>1, <3>1, <3>2
            DEF RowOK, Coherent, JobOK
  <2>2. CASE e # d
    <3>1. RowOK(e) /\ deployment'[e] = deployment[e]
      BY <1>6, <2>2 DEF IInv, TypeOK, DatabaseType, RowInv
    <3> QED BY <1>8, <3>1, RanGrows DEF RowOK, Coherent
  <2> QED BY <2>1, <2>2
<1>13. WorkerInv'
  <2> SUFFICES ASSUME NEW v \in Workers PROVE WorkerOK(v)'
    BY DEF WorkerInv
  <2>1. CASE v # w
    BY <1>6, <1>7, <1>8, <2>1, OtherJobs
    DEF IInv, TypeOK, WorkerType, DatabaseType, AnnounceRollout
  <2>2. CASE v = w
    <3>1. wkind[v] = "runtime" /\ wpc[v] = "announce"
      BY <1>1, <2>2 DEF AnnounceRollout, WorkerOK
    <3>2. wrel[v] \in TaskReleases => Ran(wrel[v])'
      BY <1>1, <1>8, <2>2, <3>1, RanGrows DEF WorkerOK, AnnounceRollout
    <3>3. JobOK(v)'
      BY <1>1, <1>3, <1>4, <1>5, <1>6, <1>7, <2>2 DEF JobOK, Open, AnnounceRollout
    <3> QED BY <1>1, <1>7, <2>2, <3>1, <3>2, <3>3
            DEF WorkerOK, JobOK, AnnounceRollout
  <2> QED BY <2>1, <2>2
<1> QED BY <1>8, <1>9, <1>10, <1>11, <1>12, <1>13, Frames
        DEF IInv, TypeOK, AnnounceRollout, reqVars, agentVars

LEMMA WriteDocumentKeeps ==
  ASSUME IInv, NEW w \in Workers, NEW n \in Nodes, WriteDocument(w, n)
  PROVE  IInv'
<1> DEFINE doc == [seq |-> wseen[w][n] + 1, release |-> wrel[w], kind |-> wkind[w]]
<1>1. Evolves
  BY Stays DEF WriteDocument, agentVars
<1>2. WorkerOK(w) /\ wkind[w] # "none" /\ wrel[w] \in Releases
  BY DEF IInv, WorkerInv, WorkerOK, WriteDocument
<1>3. doc \in Documents /\ doc.release = wrel[w] /\ doc.kind = wkind[w]
  <2>1. wseen[w][n] + 1 \in 0..MaxSequence
    BY RolloutAssumption DEF IInv, TypeOK, WorkerType, WriteDocument
  <2> QED BY <1>2, <2>1 DEF Documents, IInv, TypeOK, WorkerType
<1>4. published' = [published EXCEPT ![n] = doc]
  BY DEF WriteDocument
<1> HIDE DEF doc
<1>5. DatabaseType' /\ RequestType' /\ AgentType'
  BY <1>3, <1>4 DEF IInv, TypeOK, DatabaseType, RequestType, AgentType,
         WriteDocument, reqVars, agentVars
<1>6. WorkerType'
  BY DEF IInv, TypeOK, WorkerType, WriteDocument
<1>7. AgentInv'
  BY <1>2, <1>3, <1>4 DEF IInv, TypeOK, DatabaseType, AgentInv, WriteDocument, agentVars
<1>8. TaskBeforeRollout'
  BY <1>2, <1>3, <1>4
  DEF IInv, TypeOK, DatabaseType, TaskBeforeRollout, WorkerOK, Ran,
      WriteDocument, agentVars
<1>9. WorkerInv'
  <2> SUFFICES ASSUME NEW v \in Workers PROVE WorkerOK(v)'
    BY DEF WorkerInv
  <2>1. CASE v # w
    BY <1>1, <2>1, WorkerFrame
    DEF IInv, TypeOK, WorkerType, WorkerInv, WriteDocument
  <2>2. CASE v = w
    <3>1. wpc[v] = "write" /\ wpc'[v] = "persist" /\ wnode'[v] = n
          /\ wseen[v][n] < MaxSequence
      BY <2>2 DEF IInv, TypeOK, WorkerType, WriteDocument
    <3>2. /\ wmem[v].task = "succeeded" /\ wdep[v] # 0 => Ran(wmem[v].release)'
          /\ wkind[v] = "runtime" /\ wrel[v] \in TaskReleases => Ran(wrel[v])'
      BY <1>1, <1>2, <2>2, RanGrows DEF JobOK, WorkerOK, WriteDocument
    <3> QED BY <1>2, <2>2, <3>1, <3>2 DEF WorkerOK, JobOK, WriteDocument, Open
  <2> QED BY <2>1, <2>2
<1> QED BY <1>1, <1>5, <1>6, <1>7, <1>8, <1>9, Frames
        DEF IInv, TypeOK, WriteDocument, reqVars, agentVars

(* A job that ends leaves the others their locks and their memory.         *)
LEMMA IdleKeeps ==
  ASSUME IInv, Evolves, NEW w \in Workers, Idle(w),
         \A d \in Deployments : d # wdep[w] => deployment'[d] = deployment[d]
  PROVE  WorkerType' /\ LockInv' /\ WorkerInv'
<1>1. WorkerType'
  BY IdleType DEF IInv, TypeOK
<1>2. LockInv'
  BY DEF IInv, TypeOK, WorkerType, LockInv, Idle
<1>3. WorkerInv'
  <2> SUFFICES ASSUME NEW v \in Workers PROVE WorkerOK(v)'
    BY DEF WorkerInv
  <2>1. CASE v # w
    BY <2>1, OtherJobs DEF IInv, TypeOK, WorkerType, Idle
  <2>2. CASE v = w
    <3>1. wpc'[v] = "idle" /\ wdep'[v] = 0 /\ wkind'[v] = "none"
      BY <2>2 DEF IInv, TypeOK, WorkerType, Idle
    <3> QED BY <3>1 DEF WorkerOK
  <2> QED BY <2>1, <2>2
<1> QED BY <1>1, <1>2, <1>3

LEMMA PersistSequenceKeeps ==
  ASSUME IInv, NEW w \in Workers, PersistSequence(w)
  PROVE  IInv'
<1>1. Evolves
  BY Stays DEF PersistSequence, agentVars
<1>2. WorkerOK(w) /\ wnode[w] \in Nodes /\ wpc[w] = "persist"
  BY DEF IInv, WorkerInv, WorkerOK, PersistSequence
<1>3. DatabaseType'
  <2>1. wseen[w][wnode[w]] + 1 \in Sequences
    BY <1>2, RolloutAssumption DEF IInv, TypeOK, WorkerType, WorkerOK
  <2> QED BY <1>2, <2>1 DEF IInv, TypeOK, DatabaseType, PersistSequence
<1>4. RequestType' /\ AgentType'
  BY DEF IInv, TypeOK, RequestType, AgentType, PersistSequence, reqVars, agentVars
<1>5. CASE Idle(w)
  <2>1. WorkerType' /\ LockInv' /\ WorkerInv'
    BY <1>1, <1>5, IdleKeeps DEF PersistSequence
  <2> QED BY <1>1, <1>3, <1>4, <2>1, Frames
          DEF IInv, TypeOK, PersistSequence, reqVars, agentVars
<1>6. ASSUME NEW pc \in {"write", "index"}, NEW todo \in SUBSET Nodes,
             pc = "index" => wdep[w] # 0,
             wpc' = [wpc EXCEPT ![w] = pc], wtodo' = [wtodo EXCEPT ![w] = todo],
             UNCHANGED <<wdep, wmem, wrel, wkind, wnode, wseen, wrows>>
      PROVE  IInv'
  <2>1. WorkerType'
    BY <1>6 DEF IInv, TypeOK, WorkerType
  <2>2. WorkerInv'
    <3> SUFFICES ASSUME NEW v \in Workers PROVE WorkerOK(v)'
      BY DEF WorkerInv
    <3>1. CASE v # w
      BY <1>1, <1>6, <3>1, WorkerFrame
      DEF IInv, TypeOK, WorkerType, WorkerInv, PersistSequence
    <3>2. CASE v = w
      <4>1. wpc'[v] = pc
        BY <1>6, <3>2 DEF IInv, TypeOK, WorkerType
      <4>2. /\ wmem[v].task = "succeeded" /\ wdep[v] # 0 => Ran(wmem[v].release)'
            /\ wkind[v] = "runtime" /\ wrel[v] \in TaskReleases => Ran(wrel[v])'
        BY <1>1, <1>2, <1>6, <3>2, RanGrows DEF JobOK, WorkerOK
      <4> QED BY <1>2, <1>6, <3>2, <4>1, <4>2
              DEF WorkerOK, JobOK, PersistSequence, Open
    <3> QED BY <3>1, <3>2
  <2> QED BY <1>1, <1>3, <1>4, <1>6, <2>1, <2>2, Frames
          DEF IInv, TypeOK, PersistSequence, reqVars, agentVars
<1>7. wtodo[w] \ {wnode[w]} \in SUBSET Nodes /\ SyncTargets(w) \in SUBSET Nodes
  BY <1>2 DEF IInv, TypeOK, WorkerType, SyncTargets, WorkerOK
<1> QED BY <1>5, <1>6, <1>7 DEF PersistSequence

LEMMA IndexStatusesKeeps ==
  ASSUME IInv, NEW w \in Workers, IndexStatuses(w)
  PROVE  IInv'
<1>1. Evolves
  BY Stays DEF IndexStatuses, dbVars, agentVars
<1>2. DatabaseType' /\ RequestType' /\ AgentType'
  BY DEF IInv, TypeOK, DatabaseType, RequestType, AgentType, IndexStatuses,
         dbVars, reqVars, agentVars
<1>3. WorkerOK(w) /\ wdep[w] # 0 /\ wdep[w] \in Deployments /\ wpc[w] = "index"
  BY DEF IInv, TypeOK, WorkerType, WorkerInv, WorkerOK, IndexStatuses
<1>4. WorkerType'
  BY <1>3 DEF IInv, TypeOK, DatabaseType, WorkerType, IndexStatuses
<1>5. WorkerInv'
  <2> SUFFICES ASSUME NEW v \in Workers PROVE WorkerOK(v)'
    BY DEF WorkerInv
  <2>1. CASE v # w
    BY <1>1, <2>1, WorkerFrame
    DEF IInv, TypeOK, WorkerType, WorkerInv, IndexStatuses, dbVars
  <2>2. CASE v = w
    <3>1. wpc'[v] = "sync"
      BY <2>2 DEF IInv, TypeOK, WorkerType, IndexStatuses
    <3>2. /\ wmem[v].task = "succeeded" => Ran(wmem[v].release)'
          /\ wkind[v] = "runtime" /\ wrel[v] \in TaskReleases => Ran(wrel[v])'
      BY <1>1, <1>3, <2>2, RanGrows DEF JobOK, WorkerOK, IndexStatuses
    <3> QED BY <1>3, <2>2, <3>1, <3>2
            DEF WorkerOK, JobOK, IndexStatuses, Open, dbVars
  <2> QED BY <2>1, <2>2
<1> QED BY <1>1, <1>2, <1>4, <1>5, Frames
        DEF IInv, TypeOK, IndexStatuses, dbVars, reqVars, agentVars

LEMMA SyncStatusKeeps ==
  ASSUME IInv, NEW w \in Workers, NEW n \in Nodes, SyncStatus(w, n)
  PROVE  IInv'
<1> DEFINE d == wdep[w]
<1>1. Evolves
  BY Stays DEF SyncStatus, agentVars
<1>2. WorkerOK(w) /\ JobOK(w) /\ Open(d) /\ d \in Deployments
  BY DEF IInv, TypeOK, WorkerType, WorkerInv, WorkerOK, JobOK, SyncStatus
<1>3. /\ \A m \in Nodes : statuses'[d][m] \in {"pending", "none", statuses[d][m]}
      /\ \A e \in Deployments : e # d => statuses'[e] = statuses[e]
      /\ statuses' \in [Deployments -> [Nodes -> RowPhases]]
  BY <1>2 DEF IInv, TypeOK, DatabaseType, SyncStatus
<1>4. DatabaseType' /\ RequestType' /\ AgentType'
  BY <1>3 DEF IInv, TypeOK, DatabaseType, RequestType, AgentType, SyncStatus,
              reqVars, agentVars
<1>5. StatusInv'
  <2> SUFFICES ASSUME NEW e \in Deployments, NEW m \in Nodes,
                      statuses'[e][m] # "none"
               PROVE  Open(e)'
    BY DEF StatusInv, StatusOK
  <2>1. CASE e = d
    BY <1>1, <1>2, <2>1 DEF Evolves
  <2>2. CASE e # d
    BY <1>1, <1>3, <2>2 DEF Evolves, IInv, StatusInv, StatusOK
  <2> QED BY <2>1, <2>2
<1>6. SettledWasReconciled'
  <2> SUFFICES ASSUME NEW e \in Deployments, NEW m \in Nodes,
                      statuses'[e][m] = "settled"
               PROVE  Revision[deployment'[e].release] \in reconciled'[m] \cup ran'[m]
    BY DEF SettledWasReconciled
  <2>1. statuses[e][m] = "settled"
    BY <1>3
  <2> QED BY <2>1 DEF IInv, SettledWasReconciled, SyncStatus, agentVars
<1>7. WorkerType' /\ LockInv' /\ WorkerInv'
  <2>1. CASE Idle(w)
    BY <1>1, <2>1, IdleKeeps DEF SyncStatus
  <2>2. CASE /\ wtodo' = [wtodo EXCEPT ![w] = @ \ {n}]
             /\ UNCHANGED <<wpc, wdep, wmem, wrel, wkind, wnode, wseen, wrows>>
    <3>1. WorkerType'
      BY <2>2 DEF IInv, TypeOK, WorkerType
    <3>2. WorkerInv'
      BY <1>1, <2>2, WorkerFrame DEF IInv, TypeOK, WorkerInv, SyncStatus
    <3> QED BY <1>1, <2>2, <3>1, <3>2, Frames
  <2> QED BY <2>1, <2>2 DEF SyncStatus
<1> QED BY <1>1, <1>4, <1>5, <1>6, <1>7, Frames
        DEF IInv, TypeOK, SyncStatus, reqVars, agentVars

LEMMA PublishFailKeeps ==
  ASSUME IInv, NEW w \in Workers, PublishFail(w)
  PROVE  IInv'
<1> DEFINE d == wdep[w]
           mem == wmem[w]
           row == deployment[d]
           new == Failed(mem)
           saved == Save(row, mem, new)
<1>1. WorkerOK(w) /\ JobOK(w) /\ RowOK(d) /\ d \in Deployments
  BY DEF IInv, TypeOK, WorkerType, WorkerInv, WorkerOK, RowInv, PublishFail
<1>2. mem \in Rows /\ row \in Rows
  BY <1>1 DEF IInv, TypeOK, WorkerType, DatabaseType
<1>3. /\ new \in Rows /\ new.status = "failed" /\ new.finished
      /\ new.task = mem.task /\ new.taskNode = mem.taskNode
  BY <1>2 DEF Rows, Failed
<1>4. /\ saved \in Rows /\ saved.release = row.release
      /\ saved.status = "failed" /\ saved.finished
      /\ saved.task = row.task /\ saved.taskNode = row.taskNode
  <2>1. ~mem.finished /\ mem.status # "failed"
    BY <1>1 DEF JobOK
  <2> HIDE DEF new
  <2> QED BY <1>2, <1>3, <2>1, SaveType
<1>5. deployment' = [deployment EXCEPT ![d] = saved] /\ deployment'[d] = saved
  BY <1>1 DEF IInv, TypeOK, DatabaseType, PublishFail
<1> HIDE DEF new, saved
<1>6. Evolves
  BY <1>1, <1>4, <1>5, RowUpdate DEF IInv, TypeOK, PublishFail, agentVars
<1>7. DatabaseType'
  <2>1. queue' \in [Deployments -> Nat]
    <3>1. queue \in [Deployments -> Nat] /\ queue' \in {queue, Enqueue(queue, d)}
      BY DEF IInv, TypeOK, DatabaseType, PublishFail
    <3> QED BY <1>1, <3>1, EnqueueType
  <2> QED BY <1>1, <1>4, <1>5, <2>1 DEF IInv, TypeOK, DatabaseType, PublishFail
<1>8. RequestType' /\ AgentType'
  BY DEF IInv, TypeOK, RequestType, AgentType, PublishFail, reqVars, agentVars
<1>9. RowInv'
  <2> SUFFICES ASSUME NEW e \in Deployments PROVE RowOK(e)'
    BY DEF RowInv
  <2>1. CASE e = d
    <3>1. saved.task = "succeeded" => Ran(deployment[e].release)'
      BY <1>1, <1>4, <1>5, <1>6, <2>1, RanGrows DEF RowOK
    <3> QED BY <1>1, <1>4, <1>5, <2>1, <3>1 DEF RowOK, Coherent, JobOK
  <2>2. CASE e # d
    <3>1. RowOK(e) /\ deployment'[e] = deployment[e]
      BY <1>5, <2>2 DEF IInv, TypeOK, DatabaseType, RowInv
    <3> QED BY <1>6, <3>1, RanGrows DEF RowOK, Coherent
  <2> QED BY <2>1, <2>2
<1>10. WorkerType' /\ LockInv' /\ WorkerInv'
  BY <1>5, <1>6, IdleKeeps DEF PublishFail, IInv, TypeOK, DatabaseType
<1> QED BY <1>6, <1>7, <1>8, <1>9, <1>10, Frames
        DEF IInv, TypeOK, PublishFail, reqVars, agentVars

LEMMA InterruptKeeps ==
  ASSUME IInv, NEW w \in Workers, Interrupt(w)
  PROVE  IInv'
<1>1. Evolves
  BY Stays DEF Interrupt, agentVars
<1>2. DatabaseType'
  <2>1. queue' \in [Deployments -> Nat]
    <3>1. queue \in [Deployments -> Nat] /\ wdep[w] \in {0} \cup Deployments
      BY DEF IInv, TypeOK, DatabaseType, WorkerType
    <3>2. queue' = queue \/ (wdep[w] # 0 /\ queue' = Enqueue(queue, wdep[w]))
      BY DEF Interrupt
    <3> QED BY <3>1, <3>2, EnqueueType
  <2> QED BY <2>1 DEF IInv, TypeOK, DatabaseType, Interrupt, Fault
<1>3. RequestType' /\ AgentType'
  BY DEF IInv, TypeOK, RequestType, AgentType, Interrupt, reqVars, agentVars
<1>4. WorkerType' /\ LockInv' /\ WorkerInv'
  BY <1>1, IdleKeeps DEF Interrupt
<1> QED BY <1>1, <1>2, <1>3, <1>4, Frames
        DEF IInv, TypeOK, Interrupt, reqVars, agentVars

LEMMA RepublishKeeps ==
  ASSUME IInv, NEW w \in Workers, NEW N \in SUBSET Nodes, Republish(w, N)
  PROVE  IInv'
<1>1. Evolves
  BY Stays DEF Republish, dbVars, agentVars
<1>2. DatabaseType' /\ RequestType' /\ AgentType'
  BY DEF IInv, TypeOK, DatabaseType, RequestType, AgentType, Republish, Fault,
         dbVars, reqVars, agentVars
<1>3. WorkerType'
  BY DEF IInv, TypeOK, DatabaseType, WorkerType, Republish
<1>4. WorkerInv'
  <2> SUFFICES ASSUME NEW v \in Workers PROVE WorkerOK(v)'
    BY DEF WorkerInv
  <2>1. CASE v # w
    BY <1>1, <2>1, WorkerFrame
    DEF IInv, TypeOK, WorkerType, WorkerInv, Republish, dbVars
  <2>2. CASE v = w
    <3>1. /\ wpc'[v] = "write" /\ wkind'[v] = "runtime" /\ wrel'[v] = current
          /\ wdep'[v] = 0 /\ current \in Releases
      BY <2>2 DEF IInv, TypeOK, DatabaseType, WorkerType, WorkerInv, WorkerOK, Republish
    <3>2. CurrentInv /\ current' = current
      BY DEF IInv, Republish, dbVars
    <3>3. wrel'[v] \in TaskReleases => Ran(wrel[v])'
      BY <1>1, <3>1, <3>2, RanGrows DEF CurrentInv
    <3> QED BY <3>1, <3>3 DEF WorkerOK
  <2> QED BY <2>1, <2>2
<1> QED BY <1>1, <1>2, <1>3, <1>4, Frames
        DEF IInv, TypeOK, Republish, dbVars, reqVars, agentVars

-----------------------------------------------------------------------------
(* The node agents                                                         *)

(* A step of an agent: the database and the job threads are untouched.     *)
LEMMA AgentStep ==
  ASSUME IInv, Evolves, UNCHANGED <<dbVars, workerVars>>, faults' \in Nat,
         RequestType', AgentType', RequestInv', AgentInv'
  PROVE  IInv'
<1>1. DatabaseType' /\ WorkerType'
  BY DEF IInv, TypeOK, DatabaseType, WorkerType, dbVars, workerVars
<1> QED BY <1>1, Frames DEF IInv, TypeOK, dbVars, workerVars

LEMMA AgentFetchKeeps ==
  ASSUME IInv, NEW n \in Nodes, AgentFetch(n)
  PROVE  IInv'
<1>1. Evolves
  BY Stays DEF AgentFetch, dbVars
<1>2. RequestType' /\ RequestInv'
  BY <1>1, Frames DEF IInv, TypeOK, RequestType, AgentFetch, reqVars
<1>3. PICK doc \in {cached[n], published[n]} :
        /\ doc.kind # "none"
        /\ cached' = [cached EXCEPT ![n] = doc]
        /\ apc' = [apc EXCEPT ![n] =
             IF doc.kind = "task" /\ satisfied[n] # doc THEN "task" ELSE "apply"]
  BY DEF AgentFetch
<1>4. doc \in Documents
  BY DEF IInv, TypeOK, AgentType, DatabaseType
<1>5. AgentType'
  BY <1>3, <1>4 DEF IInv, TypeOK, AgentType, AgentFetch
<1>6. AgentInv'
  BY <1>3 DEF IInv, TypeOK, AgentType, AgentInv, AgentFetch, dbVars
<1> QED BY <1>1, <1>2, <1>5, <1>6, AgentStep DEF AgentFetch, IInv, TypeOK, DatabaseType

LEMMA AgentFetchErrorKeeps ==
  ASSUME IInv, NEW n \in Nodes, AgentFetchError(n)
  PROVE  IInv'
<1> DEFINE rep == [NoReport EXCEPT !.node = n, !.phase = "error"]
<1>1. Evolves
  BY Stays DEF AgentFetchError, dbVars
<1>2. /\ rep \in Reports /\ rep.node = n /\ rep.phase = "error"
      /\ rep.task = "none" /\ Report(n, rep)
  BY DEF NoReport, Reports, AgentFetchError
<1> HIDE DEF rep
<1>3. RequestType' /\ await' \in [Nodes -> Requests \cup {NoRequest}]
  BY <1>2, ReportType DEF IInv, TypeOK, AgentType
<1>4. AgentType'
  BY <1>3 DEF IInv, TypeOK, AgentType, AgentFetchError
<1>5. RequestInv'
  BY <1>1, <1>2, ReportKeeps DEF IInv, TypeOK
<1>6. AgentInv'
  BY <1>1, Frames DEF AgentFetchError, dbVars
<1> QED BY <1>1, <1>3, <1>4, <1>5, <1>6, AgentStep
        DEF AgentFetchError, IInv, TypeOK, DatabaseType

(* The steps in which an agent moves on and reports its phase.             *)
LEMMA AgentMoves ==
  ASSUME IInv, Evolves, NEW n \in Nodes, NEW pc \in {"idle", "running", "apply"},
         apc[n] # "idle", apc' = [apc EXCEPT ![n] = pc],
         UNCHANGED <<dbVars, workerVars, cached, faults>>,
         satisfied' \in [Nodes -> Documents],
         reconciled' \in [Nodes -> SUBSET Revisions],
         ran' \in [Nodes -> SUBSET Revisions],
         NEW phase \in Phases, NEW task \in Phases \cup {"none"},
         task = "settled" => Revision[cached[n].release] \in ran'[n],
         phase = "settled" => Revision[cached[n].release] \in reconciled'[n] \cup ran'[n],
         Report(n, StatusOf(n, phase, task)) \/ UNCHANGED <<reqVars, await>>
  PROVE  IInv'
<1> DEFINE rep == StatusOf(n, phase, task)
<1>0. cached[n].release \in Releases
  BY DEF IInv, AgentInv
<1>1. /\ rep \in Reports /\ rep.node = n /\ rep.phase = phase
      /\ rep.task = task /\ rep.revision = Revision[cached[n].release]
  BY <1>0, StatusOfType
<1>2. Revision[cached[n].release] \in Revisions
  BY <1>0, RolloutAssumption
<1>3. Report(n, rep)
  BY DEF Report
<1> HIDE DEF rep
<1>4. RequestType' /\ await' \in [Nodes -> Requests \cup {NoRequest}]
  BY <1>1, <1>3, ReportType DEF IInv, TypeOK, AgentType
<1>5. AgentType'
  BY <1>4 DEF IInv, TypeOK, AgentType
<1>6. RequestInv'
  BY <1>1, <1>2, <1>3, ReportKeeps DEF IInv, TypeOK
<1>7. AgentInv'
  BY DEF IInv, TypeOK, AgentType, AgentInv, dbVars
<1> QED BY <1>4, <1>5, <1>6, <1>7, AgentStep DEF IInv, TypeOK, DatabaseType

LEMMA AgentStartTaskKeeps ==
  ASSUME IInv, NEW n \in Nodes, AgentStartTask(n)
  PROVE  IInv'
<1>1. Evolves
  BY Stays DEF AgentStartTask, dbVars
<1> QED BY <1>1, AgentMoves DEF AgentStartTask, AgentReady, IInv, TypeOK, AgentType

LEMMA AgentFailTaskKeeps ==
  ASSUME IInv, NEW n \in Nodes, AgentFailTask(n)
  PROVE  IInv'
<1>1. Evolves
  BY Stays DEF AgentFailTask, dbVars
<1> QED BY <1>1, AgentMoves DEF AgentFailTask, AgentReady, IInv, TypeOK, AgentType

LEMMA AgentReconcileErrorKeeps ==
  ASSUME IInv, NEW n \in Nodes, AgentReconcileError(n)
  PROVE  IInv'
<1>1. Evolves
  BY Stays DEF AgentReconcileError, dbVars
<1> QED BY <1>1, AgentMoves
        DEF AgentReconcileError, AgentReady, IInv, TypeOK, AgentType

LEMMA AgentReconcileKeeps ==
  ASSUME IInv, NEW n \in Nodes, AgentReconcile(n)
  PROVE  IInv'
<1>1. Revision[cached[n].release] \in Revisions
  BY RolloutAssumption DEF IInv, AgentInv, AgentReconcile, AgentReady
<1>2. /\ reconciled' \in [Nodes -> SUBSET Revisions]
      /\ Revision[cached[n].release] \in reconciled'[n]
      /\ \A m \in Nodes : reconciled[m] \subseteq reconciled'[m]
  BY <1>1 DEF AgentReconcile, IInv, TypeOK, AgentType
<1>3. Evolves
  BY <1>2 DEF Evolves, Open, AgentReconcile, dbVars
<1> QED BY <1>2, <1>3, AgentMoves DEF AgentReconcile, AgentReady, IInv, TypeOK, AgentType

LEMMA AgentFinishTaskKeeps ==
  ASSUME IInv, NEW n \in Nodes, AgentFinishTask(n)
  PROVE  IInv'
<1>1. Revision[cached[n].release] \in Revisions /\ cached[n] \in Documents
  BY RolloutAssumption DEF IInv, TypeOK, AgentType, AgentInv, AgentFinishTask, AgentReady
<1>2. /\ ran' \in [Nodes -> SUBSET Revisions]
      /\ satisfied' \in [Nodes -> Documents]
      /\ Revision[cached[n].release] \in ran'[n]
      /\ \A m \in Nodes : ran[m] \subseteq ran'[m]
  BY <1>1 DEF AgentFinishTask, IInv, TypeOK, AgentType
<1>3. Evolves
  BY <1>2 DEF Evolves, Open, AgentFinishTask, dbVars
<1>4. Report(n, StatusOf(n, "settled", "settled")) \/ UNCHANGED <<reqVars, await>>
  BY DEF AgentFinishTask
<1> QED BY <1>2, <1>3, <1>4, AgentMoves
        DEF AgentFinishTask, AgentReady, IInv, TypeOK, AgentType

LEMMA AgentTimeoutKeeps ==
  ASSUME IInv, NEW n \in Nodes, AgentTimeout(n)
  PROVE  IInv'
<1>1. Evolves
  BY Stays DEF AgentTimeout, dbVars
<1>2. RequestType' /\ AgentType' /\ faults' \in Nat
  BY DEF IInv, TypeOK, DatabaseType, RequestType, AgentType, AgentTimeout,
         reqVars, Fault
<1>3. RequestInv' /\ AgentInv'
  BY <1>1, Frames DEF AgentTimeout, dbVars
<1> QED BY <1>1, <1>2, <1>3, AgentStep DEF AgentTimeout

LEMMA AgentRestartKeeps ==
  ASSUME IInv, NEW n \in Nodes, AgentRestart(n)
  PROVE  IInv'
<1> DEFINE doc == [NoDocument EXCEPT !.seq = cached[n].seq]
<1>1. Evolves
  BY Stays DEF AgentRestart, dbVars
<1>2. doc \in Documents /\ doc.kind = "none"
  <2>1. cached[n].seq \in Sequences
    BY DEF IInv, TypeOK, AgentType, Documents
  <2> QED BY <2>1 DEF NoDocument, Documents
<1>3. cached' = [cached EXCEPT ![n] = doc]
  BY DEF AgentRestart
<1> HIDE DEF doc
<1>4. RequestType' /\ AgentType' /\ faults' \in Nat
  <2>1. RequestType' /\ faults' \in Nat
    BY DEF IInv, TypeOK, DatabaseType, RequestType, AgentRestart, reqVars, Fault
  <2>2. cached' \in [Nodes -> Documents]
    BY <1>2, <1>3 DEF IInv, TypeOK, AgentType
  <2> QED BY <2>1, <2>2 DEF IInv, TypeOK, AgentType, AgentRestart
<1>5. RequestInv'
  BY <1>1, Frames DEF AgentRestart
<1>6. AgentInv'
  BY <1>2, <1>3 DEF IInv, TypeOK, AgentType, AgentInv, AgentRestart, dbVars
<1> QED BY <1>1, <1>4, <1>5, <1>6, AgentStep DEF AgentRestart

-----------------------------------------------------------------------------
(* StatusesController, ProgressRecorder                                    *)

(* The jobs, when a request writes the row of the deployment it handles.   *)
LEMMA RequestWrites ==
  ASSUME IInv, Evolves, UNCHANGED workerVars, NEW r \in Requests,
         Open(rdep[r]), NEW new,
         deployment' = [deployment EXCEPT ![rdep[r]] = new]
  PROVE  WorkerType' /\ WorkerInv'
<1>1. WorkerType'
  BY DEF IInv, TypeOK, WorkerType, workerVars
<1>2. ASSUME NEW w \in Workers PROVE WorkerOK(w)'
  <2>1. WorkerOK(w) /\ wdep[w] \in {0} \cup Deployments
    BY DEF IInv, TypeOK, WorkerInv, WorkerType
  <2>2. wdep[w] # 0 /\ deployment[wdep[w]].status = "scheduling" =>
          deployment'[wdep[w]] = deployment[wdep[w]]
    BY <2>1 DEF Open, IInv, TypeOK, DatabaseType
  <2> QED BY <2>1, <2>2, WorkerFrame DEF IInv, TypeOK, workerVars
<1> QED BY <1>1, <1>2 DEF WorkerInv

LEMMA FindStatusKeeps ==
  ASSUME IInv, NEW r \in Requests, FindStatus(r)
  PROVE  IInv'
<1>1. Evolves
  BY Stays DEF FindStatus, dbVars
<1>2. RequestOK(r) /\ report[r].node \in Nodes /\ report[r].phase \in Phases
      /\ ReportOK(r)
  BY DEF IInv, RequestInv, RequestOK, FindStatus
<1>3. DatabaseType' /\ WorkerType'
  BY DEF IInv, TypeOK, DatabaseType, WorkerType, FindStatus, dbVars, workerVars
<1>4. RequestType' /\ AgentType' /\ RequestInv'
  <2>1. CASE Respond(r)
    BY <1>1, <1>2, <2>1, RespondType, RespondKeeps DEF IInv, TypeOK, FindStatus
  <2>2. ASSUME NEW d \in Tracked(report[r]),
               rdep' = [rdep EXCEPT ![r] = d],
               rphase' = [rphase EXCEPT ![r] = statuses[d][report[r].node]],
               rpc' = [rpc EXCEPT ![r] = "record"],
               UNCHANGED <<report, rmem, verdict, await>>
        PROVE  RequestType' /\ AgentType' /\ RequestInv'
    <3>1. /\ d \in Deployments /\ statuses[d][report[r].node] # "none"
          /\ \/ report[r].revision = NoRevision
             \/ report[r].revision = Revision[deployment[d].release]
      BY DEF Tracked
    <3>2. Open(d) /\ d # 0
      BY <1>2, <3>1 DEF IInv, StatusInv, StatusOK
    <3>3. RequestType' /\ AgentType'
      <4>1. statuses[d][report[r].node] \in RowPhases
        BY <1>2, <3>1 DEF IInv, TypeOK, DatabaseType
      <4>2. RequestType'
        BY <2>2, <3>1, <4>1 DEF IInv, TypeOK, RequestType
      <4>3. AgentType'
        BY <2>2 DEF IInv, TypeOK, AgentType, FindStatus
      <4> QED BY <4>2, <4>3
    <3> SUFFICES ASSUME NEW q \in Requests PROVE RequestOK(q)'
      BY <3>3 DEF RequestInv
    <3>4. CASE q # r
      BY <1>1, <2>2, <3>4, RequestFrame DEF IInv, TypeOK, RequestType, RequestInv
    <3>5. CASE q = r
      <4>1. rpc'[q] = "record" /\ rdep'[q] = d
        BY <2>2, <3>5 DEF IInv, TypeOK, RequestType
      <4>2. ReportOK(q)'
        BY <1>2, <2>2, <3>5 DEF ReportOK, FindStatus
      <4> QED BY <1>2, <2>2, <3>1, <3>2, <3>5, <4>1, <4>2, RolloutAssumption
              DEF RequestOK, Open, FindStatus, dbVars
    <3> QED BY <3>4, <3>5
  <2> QED BY <2>1, <2>2 DEF FindStatus, Latest
<1> QED BY <1>1, <1>3, <1>4, Frames DEF IInv, TypeOK, FindStatus, dbVars, workerVars

(* The steps of a request that only move it on: its record, the report and *)
(* the memory stay.                                                        *)
LEMMA RequestMoves ==
  ASSUME IInv, Evolves, NEW r \in Requests,
         NEW pc \in {"load", "count"}, rpc' = [rpc EXCEPT ![r] = pc],
         \/ rpc[r] = "record" /\ pc = "load"
         \/ rpc[r] = "enqueue" /\ pc = "count",
         UNCHANGED <<report, rdep, rphase, rmem, verdict>>
  PROVE  RequestType' /\ RequestInv'
<1>1. RequestType'
  BY DEF IInv, TypeOK, RequestType
<1> SUFFICES ASSUME NEW q \in Requests PROVE RequestOK(q)'
  BY <1>1 DEF RequestInv
<1>2. CASE q # r
  BY <1>2, RequestFrame DEF IInv, TypeOK, RequestType, RequestInv
<1>3. CASE q = r
  <2>1. rpc'[q] = pc /\ RequestOK(q) /\ rdep[q] \in {0} \cup Deployments
    BY <1>3 DEF IInv, TypeOK, RequestType, RequestInv
  <2>2. Open(rdep[q])' /\ deployment'[rdep[q]].release = deployment[rdep[q]].release
    BY <1>3, <2>1 DEF Evolves, RequestOK
  <2>3. ReportOK(q)'
    BY <1>3, <2>1 DEF Evolves, RequestOK, ReportOK
  <2>4. pc = "count" => MemoryOK(q)'
    BY <1>3, <2>1, <2>2, RanGrows DEF RequestOK, MemoryOK, Coherent
  <2> QED BY <1>3, <2>1, <2>2, <2>3, <2>4 DEF RequestOK, RefreshNeeded, Open
<1> QED BY <1>2, <1>3

LEMMA RecordStatusKeeps ==
  ASSUME IInv, NEW r \in Requests, RecordStatus(r)
  PROVE  IInv'
<1> DEFINE d == rdep[r]
           n == report[r].node
<1>1. Evolves
  BY Stays DEF RecordStatus, agentVars
<1>2. /\ n \in Nodes /\ report[r].phase \in Phases /\ ReportOK(r)
      /\ d \in Deployments /\ Open(d)
      /\ report[r].revision \in Revisions =>
           report[r].revision = Revision[deployment[d].release]
  BY DEF IInv, TypeOK, RequestType, RequestInv, RequestOK, RecordStatus
<1>3. /\ statuses'[d][n] \in {statuses[d][n], report[r].phase}
      /\ \A e \in Deployments, m \in Nodes :
           e # d \/ m # n => statuses'[e][m] = statuses[e][m]
      /\ statuses' \in [Deployments -> [Nodes -> RowPhases]]
  <2>1. statuses \in [Deployments -> [Nodes -> RowPhases]]
    BY DEF IInv, TypeOK, DatabaseType
  <2>2. CASE UNCHANGED statuses
    BY <1>2, <2>1, <2>2
  <2>3. CASE statuses' = [statuses EXCEPT ![d][n] = report[r].phase]
    BY <1>2, <2>1, <2>3
  <2> QED BY <2>2, <2>3 DEF RecordStatus
<1>4. DatabaseType' /\ WorkerType' /\ AgentType'
  BY <1>3 DEF IInv, TypeOK, DatabaseType, WorkerType, AgentType, RecordStatus,
              workerVars, agentVars
<1>5. RequestType' /\ RequestInv'
  BY <1>1, RequestMoves DEF RecordStatus
<1>6. StatusInv'
  <2> SUFFICES ASSUME NEW e \in Deployments, NEW m \in Nodes,
                      statuses'[e][m] # "none"
               PROVE  Open(e)'
    BY DEF StatusInv, StatusOK
  <2>1. Open(e)
    BY <1>2, <1>3 DEF IInv, StatusInv, StatusOK
  <2> QED BY <1>1, <2>1 DEF Evolves
<1>7. SettledWasReconciled'
  <2> SUFFICES ASSUME NEW e \in Deployments, NEW m \in Nodes,
                      statuses'[e][m] = "settled"
               PROVE  Revision[deployment'[e].release] \in reconciled'[m] \cup ran'[m]
    BY DEF SettledWasReconciled
  <2>1. CASE statuses[e][m] = "settled"
    BY <2>1 DEF IInv, SettledWasReconciled, RecordStatus, agentVars
  <2>2. CASE e = d /\ m = n /\ report[r].phase = "settled"
    BY <1>2, <2>2 DEF ReportOK, RecordStatus, agentVars
  <2> QED BY <1>3, <2>1, <2>2
<1> QED BY <1>1, <1>4, <1>5, <1>6, <1>7, Frames
        DEF IInv, TypeOK, RecordStatus, workerVars, agentVars

LEMMA EnqueueRolloutKeeps ==
  ASSUME IInv, NEW r \in Requests, EnqueueRollout(r)
  PROVE  IInv'
<1>1. Evolves
  BY Stays DEF EnqueueRollout, agentVars
<1>2. rdep[r] \in Deployments
  BY DEF IInv, TypeOK, RequestType, RequestInv, RequestOK, EnqueueRollout
<1>3. queue' \in [Deployments -> Nat]
  <2>1. queue \in [Deployments -> Nat] /\ queue' = Enqueue(queue, rdep[r])
    BY DEF IInv, TypeOK, DatabaseType, EnqueueRollout
  <2> QED BY <1>2, <2>1, EnqueueType
<1>4. DatabaseType' /\ WorkerType' /\ AgentType'
  BY <1>3 DEF IInv, TypeOK, DatabaseType, WorkerType, AgentType, EnqueueRollout,
              workerVars, agentVars
<1>5. RequestType' /\ RequestInv'
  BY <1>1, RequestMoves DEF EnqueueRollout
<1> QED BY <1>1, <1>4, <1>5, Frames
        DEF IInv, TypeOK, EnqueueRollout, workerVars, agentVars

LEMMA AbortRequestKeeps ==
  ASSUME IInv, NEW r \in Requests, AbortRequest(r)
  PROVE  IInv'
<1>1. Evolves
  BY Stays DEF AbortRequest, dbVars
<1>2. report[r].node \in Nodes
  BY DEF IInv, RequestInv, RequestOK, AbortRequest
<1>3. RequestType' /\ AgentType' /\ RequestInv'
  BY <1>1, <1>2, RespondType, RespondKeeps DEF IInv, TypeOK, AbortRequest
<1>4. DatabaseType' /\ WorkerType'
  BY DEF IInv, TypeOK, DatabaseType, WorkerType, AbortRequest, Fault, dbVars, workerVars
<1> QED BY <1>1, <1>3, <1>4, Frames DEF IInv, TypeOK, AbortRequest, dbVars, workerVars

LEMMA LoadDeploymentKeeps ==
  ASSUME IInv, NEW r \in Requests, LoadDeployment(r)
  PROVE  IInv'
<1> DEFINE row == deployment[rdep[r]]
<1>1. Evolves
  BY Stays DEF LoadDeployment, dbVars
<1>2. RequestOK(r) /\ rdep[r] # 0 /\ Open(rdep[r]) /\ report[r].node \in Nodes
  BY DEF IInv, RequestInv, RequestOK, LoadDeployment
<1>3. rdep[r] \in Deployments /\ row \in Rows
  BY <1>2 DEF IInv, TypeOK, RequestType, DatabaseType
<1>4. DatabaseType' /\ WorkerType'
  BY DEF IInv, TypeOK, DatabaseType, WorkerType, LoadDeployment, dbVars, workerVars
<1>5. RequestType' /\ AgentType' /\ RequestInv'
  <2>1. CASE Respond(r)
    BY <1>1, <1>2, <2>1, RespondType, RespondKeeps DEF IInv, TypeOK, LoadDeployment
  <2>2. CASE /\ TaskApplies(r, row) \/ RefreshNeeded(row)
             /\ rpc'  = [rpc EXCEPT ![r] =
                          IF TaskApplies(r, row) THEN "task" ELSE "count"]
             /\ rmem' = [rmem EXCEPT ![r] = row]
             /\ UNCHANGED <<report, rdep, rphase, verdict, await>>
    <3>1. RequestType' /\ AgentType'
      BY <1>3, <2>2 DEF IInv, TypeOK, RequestType, AgentType, LoadDeployment
    <3> SUFFICES ASSUME NEW q \in Requests PROVE RequestOK(q)'
      BY <3>1 DEF RequestInv
    <3>2. CASE q # r
      BY <1>1, <2>2, <3>2, RequestFrame DEF IInv, TypeOK, RequestType, RequestInv
    <3>3. CASE q = r
      <4>1. /\ rpc'[q] = IF TaskApplies(r, row) THEN "task" ELSE "count"
            /\ rmem'[q] = row /\ rdep'[q] = rdep[r] /\ report'[q] = report[r]
            /\ deployment' = deployment
        BY <2>2, <3>3 DEF IInv, TypeOK, RequestType, LoadDeployment, dbVars
      <4>2. RowOK(rdep[r])
        BY <1>3 DEF IInv, RowInv
      <4>3. row.task = "succeeded" => Ran(rmem[q].release)'
        BY <1>1, <4>1, <4>2, RanGrows DEF RowOK
      <4>4. MemoryOK(q)'
        BY <1>2, <4>1, <4>2, <4>3 DEF RowOK, MemoryOK, Open, Coherent
      <4>5. ReportOK(q)'
        BY <1>2, <3>3, <4>1 DEF RequestOK, ReportOK, LoadDeployment
      <4>6. Open(rdep[q])'
        BY <1>2, <4>1 DEF Open
      <4> QED BY <1>2, <2>2, <3>3, <4>1, <4>4, <4>5, <4>6
              DEF RequestOK, TaskApplies, RefreshNeeded, LoadDeployment, Open
    <3> QED BY <3>2, <3>3
  <2> QED BY <2>1, <2>2 DEF LoadDeployment
<1> QED BY <1>1, <1>4, <1>5, Frames DEF IInv, TypeOK, LoadDeployment, dbVars, workerVars

LEMMA CountStatusesKeeps ==
  ASSUME IInv, NEW r \in Requests, CountStatuses(r)
  PROVE  IInv'
<1>1. Evolves
  BY Stays DEF CountStatuses, dbVars, agentVars
<1>2. PICK v \in {"rolling_out", "published", "failed"} :
        verdict' = [verdict EXCEPT ![r] = v]
  <2>1. Verdicts(rdep[r]) \subseteq {"rolling_out", "published", "failed"}
    BY DEF Verdicts
  <2> QED BY <2>1 DEF CountStatuses
<1>3. DatabaseType' /\ WorkerType' /\ RequestType' /\ AgentType'
  BY <1>2 DEF IInv, TypeOK, DatabaseType, WorkerType, RequestType, AgentType,
              CountStatuses, dbVars, workerVars, agentVars
<1>4. RequestInv'
  <2> SUFFICES ASSUME NEW q \in Requests PROVE RequestOK(q)'
    BY DEF RequestInv
  <2>1. CASE q # r
    BY <1>1, <1>2, <2>1, RequestFrame
    DEF IInv, TypeOK, RequestType, RequestInv, CountStatuses
  <2>2. CASE q = r
    <3>1. rpc[q] = "count" /\ rpc'[q] = "write" /\ verdict'[q] = v /\ RequestOK(q)
      BY <1>2, <2>2 DEF IInv, TypeOK, RequestType, RequestInv, CountStatuses
    <3>2. rmem[q].task = "succeeded" => Ran(rmem[q].release)'
      BY <1>1, <3>1, RanGrows DEF RequestOK, MemoryOK, CountStatuses
    <3>3. MemoryOK(q)'
      BY <2>2, <3>1, <3>2 DEF RequestOK, MemoryOK, Coherent, CountStatuses, dbVars
    <3>4. ReportOK(q)'
      BY <2>2, <3>1 DEF RequestOK, ReportOK, CountStatuses, agentVars
    <3> QED BY <2>2, <3>1, <3>3, <3>4
            DEF RequestOK, RefreshNeeded, Open, CountStatuses, dbVars
  <2> QED BY <2>1, <2>2
<1> QED BY <1>1, <1>3, <1>4, Frames
        DEF IInv, TypeOK, CountStatuses, dbVars, workerVars, agentVars

LEMMA HandleTaskKeeps ==
  ASSUME IInv, NEW r \in Requests, HandleTask(r)
  PROVE  IInv'
<1> DEFINE d == rdep[r]
           mem == rmem[r]
           row == deployment[d]
           new == TaskReported(mem, report[r].task)
           saved == Save(row, mem, new)
           final == IF report[r].task = "error" THEN [saved EXCEPT !.finished = TRUE]
                    ELSE saved
<1>1. /\ RequestOK(r) /\ MemoryOK(r) /\ ReportOK(r) /\ Open(d) /\ d # 0
      /\ report[r].node \in Nodes /\ mem.taskNode = report[r].node
      /\ report[r].task # "none"
  BY DEF IInv, RequestInv, RequestOK, HandleTask
<1>2. /\ d \in Deployments /\ mem \in Rows /\ row \in Rows /\ RowOK(d)
      /\ report[r].task \in Phases
  BY <1>1 DEF IInv, TypeOK, RequestType, DatabaseType, RowInv, Reports
<1>3. mem.release \in TaskReleases /\ row.release = mem.release
  BY <1>1, <1>2, RolloutAssumption DEF MemoryOK, Coherent
<1>4. /\ new \in Rows /\ new.release = mem.release
      /\ new.status \in {"rolling_out", "failed"}
      /\ new.taskNode = mem.taskNode
      /\ new.task \in {"running", "succeeded", "failed"}
      /\ new.task = "succeeded" => report[r].task = "settled"
  <2>1. CASE report[r].task = "reconciling"
    BY <1>2, <2>1 DEF TaskReported, Rows
  <2>2. CASE report[r].task = "settled"
    BY <1>2, <2>2 DEF TaskReported, Rows
  <2>3. CASE report[r].task = "error"
    BY <1>2, <2>3 DEF TaskReported, Rows
  <2> QED BY <1>2, <2>1, <2>2, <2>3
<1> HIDE DEF new
<1>5. /\ saved \in Rows /\ saved.release = row.release
      /\ saved.status \in {row.status, new.status}
      /\ saved.task \in {row.task, new.task}
  BY <1>2, <1>4, SaveType
<1> HIDE DEF saved
<1>6. /\ final \in Rows /\ final.release = row.release
      /\ final.status \in {row.status, new.status}
      /\ final.task \in {row.task, new.task}
  BY <1>5 DEF Rows
<1>7. deployment' = [deployment EXCEPT ![d] = final] /\ deployment'[d] = final
  BY <1>2 DEF IInv, TypeOK, DatabaseType, HandleTask, new, saved
<1> HIDE DEF final
<1>8. final.status \notin {"none", "scheduling"}
  BY <1>1, <1>4, <1>6 DEF Open
<1>9. Evolves
  BY <1>2, <1>6, <1>7, <1>8, RowUpdate DEF IInv, TypeOK, HandleTask
<1>10. report[r].task = "settled" => Ran(row.release)
  BY <1>1, <1>2 DEF ReportOK, RequestOK, Ran, HandleTask
<1>11. DatabaseType'
  BY <1>6, <1>7 DEF IInv, TypeOK, DatabaseType, HandleTask
<1>12. RowInv'
  <2> SUFFICES ASSUME NEW e \in Deployments PROVE RowOK(e)'
    BY DEF RowInv
  <2>1. CASE e = d
    <3>1. final.task = "succeeded" => Ran(deployment[e].release)'
      BY <1>2, <1>4, <1>6, <1>7, <1>9, <1>10, <2>1, RanGrows DEF RowOK
    <3> QED BY <1>1, <1>2, <1>3, <1>6, <1>7, <1>8, <2>1, <3>1
            DEF RowOK, Coherent, Open
  <2>2. CASE e # d
    <3>1. RowOK(e) /\ deployment'[e] = deployment[e]
      BY <1>7, <2>2 DEF IInv, TypeOK, DatabaseType, RowInv
    <3> QED BY <1>9, <3>1, RanGrows DEF RowOK, Coherent
  <2> QED BY <2>1, <2>2
<1>13. WorkerType' /\ WorkerInv'
  BY <1>1, <1>7, <1>9, RequestWrites DEF HandleTask
<1>14. RequestType' /\ AgentType' /\ RequestInv'
  <2>1. CASE Respond(r)
    BY <1>1, <1>9, <2>1, RespondType, RespondKeeps DEF IInv, TypeOK, HandleTask
  <2>2. CASE /\ RefreshNeeded(new)
             /\ rpc'  = [rpc EXCEPT ![r] = IF report[r].task = "settled"
                                           THEN "enqueue" ELSE "count"]
             /\ rmem' = [rmem EXCEPT ![r] = new]
             /\ UNCHANGED <<report, rdep, rphase, verdict, await>>
    <3>1. RequestType' /\ AgentType'
      BY <1>4, <2>2 DEF IInv, TypeOK, RequestType, AgentType, HandleTask
    <3> SUFFICES ASSUME NEW q \in Requests PROVE RequestOK(q)'
      BY <3>1 DEF RequestInv
    <3>2. CASE q # r
      BY <1>9, <2>2, <3>2, RequestFrame DEF IInv, TypeOK, RequestType, RequestInv
    <3>3. CASE q = r
      <4>1. /\ rpc'[q] \in {"enqueue", "count"} /\ rmem'[q] = new
            /\ rdep'[q] = d /\ report'[q] = report[r]
        BY <2>2, <3>3 DEF IInv, TypeOK, RequestType
      <4>2. new.task = "succeeded" => Ran(rmem[q].release)'
        BY <1>3, <1>4, <1>9, <1>10, <4>1, RanGrows
      <4>3. MemoryOK(q)'
        BY <1>3, <1>4, <1>6, <1>7, <4>1, <4>2 DEF MemoryOK, Coherent
      <4>4. ReportOK(q)'
        BY <1>1, <3>3, <4>1 DEF ReportOK, HandleTask
      <4> QED BY <1>1, <1>6, <1>7, <1>8, <2>2, <3>3, <4>1, <4>3, <4>4
              DEF RequestOK, RefreshNeeded, Open, HandleTask
    <3> QED BY <3>2, <3>3
  <2> QED BY <2>1, <2>2 DEF HandleTask, new
<1> QED BY <1>9, <1>11, <1>12, <1>13, <1>14, Frames
        DEF IInv, TypeOK, HandleTask, workerVars

LEMMA WriteRolloutKeeps ==
  ASSUME IInv, NEW r \in Requests, WriteRollout(r)
  PROVE  IInv'
<1> DEFINE d == rdep[r]
           mem == rmem[r]
           row == deployment[d]
           over == verdict[r] \in Terminal
           new == [mem EXCEPT !.status = verdict[r], !.finished = over]
           saved == Save(row, mem, new)
<1>1. /\ RequestOK(r) /\ MemoryOK(r) /\ Open(d) /\ d # 0
      /\ report[r].node \in Nodes /\ RefreshNeeded(mem) /\ verdict[r] # "none"
  BY DEF IInv, RequestInv, RequestOK, WriteRollout
<1>2. /\ d \in Deployments /\ mem \in Rows /\ row \in Rows /\ RowOK(d)
      /\ verdict[r] \in {"rolling_out", "published", "failed"}
  BY <1>1 DEF IInv, TypeOK, RequestType, DatabaseType, RowInv
<1>3. /\ new \in Rows /\ new.status = verdict[r] /\ new.task = mem.task
      /\ new.finished = over /\ new.taskNode = mem.taskNode
  <2>1. over \in BOOLEAN
    OBVIOUS
  <2> HIDE DEF over
  <2> QED BY <1>2, <2>1 DEF Rows
<1>4. deployment' = [deployment EXCEPT ![d] = saved] /\ deployment'[d] = saved
  BY <1>2 DEF IInv, TypeOK, DatabaseType, WriteRollout
<1> HIDE DEF new
<1>5. /\ saved \in Rows /\ saved.release = row.release
      /\ saved.status = IF new.status # mem.status THEN new.status ELSE row.status
      /\ saved.finished = IF new.finished # mem.finished THEN new.finished
                          ELSE row.finished
      /\ saved.task = row.task /\ saved.taskNode = row.taskNode
  BY <1>2, <1>3, SaveType
<1> HIDE DEF saved
<1>6. saved.status \notin {"none", "scheduling"}
  BY <1>1, <1>2, <1>3, <1>5 DEF Open
<1>7. Evolves
  BY <1>2, <1>4, <1>5, <1>6, RowUpdate DEF IInv, TypeOK, WriteRollout
<1>8. Coherent(saved)
  <2> SUFFICES ASSUME row.release \notin TaskReleases
               PROVE  /\ saved.taskNode = NoNode
                      /\ saved.finished <=> saved.status \in Terminal
    BY <1>5 DEF Coherent
  <2>1. mem.status = "rolling_out" /\ ~mem.finished
    BY <1>1, <1>2 DEF MemoryOK, Coherent, RefreshNeeded, Rows
  <2>2. row.taskNode = NoNode /\ (row.finished <=> row.status \in Terminal)
    BY <1>2 DEF RowOK, Coherent
  <2>3. CASE verdict[r] = "rolling_out"
    BY <1>2, <1>3, <1>5, <2>1, <2>2, <2>3 DEF Rows
  <2>4. CASE verdict[r] \in Terminal
    BY <1>2, <1>3, <1>5, <2>1, <2>2, <2>4 DEF Rows
  <2> QED BY <1>2, <2>3, <2>4
<1>9. DatabaseType'
  BY <1>4, <1>5 DEF IInv, TypeOK, DatabaseType, WriteRollout
<1>10. RowInv'
  <2> SUFFICES ASSUME NEW e \in Deployments PROVE RowOK(e)'
    BY DEF RowInv
  <2>1. CASE e = d
    <3>1. saved.task = "succeeded" => Ran(deployment[e].release)'
      BY <1>2, <1>4, <1>5, <1>7, <2>1, RanGrows DEF RowOK
    <3> QED BY <1>1, <1>2, <1>4, <1>5, <1>6, <1>8, <2>1, <3>1
            DEF RowOK, Coherent, Open
  <2>2. CASE e # d
    <3>1. RowOK(e) /\ deployment'[e] = deployment[e]
      BY <1>4, <2>2 DEF IInv, TypeOK, DatabaseType, RowInv
    <3> QED BY <1>7, <3>1, RanGrows DEF RowOK, Coherent
  <2> QED BY <2>1, <2>2
<1>11. WorkerType' /\ WorkerInv'
  BY <1>1, <1>4, <1>7, RequestWrites DEF WriteRollout
<1>12. RequestType' /\ AgentType' /\ RequestInv'
  BY <1>1, <1>7, RespondType, RespondKeeps DEF IInv, TypeOK, WriteRollout
<1> QED BY <1>7, <1>9, <1>10, <1>11, <1>12, Frames
        DEF IInv, TypeOK, WriteRollout, workerVars

-----------------------------------------------------------------------------
(* The invariant.                                                          *)

LEMMA InitEstablishes == Init => IInv
<1> SUFFICES ASSUME Init PROVE IInv
  OBVIOUS
<1>1. TypeOK
  <2>1. DatabaseType
    BY Empties, RolloutAssumption DEF Init, DatabaseType
  <2>2. WorkerType
    BY Empties, RolloutAssumption DEF Init, WorkerType
  <2>3. RequestType
    BY Empties DEF Init, RequestType
  <2>4. AgentType
    BY Empties DEF Init, AgentType
  <2> QED BY <2>1, <2>2, <2>3, <2>4 DEF TypeOK
<1>2. RowInv
  BY DEF Init, RowInv, RowOK, Coherent, NoRow
<1>3. StatusInv /\ SettledWasReconciled
  BY DEF Init, StatusInv, StatusOK, SettledWasReconciled
<1>4. LockInv /\ WorkerInv
  BY DEF Init, LockInv, WorkerInv, WorkerOK
<1>5. RequestInv
  BY DEF Init, RequestInv, RequestOK
<1>6. AgentInv /\ TaskBeforeRollout
  BY DEF Init, AgentInv, TaskBeforeRollout, NoDocument
<1>7. CurrentInv
  BY RolloutAssumption DEF Init, CurrentInv
<1> QED BY <1>1, <1>2, <1>3, <1>4, <1>5, <1>6, <1>7 DEF IInv

LEMMA StutterKeeps == ASSUME IInv, UNCHANGED vars PROVE IInv'
<1>1. UNCHANGED <<dbVars, workerVars, reqVars, agentVars, faults>>
  BY DEF vars
<1>2. Evolves
  BY <1>1, Stays DEF dbVars, agentVars
<1>3. DatabaseType' /\ WorkerType' /\ RequestType' /\ AgentType'
  BY <1>1 DEF IInv, TypeOK, DatabaseType, WorkerType, RequestType, AgentType,
              dbVars, workerVars, reqVars, agentVars
<1> QED BY <1>1, <1>2, <1>3, Frames DEF IInv, TypeOK, dbVars, workerVars, agentVars

LEMMA NextKeeps == ASSUME IInv, Next PROVE IInv'
<1>1. CASE SchedulerNext
  BY <1>1, ScheduleKeeps, RecoverKeeps DEF SchedulerNext
<1>2. ASSUME NEW w \in Workers, WorkerNext(w) PROVE IInv'
  BY <1>2, JobStartKeeps, PrepareKeeps, AnnounceTaskKeeps, PromoteKeeps,
     AnnounceRolloutKeeps, WriteDocumentKeeps, PersistSequenceKeeps,
     IndexStatusesKeeps, SyncStatusKeeps DEF WorkerNext
<1>3. ASSUME NEW r \in Requests, RequestNext(r) PROVE IInv'
  BY <1>3, FindStatusKeeps, RecordStatusKeeps, LoadDeploymentKeeps,
     HandleTaskKeeps, EnqueueRolloutKeeps, CountStatusesKeeps, WriteRolloutKeeps DEF RequestNext
<1>4. ASSUME NEW n \in Nodes, AgentNext(n) PROVE IInv'
  BY <1>4, AgentFetchKeeps, AgentFetchErrorKeeps, AgentStartTaskKeeps,
     AgentFinishTaskKeeps, AgentFailTaskKeeps, AgentReconcileKeeps,
     AgentReconcileErrorKeeps DEF AgentNext
<1>5. CASE Disturbance
  <2>1. ASSUME NEW w \in Workers, PublishFail(w) \/ Interrupt(w) PROVE IInv'
    BY <2>1, PublishFailKeeps, InterruptKeeps
  <2>2. ASSUME NEW w \in Workers, NEW N \in {Nodes} \cup {{n} : n \in Nodes},
               Republish(w, N)
        PROVE  IInv'
    <3>1. N \in SUBSET Nodes
      OBVIOUS
    <3> QED BY <2>2, <3>1, RepublishKeeps
  <2>3. ASSUME NEW n \in Nodes, AgentTimeout(n) \/ AgentRestart(n) PROVE IInv'
    BY <2>3, AgentTimeoutKeeps, AgentRestartKeeps
  <2>4. ASSUME NEW r \in Requests, AbortRequest(r) PROVE IInv'
    BY <2>4, AbortRequestKeeps
  <2> QED BY <1>5, <2>1, <2>2, <2>3, <2>4 DEF Disturbance
<1> QED BY <1>1, <1>2, <1>3, <1>4, <1>5 DEF Next

(* IInv holds in every state the control plane and its agents reach.       *)
THEOREM Invariance == Spec => []IInv
<1>1. Init => IInv
  BY InitEstablishes
<1>2. IInv /\ [Next]_vars => IInv'
  BY NextKeeps, StutterKeeps
<1> QED BY <1>1, <1>2, PTL DEF Spec

(* Rows, memory of jobs and requests, documents and reports keep their     *)
(* types: no status outside those the models validate is ever written.     *)
THEOREM TypeCorrect == Spec => []TypeOK
<1>1. IInv => TypeOK
  BY DEF IInv
<1> QED BY <1>1, Invariance, PTL

(* For a deployment without release task, finished_at and a terminal       *)
(* status go together under every interleaving of jobs, retries, recovery  *)
(* and status requests.                                                    *)
THEOREM TerminalCorrect == Spec => []TerminalIffFinished
<1>1. IInv => TerminalIffFinished
  BY DEF IInv, RowInv, RowOK, Coherent, TerminalIffFinished, Taskless
<1> QED BY <1>1, Invariance, PTL

(* No runtime document of a release with a task is published before the    *)
(* task ran.                                                               *)
THEOREM TaskFirst == Spec => []TaskBeforeRollout
<1>1. IInv => TaskBeforeRollout
  BY DEF IInv
<1> QED BY <1>1, Invariance, PTL

(* A settled status row is backed by the node's own work on that release.  *)
THEOREM SettledCorrect == Spec => []SettledWasReconciled
<1>1. IInv => SettledWasReconciled
  BY DEF IInv
<1> QED BY <1>1, Invariance, PTL

-----------------------------------------------------------------------------
(* FinishedIsFinal                                                         *)

FinishedStays(d) ==
  Taskless(d) /\ deployment[d].finished => deployment'[d].finished

(* A write to one row through Save, by somebody who found it unfinished.   *)
LEMMA SavedFinished ==
  ASSUME DatabaseType, NEW d \in Deployments, NEW mem \in Rows, NEW new \in Rows,
         ~mem.finished,
         deployment' = [deployment EXCEPT ![d] = Save(deployment[d], mem, new)]
  PROVE  \A e \in Deployments : deployment[e].finished => deployment'[e].finished
<1>1. deployment[d] \in Rows /\ deployment'[d] = Save(deployment[d], mem, new)
  BY DEF DatabaseType
<1>2. deployment'[d].finished = IF new.finished # mem.finished
                                THEN new.finished ELSE deployment[d].finished
  BY <1>1, SaveType
<1>3. mem.finished = FALSE /\ new.finished \in BOOLEAN
  BY DEF Rows
<1>4. deployment[d].finished => deployment'[d].finished
  BY <1>2, <1>3
<1> QED BY <1>4 DEF DatabaseType

LEMMA FinishedStep ==
  ASSUME IInv, Next, NEW d \in Deployments
  PROVE  FinishedStays(d)
<1> SUFFICES ASSUME Taskless(d), deployment[d].finished,
                    deployment'[d] # deployment[d]
             PROVE  deployment'[d].finished
  BY DEF FinishedStays
<1>1. ASSUME NEW e \in Deployments, NEW rel \in Releases, Schedule(e, rel)
      PROVE  FALSE
  <2>1. e = d /\ deployment[e].status = "none"
    BY <1>1 DEF Schedule, Existing, IInv, TypeOK, DatabaseType
  <2> QED BY <2>1 DEF IInv, RowInv, RowOK, NoRow
<1>2. ASSUME NEW w \in Workers, AnnounceTask(w) PROVE FALSE
  <2>1. WorkerOK(w) /\ wdep[w] \in {0} \cup Deployments
    BY DEF IInv, TypeOK, WorkerInv, WorkerType
  <2>2. wdep[w] # 0 /\ JobOK(w) /\ wmem[w].release \in TaskReleases
    BY <1>2, <2>1 DEF AnnounceTask, WorkerOK
  <2>3. wdep[w] = d
    BY <1>2 DEF AnnounceTask, IInv, TypeOK, DatabaseType
  <2> QED BY <2>2, <2>3 DEF JobOK, Taskless
<1>3. ASSUME NEW w \in Workers, AnnounceRollout(w) PROVE deployment'[d].finished
  <2> DEFINE new == [wmem[w] EXCEPT !.status = "rolling_out", !.task = "nil",
                                    !.finished = FALSE]
  <2>1. WorkerOK(w) /\ wdep[w] \in {0} \cup Deployments /\ wmem[w] \in Rows
    BY DEF IInv, TypeOK, WorkerInv, WorkerType
  <2>2. wdep[w] \in Deployments /\ ~wmem[w].finished
    BY <1>3, <2>1 DEF AnnounceRollout, WorkerOK, JobOK
  <2>3. new \in Rows
    BY <2>1 DEF Rows
  <2>4. deployment' = [deployment EXCEPT ![wdep[w]] =
                         Save(deployment[wdep[w]], wmem[w], new)]
    BY <1>3 DEF AnnounceRollout
  <2> HIDE DEF new
  <2> QED BY <2>1, <2>2, <2>3, <2>4, SavedFinished DEF IInv, TypeOK
<1>4. ASSUME NEW w \in Workers, PublishFail(w) PROVE deployment'[d].finished
  <2> DEFINE new == Failed(wmem[w])
  <2>1. WorkerOK(w) /\ wdep[w] \in {0} \cup Deployments /\ wmem[w] \in Rows
    BY DEF IInv, TypeOK, WorkerInv, WorkerType
  <2>2. wdep[w] \in Deployments /\ ~wmem[w].finished
    BY <1>4, <2>1 DEF PublishFail, WorkerOK, JobOK
  <2>3. new \in Rows
    BY <2>1 DEF Rows, Failed
  <2>4. deployment' = [deployment EXCEPT ![wdep[w]] =
                         Save(deployment[wdep[w]], wmem[w], new)]
    BY <1>4 DEF PublishFail
  <2> HIDE DEF new
  <2> QED BY <2>1, <2>2, <2>3, <2>4, SavedFinished DEF IInv, TypeOK
<1>5. ASSUME NEW r \in Requests, HandleTask(r) PROVE FALSE
  <2>1. RequestOK(r) /\ MemoryOK(r) /\ rmem[r].taskNode \in Nodes
    BY <1>5 DEF IInv, RequestInv, RequestOK, HandleTask
  <2>2. rdep[r] = d
    BY <1>5 DEF HandleTask, IInv, TypeOK, DatabaseType
  <2> QED BY <2>1, <2>2, RolloutAssumption DEF MemoryOK, Coherent, Taskless
<1>6. ASSUME NEW r \in Requests, WriteRollout(r) PROVE deployment'[d].finished
  <2> DEFINE over == verdict[r] \in Terminal
             new == [rmem[r] EXCEPT !.status = verdict[r], !.finished = over]
  <2>1. MemoryOK(r) /\ RefreshNeeded(rmem[r]) /\ rdep[r] # 0
    BY <1>6 DEF IInv, RequestInv, RequestOK, WriteRollout
  <2>2. rdep[r] \in Deployments /\ rmem[r] \in Rows /\ verdict[r] # "none"
        /\ verdict[r] \in {"none", "rolling_out", "published", "failed"}
    BY <1>6, <2>1 DEF IInv, TypeOK, RequestType, RequestInv, RequestOK, WriteRollout
  <2>3. rdep[r] = d
    BY <1>6 DEF WriteRollout, IInv, TypeOK, DatabaseType
  <2>4. ~rmem[r].finished
    BY <2>1, <2>2, <2>3 DEF MemoryOK, Coherent, RefreshNeeded, Taskless, Rows
  <2>5. new \in Rows
    <3>1. over \in BOOLEAN
      OBVIOUS
    <3> HIDE DEF over
    <3> QED BY <2>2, <3>1 DEF Rows
  <2>6. deployment' = [deployment EXCEPT ![rdep[r]] =
                         Save(deployment[rdep[r]], rmem[r], new)]
    BY <1>6 DEF WriteRollout
  <2> HIDE DEF new
  <2> QED BY <2>2, <2>4, <2>5, <2>6, SavedFinished DEF IInv, TypeOK
<1>7. CASE SchedulerNext
  BY <1>1, <1>7 DEF SchedulerNext, Recover
<1>8. ASSUME NEW w \in Workers, WorkerNext(w) PROVE deployment'[d].finished
  BY <1>2, <1>3, <1>8 DEF WorkerNext, JobStart, Prepare, Promote, WriteDocument,
     PersistSequence, IndexStatuses, SyncStatus, dbVars
<1>9. ASSUME NEW r \in Requests, RequestNext(r) PROVE deployment'[d].finished
  BY <1>5, <1>6, <1>9 DEF RequestNext, FindStatus, RecordStatus,
     LoadDeployment, EnqueueRollout, CountStatuses, dbVars
<1>10. ASSUME NEW n \in Nodes, AgentNext(n) PROVE FALSE
  BY <1>10 DEF AgentNext, AgentFetch, AgentFetchError, AgentStartTask,
     AgentFinishTask, AgentFailTask, AgentReconcile, AgentReconcileError, dbVars
<1>11. CASE Disturbance
  BY <1>4, <1>11 DEF Disturbance, Interrupt, Republish, AbortRequest,
     AgentTimeout, AgentRestart, dbVars
<1> QED BY <1>7, <1>8, <1>9, <1>10, <1>11 DEF Next

(* A deployment without release task never loses its finished_at, whatever *)
(* queued duplicates of its job and late reports arrive.                   *)
THEOREM FinalCorrect == Spec => FinishedIsFinal
<1> DEFINE Step == \A d \in Deployments :
       Taskless(d) /\ deployment[d].finished => deployment'[d].finished
<1>1. IInv /\ [Next]_vars => [Step]_vars
  BY FinishedStep DEF FinishedStays
<1>2. FinishedIsFinal <=> [][Step]_vars
  BY DEF FinishedIsFinal
<1> HIDE DEF Step
<1>3. Spec => []IInv
  BY Invariance
<1> QED BY <1>1, <1>2, <1>3, PTL DEF Spec
=============================================================================
