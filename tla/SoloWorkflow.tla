---------------------------- MODULE SoloWorkflow ----------------------------
(***************************************************************************)
(* Solo mode: the commands of the CLI (cli/internal/workflow/solo.go) on   *)
(* the state file they share (cli/internal/solo/state.go), the documents   *)
(* they compose and write over SSH into the override file of every node,   *)
(* the agents that load these files and answer in their status files, and  *)
(* the images, which the CLI sends and the agent's disk care removes.      *)
(*                                                                         *)
(* A command is one process.  Most take the lock of the state file for     *)
(* their whole run; status, ingress set and the agent commands do not.     *)
(* Any process can die between two steps.  A document stands for its       *)
(* revision, the digest of its content: equal documents, equal revisions.  *)
(*                                                                         *)
(* An environment is one workspace with one environment in it, of services *)
(* of the kinds Services that share one secret, with an ingress to web.    *)
(***************************************************************************)
EXTENDS DiskCare, Naturals, Sequences, FiniteSets, FiniteSetsExt, Functions

CONSTANTS
  NodeCount,       \* the nodes are numbered in the order of their names
  Envs,            \* environments
  Clis,            \* processes running a command
  Commits,         \* short SHAs of the commits that are deployed
  Services,        \* kinds of the services in devopsellence.yml
  TaskKind,        \* kind of the release task's service, or NoTask
  InitialNodes,    \* nodes registered, with their agents, from the start
  InitialAttached, \* the nodes each environment starts attached to
  Commands,        \* the commands of this instance
  Timeouts,        \* whether a rollout may reach its deadline
  None, NoCli, NoEnv, NoJob, NoTask,
  MaxCommands,     \* bound: commands started
  MaxReleases,     \* bound: releases
  MaxFaults        \* bound: failing calls, crashes, unhealthy releases

Nodes  == 1..NodeCount
Kinds  == {"web", "worker"}
Default == {"web"}          \* config.DefaultNodeLabels

ASSUME NodesAssumption == /\ NodeCount \in Nat /\ InitialNodes \subseteq Nodes
                          /\ InitialAttached \in [Envs -> SUBSET InitialNodes]
ASSUME KindAssumption == Services \subseteq Kinds /\ TaskKind \in Kinds \cup {NoTask}
ASSUME NameAssumption == /\ NoCli \notin Clis /\ NoEnv \notin Envs
                         /\ None \notin Commits /\ NoTask \notin Kinds
ASSUME SoloBoundAssumption == /\ MaxCommands \in Nat /\ MaxReleases \in Nat
                              /\ MaxFaults \in Nat /\ Timeouts \in BOOLEAN

VARIABLES
  file,      \* the state file
  cfg,       \* devopsellence.yml of each environment
  lock,      \* the process that holds the lock of the state file
  pc, job,   \* where each process is, and the variables of its command
  host,      \* what is on each node: the agent, its files, its memory
  servers,   \* nodes for which the provider runs a server
  behind,    \* history: nodes a command has not, or not yet, brought to file
  faults, commands

cliVars == <<lock, pc, job>>
vars    == <<file, cfg, cliVars, host, servers, behind, faults, commands>>

-----------------------------------------------------------------------------
(* A machine without an agent or any file of one.                          *)
Bare == [agent |-> FALSE, override |-> None, loaded |-> None, tasks |-> {},
         last |-> None, status |-> None, images |-> {},
         store |-> [e \in Envs |-> << >>]]

(* The install script starts a new process, without the memory of the old  *)
(* one; the uninstall script keeps the workloads and the files or not, and *)
(* the images always.                                                      *)
Installed(h)         == [h EXCEPT !.agent = TRUE, !.last = None]
Uninstalled(h, keep) == IF keep THEN [h EXCEPT !.agent = FALSE]
                        ELSE [Bare EXCEPT !.images = h.images]

(* docker save at the CLI, docker load on the node.                        *)
Transferred(h, c) == [h EXCEPT !.images = @ \cup {c}]

(* The agent's binary replaces the override file by one that is valid.     *)
SetOverride(h, d) == [h EXCEPT !.override = d]

(* The state file.                                                         *)
Releases(st, e)  == {i \in 1..Len(st.releases) : st.releases[i].env = e}
Deployed(st, e)  == {i \in 1..Len(st.deployments) : st.deployments[i].env = e}
Running(st, e)   == {i \in Deployed(st, e) : st.deployments[i].status = "running"}
Current(st, e)   == st.releases[st.current[e]]
HasRelease(st, e) == st.current[e] # 0
AttachedTo(st, n) == {e \in Envs : n \in st.attached[e]}

(* normalizeState, of every Read and Write, refuses a current release or a *)
(* deployment of a release that is not there or of another environment,    *)
(* and a deployment with no sequence or of an unknown kind or status.      *)
CurrentReadable(st) ==
  \A e \in Envs : HasRelease(st, e) => st.current[e] \in Releases(st, e)

DeploymentsReadable(st) ==
  \A i \in 1..Len(st.deployments) :
    LET d == st.deployments[i]
    IN /\ d.rel \in Releases(st, d.env) /\ d.seq > 0
       /\ d.kind \in {"deploy", "rollback"}
       /\ d.status \in {"running", "settled", "failed"}

(* The whole file is replaced at once.  What is refused is not written;    *)
(* FileReadable shows that no command gets there.                          *)
Write(st) == file' = st

(* The deployment of S that sorts last.                                    *)
Latest(st, S) ==
  CHOOSE i \in S : \A j \in S \ {i} :
    \/ st.deployments[i].seq > st.deployments[j].seq
    \/ st.deployments[i].seq = st.deployments[j].seq /\ i > j

(* Nodes and attachments.                                                  *)
NormalLabels(labels) == IF labels = {} THEN Default ELSE labels

SetNode(st, n, hosted) ==
  [st EXCEPT !.nodes = @ \cup {n}, !.labels[n] = Default,
             !.hosted = IF hosted THEN @ \cup {n} ELSE @]
RemoveNode(st, n) ==
  [st EXCEPT !.nodes = @ \ {n}, !.hosted = @ \ {n}, !.labels[n] = Default]

WithNode(st, e, n)    == [st EXCEPT !.attached[e] = @ \cup {n}]
WithoutNode(st, e, n) == [st EXCEPT !.attached[e] = @ \ {n}]

(* The secret of an environment: 0 for none, or the version of its value.  *)
WithSecret(st, e, version) == [st EXCEPT !.secrets[e] = version]

(* Variant: only the deployments that are running are counted.             *)
NextSequenceOfRunning(st, e) == 1 + Cardinality(Running(st, e))

(* Variant: the first deployment of an environment is numbered 0.          *)
NextSequenceFromZero(st, e) ==
  IF Deployed(st, e) = {} THEN 0
  ELSE 1 + Max({st.deployments[i].seq : i \in Deployed(st, e)})

NextSequence(st, e) ==
  1 + Max({0} \cup {st.deployments[i].seq : i \in Deployed(st, e)})

(* What of devopsellence.yml a release keeps; the secret's value is left   *)
(* out of it again.                                                        *)
Snapshot(e, c) == [env |-> e, rev |-> c, ref |-> cfg[e].ref, tls |-> cfg[e].tls]

NewRelease(snap, S) ==
  [env |-> snap.env, rev |-> snap.rev, ref |-> snap.ref, tls |-> snap.tls, targets |-> S]

(* Any release can be rolled back to: the one before the current one, or   *)
(* one that is named by its id or revision.                                *)
Selectable(st, e) == IF HasRelease(st, e) THEN Releases(st, e) ELSE {}

SaveRelease(st, r) ==
  [st EXCEPT !.releases = Append(@, r), !.current[r.env] = Len(st.releases) + 1]

StartDeployment(st, e, r, kind, targets) ==
  [st EXCEPT !.deployments = Append(@,
     [env |-> e, rel |-> r, kind |-> kind, targets |-> targets,
      seq |-> NextSequence(st, e), status |-> "running", pub |-> None])]

(* Variant: a rollback that settles leaves the current release as it was.  *)
EndDeploymentKeepsCurrent(st, i, status, pub) ==
  [st EXCEPT !.deployments[i].status = status, !.deployments[i].pub = pub]

(* Saved again when it ends, with the revisions written; a rollback that   *)
(* settles saves its release as the current one.                           *)
EndDeployment(st, i, status, pub) ==
  LET d == st.deployments[i]
      s == [st EXCEPT !.deployments[i].status = status, !.deployments[i].pub = pub]
  IN IF d.kind = "rollback" /\ status = "settled"
     THEN [s EXCEPT !.current[d.env] = d.rel] ELSE s

-----------------------------------------------------------------------------
(* The document of a node.                                                 *)
Released(st, n) == {e \in AttachedTo(st, n) : HasRelease(st, e)}

Runs(st, n, kind) == kind \in st.labels[n]

(* Every service and the release task have a node that can run them.       *)
ValidSchedule(st, S) ==
  \A kind \in Services \cup ({TaskKind} \ {NoTask}) : \E n \in S : Runs(st, n, kind)

(* The secret that devopsellence.yml refers to is there.                   *)
ResolvesSecrets(st, e) == cfg[e].ref => st.secrets[e] > 0

TaskNodes(st, S) == {n \in S : Runs(st, n, TaskKind)}

(* The stored snapshot gets its secret's value back.                       *)
Hydrates(st, e) == Current(st, e).ref <=> st.secrets[e] > 0

(* Only a co-hosted snapshot gets the TLS mode of devopsellence.yml now.   *)
TlsMode(st, n, e) ==
  IF Cardinality(Released(st, n)) > 1 THEN cfg[e].tls ELSE Current(st, e).tls

IngressTls(st, n) ==
  IF Runs(st, n, "web") THEN {TlsMode(st, n, e) : e \in Released(st, n)} ELSE {}

Plannable(st, S) ==
  \A n \in S :
    /\ \A e \in Released(st, n) :
         /\ Hydrates(st, e)
         /\ TaskKind = NoTask \/ TaskNodes(st, st.attached[e]) # {}
    /\ Cardinality(IngressTls(st, n)) <= 1

Peers(st, n) == (UNION {st.attached[e] : e \in Released(st, n)}) \ {n}

Environment(st, n, e) ==
  [rev      |-> Current(st, e).rev,
   services |-> Services \cap st.labels[n],
   task     |-> /\ TaskKind # NoTask /\ Runs(st, n, TaskKind)
                /\ n = Min(TaskNodes(st, st.attached[e])),
   secret   |-> IF Current(st, e).ref THEN st.secrets[e] ELSE 0]

Document(st, n) ==
  [envs  |-> [e \in Released(st, n) |-> Environment(st, n, e)],
   peers |-> [m \in Peers(st, n) |-> st.labels[m]],
   tls   |-> IngressTls(st, n)]

Plan(st, S) == [n \in S |-> Document(st, n)]

(* The releases of a document that run something on its node.              *)
ReleasesOf(d) ==
  IF d = None THEN << >>
  ELSE [e \in {f \in DOMAIN d.envs : d.envs[f].services # {} \/ d.envs[f].task}
          |-> d.envs[e].rev]

Images(d) == Range(ReleasesOf(d))

-----------------------------------------------------------------------------
(* Processes.                                                              *)
Begin(p, op) == /\ op \in Commands /\ pc[p] = "idle"
                /\ commands < MaxCommands /\ commands' = commands + 1

Job(op, e, n) ==
  [op |-> op, env |-> e, node |-> n, st |-> file, next |-> file, cfg |-> None,
   plan |-> << >>, todo |-> {}, bad |-> {}, gone |-> {}, sweep |-> {},
   clean |-> TRUE, rel |-> 0, dep |-> 0, checked |-> {}, install |-> FALSE,
   hosted |-> FALSE, sent |-> {}, since |-> {}]

Go(p, at, j) == pc' = [pc EXCEPT ![p] = at] /\ job' = [job EXCEPT ![p] = j]

(* WithLock: the command runs while it holds the lock.                     *)
Hold(p, at, j) == lock = NoCli /\ lock' = p /\ Go(p, at, j)
AtOnce         == lock = NoCli /\ UNCHANGED cliVars

Return(p) == /\ pc' = [pc EXCEPT ![p] = "idle"]
             /\ job' = [job EXCEPT ![p] = NoJob]
             /\ lock' = IF lock = p THEN NoCli ELSE lock

Fault == faults < MaxFaults /\ faults' = faults + 1

Planned(j, st, S) ==
  [j EXCEPT !.plan = Plan(st, S), !.todo = S, !.bad = {}, !.gone = {}, !.sent = {}]

(* The process dies; its lock goes with it.                                *)
Crash(p) ==
  /\ pc[p] # "idle" /\ Fault /\ Return(p)
  /\ UNCHANGED <<file, cfg, host, servers, behind, commands>>

-----------------------------------------------------------------------------
(* The stores a node may come to have before it loads another document.    *)
Upcoming(h) ==
  LET seen == Upsert(h.store, ReleasesOf(h.loaded))
  IN {seen, Upsert(h.store, ReleasesOf(h.override)), Upsert(seen, ReleasesOf(h.override))}

(* No cleanup to come may remove image c: it is within the window, or the  *)
(* node has no record of it.                                               *)
Safe(h, c) ==
  \A store \in Upcoming(h) :
    \/ \E e \in Envs : c \in Newest(store[e])
    \/ \A e \in Envs : c \notin Range(store[e])

(* Publishing: one goroutine per node.  First, each image of the document  *)
(* is found on the node, or sent there; sent notes which were safe then.   *)
SendImage(p, n, c) ==
  /\ pc[p] = "publish" /\ n \in job[p].todo
  /\ c \in Images(job[p].plan[n]) /\ \A s \in job[p].sent : <<s[1], s[2]>> # <<n, c>>
  /\ host' = [host EXCEPT ![n] = Transferred(@, c)]
  /\ job' = [job EXCEPT ![p].sent = @ \cup {<<n, c, Safe(host[n], c)>>}]
  /\ UNCHANGED <<file, cfg, lock, pc, servers, behind, faults, commands>>

Sent(p, n) == {s[2] : s \in {t \in job[p].sent : t[1] = n}}

(* Then the override is set, by the agent's binary on the node.            *)
PublishNode(p, n) ==
  /\ pc[p] = "publish" /\ n \in job[p].todo /\ host[n].agent
  /\ Images(job[p].plan[n]) \subseteq Sent(p, n)
  /\ host' = [host EXCEPT ![n] = SetOverride(@, job[p].plan[n])]
  /\ job' = [job EXCEPT ![p].todo = @ \ {n}]
  /\ UNCHANGED <<file, cfg, lock, pc, servers, behind, faults, commands>>

(* Variant: a node that could not be written to counts as written.         *)
PublishFailsUnseen(p, n) ==
  /\ pc[p] = "publish" /\ n \in job[p].todo /\ (host[n].agent => Fault)
  /\ job' = [job EXCEPT ![p].todo = @ \ {n}]
  /\ UNCHANGED <<file, cfg, lock, pc, host, servers, behind, commands>>
  /\ ~host[n].agent => UNCHANGED faults

PublishFails(p, n) ==
  /\ pc[p] = "publish" /\ n \in job[p].todo
  /\ IF host[n].agent
     THEN Fault /\ job' = [job EXCEPT ![p].todo = @ \ {n}, ![p].bad = @ \cup {n}]
     ELSE /\ UNCHANGED faults
          /\ job' = [job EXCEPT ![p].todo = @ \ {n}, ![p].bad = @ \cup {n},
                                ![p].gone = @ \cup {n}]
  /\ UNCHANGED <<file, cfg, lock, pc, host, servers, behind, commands>>

Published(p, op) == pc[p] = "publish" /\ job[p].op = op /\ job[p].todo = {}

(* A command that records nothing of a publication that failed.            *)
PublishAborts(p) ==
  /\ \E op \in {"deploy", "attach", "label", "detach"} : Published(p, op)
  /\ job[p].bad # {} /\ Return(p)
  /\ UNCHANGED <<file, cfg, host, servers, behind, faults, commands>>

-----------------------------------------------------------------------------
(* deploy.  Everything that can be refused is refused before the build;    *)
(* the release is recorded after it was published.                         *)
DeployBegin(p, e, c) ==
  LET S   == file.attached[e]
      new == SaveRelease(file, NewRelease(Snapshot(e, c), S))
  IN /\ Begin(p, "deploy") /\ Len(file.releases) < MaxReleases
     /\ S # {} /\ ValidSchedule(file, S) /\ ResolvesSecrets(file, e)
     /\ Plannable(new, S)
     /\ Hold(p, "baseline", [Planned(Job("deploy", e, 0), new, S) EXCEPT
                               !.next = new, !.sweep = S, !.rel = new.current[e]])
     /\ behind' = behind \cup S
     /\ UNCHANGED <<file, cfg, host, servers, faults>>

(* soloNodeStatusTimes: a node without a status, or whose status cannot be *)
(* read, has no baseline.                                                  *)
BaselineRead(p) ==
  /\ pc[p] = "baseline" /\ job[p].sweep # {}
  /\ LET n == Min(job[p].sweep)
     IN \E read \in BOOLEAN :
          /\ read => UNCHANGED faults
          /\ ~read => Fault
          /\ job' = [job EXCEPT ![p].sweep = @ \ {n}, ![p].since =
                       IF read /\ host[n].status # None THEN @ ELSE @ \cup {n}]
  /\ UNCHANGED <<file, cfg, lock, pc, host, servers, behind, commands>>

DeployPublish(p) ==
  /\ pc[p] = "baseline" /\ job[p].sweep = {} /\ job[p].op = "deploy"
  /\ Go(p, "publish", job[p])
  /\ UNCHANGED <<file, cfg, lock, host, servers, behind, faults, commands>>

(* Variant: the lock is given back before the rollout is waited for.       *)
DeployRecordUnlocks(p) ==
  LET j  == job[p]
      S  == DOMAIN j.plan
      st == StartDeployment(j.next, j.env, j.rel, "deploy", S)
  IN /\ Published(p, "deploy") /\ j.bad = {}
     /\ Write(st) /\ behind' = behind \ S /\ lock' = NoCli
     /\ Go(p, "wait", [j EXCEPT !.st = st, !.sweep = S, !.clean = TRUE,
                                !.dep = Len(st.deployments)])
     /\ UNCHANGED <<cfg, host, servers, faults, commands>>

DeployRecord(p) ==
  LET j  == job[p]
      S  == DOMAIN j.plan
      st == StartDeployment(j.next, j.env, j.rel, "deploy", S)
  IN /\ Published(p, "deploy") /\ j.bad = {}
     /\ Write(st) /\ behind' = behind \ S
     /\ Go(p, "wait", [j EXCEPT !.st = st, !.sweep = S, !.clean = TRUE,
                                !.dep = Len(st.deployments)])
     /\ UNCHANGED <<cfg, lock, host, servers, faults, commands>>

-----------------------------------------------------------------------------
(* waitForSoloRolloutForRuntime.  What a status says of an environment at  *)
(* a revision: nothing when it lists no environments.                      *)
Runtime(s, e, rev) ==
  CASE DOMAIN s.envs = {}       -> "none"
    [] e \notin DOMAIN s.envs   -> "pending"
    [] s.envs[e].rev # rev      -> "pending"
    [] OTHER                    -> s.envs[e].phase

Verdict(p, n) ==
  LET s   == host[n].status
      j   == job[p]
      run == Runtime(s, j.env, j.st.releases[j.rel].rev)
  IN IF s = None \/ s.rev # j.plan[n] \/ n \notin j.since THEN "pending"
     ELSE IF run = "none" THEN s.phase ELSE run

Finish(p, status) ==
  LET j  == job[p]
      st == EndDeployment(j.st, j.dep, status, j.plan)
  IN /\ Write(st) /\ Return(p)
     /\ behind' = IF j.op = "rollback" /\ status = "settled"
                  THEN IF DOMAIN j.plan = st.attached[j.env]
                       THEN behind \ DOMAIN j.plan
                       ELSE behind \cup st.attached[j.env]
                  ELSE behind

WaitRead(p) ==
  /\ pc[p] = "wait" /\ job[p].sweep # {}
  /\ LET n == Min(job[p].sweep)
         v == Verdict(p, n)
     IN IF v = "error" THEN Finish(p, "failed")
        ELSE /\ job' = [job EXCEPT ![p].sweep = @ \ {n},
                                   ![p].clean = @ /\ v = "settled"]
             /\ UNCHANGED <<file, lock, pc, behind>>
  /\ UNCHANGED <<cfg, host, servers, faults, commands>>

WaitReadFails(p) ==
  /\ pc[p] = "wait" /\ job[p].sweep # {} /\ Fault /\ Finish(p, "failed")
  /\ UNCHANGED <<cfg, host, servers, commands>>

WaitAgain(p) ==
  /\ pc[p] = "wait" /\ job[p].sweep = {} /\ ~job[p].clean
  /\ job' = [job EXCEPT ![p].sweep = DOMAIN job[p].plan, ![p].clean = TRUE]
  /\ UNCHANGED <<file, cfg, lock, pc, host, servers, behind, faults, commands>>

WaitTimeout(p) ==
  /\ pc[p] = "wait" /\ job[p].sweep = {} /\ ~job[p].clean
  /\ Timeouts /\ Finish(p, "failed")
  /\ UNCHANGED <<cfg, host, servers, faults, commands>>

WaitSettled(p) ==
  /\ pc[p] = "wait" /\ job[p].sweep = {} /\ job[p].clean
  /\ Finish(p, "settled")
  /\ UNCHANGED <<cfg, host, servers, faults, commands>>

-----------------------------------------------------------------------------
(* release rollback.  The deployment is recorded before anything is        *)
(* published, and only the nodes the release was made for, as far as they  *)
(* are still attached, are published to, as if no other were attached.     *)
RollbackTargets(st, e, r) == st.releases[r].targets \cap st.attached[e]

ScopedToTargets(st, e, S) == [st EXCEPT !.attached[e] = S]

RollbackBegin(p, e, r) ==
  LET S  == RollbackTargets(file, e, r)
      st == StartDeployment(file, e, r, "rollback", S)
  IN /\ Begin(p, "rollback")
     /\ S # {}
     /\ TaskKind # NoTask => TaskNodes(file, S) # {}
     /\ Write(st)
     /\ Hold(p, "baseline",
          [Job("rollback", e, 0) EXCEPT
             !.st = st, !.sweep = S, !.rel = r, !.dep = Len(st.deployments),
             !.next = ScopedToTargets([st EXCEPT !.current[e] = r], e, S)])
     /\ behind' = behind \cup S
     /\ UNCHANGED <<cfg, host, servers, faults>>

RollbackPublish(p) ==
  LET j == job[p]
      S == j.next.attached[j.env]
  IN /\ pc[p] = "baseline" /\ j.sweep = {} /\ j.op = "rollback"
     /\ IF Plannable(j.next, S)
        THEN /\ Go(p, "publish", Planned(j, j.next, S))
             /\ UNCHANGED <<file, lock>>
        ELSE /\ Write(EndDeployment(j.st, j.dep, "failed", << >>))
             /\ Return(p)
     /\ UNCHANGED <<cfg, host, servers, behind, faults, commands>>

RollbackPublished(p) ==
  LET j == job[p]
  IN /\ Published(p, "rollback")
     /\ IF j.bad = {}
        THEN /\ Go(p, "wait", [j EXCEPT !.sweep = DOMAIN j.plan, !.clean = TRUE])
             /\ UNCHANGED <<file, lock>>
        ELSE /\ Write(EndDeployment(j.st, j.dep, "failed", << >>))
             /\ Return(p)
     /\ UNCHANGED <<cfg, host, servers, behind, faults, commands>>

-----------------------------------------------------------------------------
(* status, without the lock.  It recovers a deployment whose process died: *)
(* the latest one running, when every node says that it has settled.       *)
Selected(st, e) == st.attached[e]

TargetSet(st, i, S) == st.deployments[i].targets \cap S

StatusBegin(p, e) ==
  /\ Begin(p, "status")
  /\ Selected(file, e) # {} /\ HasRelease(file, e) /\ Running(file, e) # {}
  /\ LET i == Latest(file, Running(file, e))
     IN Go(p, "status", [Job("status", e, 0) EXCEPT
             !.dep = i, !.rel = file.deployments[i].rel, !.sweep = Selected(file, e)])
  /\ UNCHANGED <<file, cfg, lock, host, servers, behind, faults>>

WithPub(st, e) == {i \in Deployed(st, e) : st.deployments[i].pub # None}

(* soloExpectedStatusRevisions: what the last publication of the release   *)
(* wrote; without one, the release's own revision.                         *)
ExpectedRevision(st, e, r, n) ==
  LET S == {i \in WithPub(st, e) : st.deployments[i].rel = r}
      w == IF S = {} THEN << >> ELSE st.deployments[Latest(st, S)].pub
  IN CASE DOMAIN w = {}   -> st.releases[r].rev
       [] n \in DOMAIN w  -> w[n]
       [] OTHER           -> None

(* soloStaleStatusRevisions.                                               *)
StaleRevisions(st, e, r, n) ==
  {st.deployments[i].pub[n] : i \in {k \in WithPub(st, e) :
     n \in DOMAIN st.deployments[k].pub}} \ {ExpectedRevision(st, e, r, n)}

(* soloCohostedStatusRevisions: what another environment's last settled    *)
(* deployment of its current release wrote to the node.                    *)
CohostedRevisions(st, e, n) ==
  LET Wrote(f) == {i \in WithPub(st, f) :
        /\ st.deployments[i].status = "settled"
        /\ st.deployments[i].rel = st.current[f]
        /\ n \in DOMAIN st.deployments[i].pub}
  IN {st.deployments[Latest(st, Wrote(f))].pub[n] :
        f \in {g \in Envs \ {e} : Wrote(g) # {}}}

(* soloNodeStatusMatchesExpectedRelease.                                   *)
Matches(j, n, s) ==
  LET run == Runtime(s, j.env, j.st.releases[j.rel].rev)
      exp == ExpectedRevision(j.st, j.env, j.rel, n)
  IN /\ run \in {"none", "settled"}
     /\ \/ s.rev = exp
        \/ /\ run = "settled"
           /\ s.rev \notin StaleRevisions(j.st, j.env, j.rel, n)
           /\ s.rev \in CohostedRevisions(j.st, j.env, n)

(* One node's status.  When it keeps the run from finding every node       *)
(* settled, or cannot be read, status only prints and nothing follows.     *)
StatusRead(p) ==
  LET j == job[p]
  IN /\ pc[p] = "status"
     /\ \E n \in j.sweep :
          LET s    == host[n].status
              exp  == ExpectedRevision(j.st, j.env, j.rel, n)
              good == /\ s # None
                      /\ s.phase = "settled"
                      /\ Matches(j, n, s) \/ exp = None
              chk  == n \in j.st.deployments[j.dep].targets /\ Matches(j, n, s)
          IN IF ~good THEN Return(p)
             ELSE /\ job' = [job EXCEPT ![p].sweep = @ \ {n},
                      ![p].checked = IF chk THEN @ \cup {n} ELSE @,
                      ![p].plan = IF chk /\ CohostedRevisions(j.st, j.env, n) = {}
                                  THEN [m \in DOMAIN @ \cup {n} |->
                                          IF m = n THEN s.rev ELSE @[m]] ELSE @]
                  /\ UNCHANGED <<pc, lock>>
     /\ UNCHANGED <<file, cfg, host, servers, behind, faults, commands>>

(* soloRecoverSettledRunningDeployment, on the state file as it is now.    *)
Recovered(j) ==
  LET S == {i \in Running(file, j.env) : file.deployments[i].rel = j.rel}
  IN {i \in S : /\ i = Latest(file, S)
                /\ LET T == TargetSet(file, i, Selected(j.st, j.env))
                   IN T # {} /\ T \subseteq j.checked}

StatusRecover(p) ==
  LET j == job[p]
      T == TargetSet(j.st, j.dep, Selected(j.st, j.env))
  IN /\ pc[p] = "status" /\ j.sweep = {} /\ lock = NoCli
     /\ Return(p)
     /\ IF T # {} /\ T \subseteq j.checked /\ Recovered(j) # {}
        THEN LET i   == CHOOSE k \in Recovered(j) : TRUE
                 d   == file.deployments[i]
                 pub == IF d.pub = None /\ DOMAIN j.plan # {} THEN j.plan ELSE d.pub
             IN /\ Write(EndDeployment(file, i, "settled", pub))
                /\ behind' = IF d.kind = "rollback"
                             THEN behind \cup file.attached[j.env] ELSE behind
        ELSE UNCHANGED <<file, behind>>
     /\ UNCHANGED <<cfg, host, servers, faults, commands>>

-----------------------------------------------------------------------------
(* node attach and node label: the state file is written first, then every *)
(* node the change shows on is published to.                               *)
WriteThenPublish(p, op, st, S) ==
  /\ Write(st)
  /\ behind' = behind \cup S
  /\ IF S # {} /\ Plannable(st, S)
     THEN Hold(p, "publish", [Planned(Job(op, NoEnv, 0), st, S) EXCEPT !.st = st])
     ELSE AtOnce
  /\ UNCHANGED <<cfg, host, servers, faults>>

(* Variant: only the node that is attached is published to.                *)
AttachOnlyNew(p, e, n) ==
  LET st == WithNode(file, e, n)
  IN /\ Begin(p, "attach") /\ n \in file.nodes
     /\ WriteThenPublish(p, "attach", st, IF HasRelease(st, e) THEN {n} ELSE {})

Attach(p, e, n) ==
  LET st == WithNode(file, e, n)
  IN /\ Begin(p, "attach") /\ n \in file.nodes
     /\ WriteThenPublish(p, "attach", st,
                         IF HasRelease(st, e) THEN st.attached[e] ELSE {})

(* soloAffectedNodesForNodeWithReleaseState.                               *)
Affected(st, n) == UNION {st.attached[e] : e \in Released(st, n)}

Label(p, n, labels) ==
  LET st == [file EXCEPT !.labels[n] = labels]
  IN n \in file.nodes /\ WriteThenPublish(p, "label", st, Affected(st, n))

LabelSet(p, n, labels) == Begin(p, "label") /\ Label(p, n, labels)

LabelRemove(p, n, labels) ==
  /\ Begin(p, "label")
  /\ Label(p, n, NormalLabels(file.labels[n] \ labels))

PublishEnds(p) ==
  /\ \E op \in {"attach", "label"} : Published(p, op)
  /\ job[p].bad = {}
  /\ behind' = behind \ DOMAIN job[p].plan
  /\ Return(p)
  /\ UNCHANGED <<file, cfg, host, servers, faults, commands>>

(* node detach: the nodes that stay, then the node, then the state file.   *)
DetachBegin(p, e, n) ==
  LET next == WithoutNode(file, e, n)
      S    == next.attached[e]
  IN /\ Begin(p, "detach") /\ n \in file.attached[e]
     /\ Plannable(next, S)
     /\ Hold(p, "publish", [Planned(Job("detach", e, n), next, S) EXCEPT !.next = next])
     /\ behind' = behind \cup S \cup {n}
     /\ UNCHANGED <<file, cfg, host, servers, faults>>

DetachNode(p) ==
  LET j == job[p]
  IN /\ Published(p, "detach") /\ j.bad = {}
     /\ IF Plannable(j.next, {j.node})
        THEN /\ Go(p, "publish", [Planned(j, j.next, {j.node}) EXCEPT !.op = "clear"])
             /\ UNCHANGED lock
        ELSE Return(p)
     /\ UNCHANGED <<file, cfg, host, servers, behind, faults, commands>>

(* A node without an agent, and with nothing else attached, is let go.     *)
DetachEnds(p) ==
  LET j == job[p]
  IN /\ Published(p, "clear")
     /\ \/ /\ j.bad = {} /\ Write(j.next)
           /\ behind' = behind \ (j.next.attached[j.env] \cup {j.node})
        \/ /\ j.bad # {} /\ j.node \in j.gone /\ AttachedTo(j.next, j.node) = {}
           /\ Write(j.next) /\ behind' = behind \ j.next.attached[j.env]
        \/ /\ j.bad # {} /\ (j.node \in j.gone => AttachedTo(j.next, j.node) # {})
           /\ UNCHANGED <<file, behind>>
     /\ Return(p)
     /\ UNCHANGED <<cfg, host, servers, faults, commands>>

-----------------------------------------------------------------------------
(* secret set and secret delete: the state file, then devopsellence.yml as *)
(* it was read at the start.                                               *)
Secret(p, op, e, version) ==
  /\ Begin(p, "secret")
  /\ Write(WithSecret(file, e, version))
  /\ Hold(p, "config", [Job(op, e, 0) EXCEPT !.st = file', !.cfg = cfg[e]])
  /\ behind' = behind \cup file.attached[e]
  /\ UNCHANGED <<cfg, host, servers, faults>>

SecretSet(p, e)    == Secret(p, "set", e, IF file.secrets[e] = 1 THEN 2 ELSE 1)
SecretDelete(p, e) == file.secrets[e] > 0 /\ Secret(p, "delete", e, 0)

WithRef(c, ref) == [c EXCEPT !.ref = ref]

ConfigWrite(p) ==
  LET j   == job[p]
      new == WithRef(j.cfg, j.op = "set")
  IN /\ pc[p] = "config" /\ Return(p)
     /\ \/ /\ UNCHANGED faults
           /\ cfg' = IF new = j.cfg THEN cfg ELSE [cfg EXCEPT ![j.env] = new]
        \/ Fault /\ UNCHANGED cfg
     /\ UNCHANGED <<file, host, servers, behind, commands>>

(* ingress set: devopsellence.yml only, without the lock.                  *)
IngressSet(p, e) ==
  /\ Begin(p, "ingress")
  /\ cfg' = [cfg EXCEPT ![e].tls = IF @ = "auto" THEN "off" ELSE "auto"]
  /\ UNCHANGED <<file, cliVars, host, servers, behind, faults>>

-----------------------------------------------------------------------------
(* node create: from a host that answers SSH, or from a provider, which    *)
(* charges for the server from the moment it is created.                   *)
CreateServer(n) == servers' = servers \cup {n}

NodeCreate(p, n, hosted, e, install) ==
  /\ Begin(p, "create") /\ n \notin file.nodes /\ n \notin servers
  /\ Hold(p, "server", [Job("create", e, n) EXCEPT !.hosted = hosted, !.install = install])
  /\ IF hosted THEN CreateServer(n) ELSE UNCHANGED servers
  /\ UNCHANGED <<file, cfg, host, behind, faults>>

(* waitForSoloProviderServer gives up, or there is no address.             *)
ServerNotReady(p) ==
  /\ pc[p] = "server" /\ job[p].hosted /\ Fault /\ Return(p)
  /\ UNCHANGED <<file, cfg, host, servers, behind, commands>>

(* The nodes the new node's attachment shows on.                           *)
CreateTargets(j) ==
  IF j.env # NoEnv /\ HasRelease(j.st, j.env) THEN j.st.attached[j.env] ELSE {}

NodeSaved(p) ==
  LET j   == job[p]
      reg == SetNode(file, j.node, j.hosted)
      st  == IF j.env = NoEnv THEN reg ELSE WithNode(reg, j.env, j.node)
      k   == [j EXCEPT !.st = st, !.next = reg]
  IN /\ pc[p] = "server" /\ Write(st)
     /\ behind' = behind \cup CreateTargets(k)
     /\ Go(p, "install", k)
     /\ UNCHANGED <<cfg, lock, host, servers, faults, commands>>

(* The agent is installed if asked for; then the documents, if any.        *)
NodeInstall(p) ==
  LET j == job[p]
      S == CreateTargets(j)
  IN /\ pc[p] = "install"
     /\ host' = IF j.install THEN [host EXCEPT ![j.node] = Installed(@)] ELSE host
     /\ IF S = {} THEN Return(p)
        ELSE /\ UNCHANGED lock
             /\ Go(p, "publish", IF Plannable(j.st, S) THEN Planned(j, j.st, S)
                                 ELSE [j EXCEPT !.bad = {j.node}])
     /\ UNCHANGED <<file, cfg, servers, behind, faults, commands>>

NodeInstallFails(p) ==
  /\ pc[p] = "install" /\ job[p].install /\ Fault /\ Return(p)
  /\ UNCHANGED <<file, cfg, host, servers, behind, commands>>

NodeCreated(p) ==
  /\ Published(p, "create") /\ job[p].bad = {}
  /\ behind' = behind \ DOMAIN job[p].plan
  /\ Return(p)
  /\ UNCHANGED <<file, cfg, host, servers, faults, commands>>

(* The publication failed: the nodes get back the documents they had, as   *)
(* far as they can, and the attachment is taken back; so is the node, when *)
(* it was there before.                                                    *)
NodeUndo(p) ==
  LET j == job[p]
      S == CreateTargets(j)
  IN /\ Published(p, "create") /\ j.bad # {}
     /\ job' = [job EXCEPT ![p] =
          IF Plannable(j.next, S) THEN [Planned(j, j.next, S) EXCEPT !.op = "undo"]
          ELSE [j EXCEPT !.op = "undo"]]
     /\ UNCHANGED <<file, cfg, lock, pc, host, servers, behind, faults, commands>>

NodeUndone(p) ==
  LET j  == job[p]
      st == WithoutNode(j.st, j.env, j.node)
  IN /\ Published(p, "undo") /\ Return(p)
     /\ Write(IF j.hosted THEN st ELSE RemoveNode(st, j.node))
     /\ behind' = IF j.bad = {} THEN behind \ DOMAIN j.plan ELSE behind
     /\ UNCHANGED <<cfg, host, servers, faults, commands>>

(* Variant: a node is removed while environments are attached to it.       *)
NodeRemoveAttached(p, n) ==
  /\ Begin(p, "remove") /\ n \in file.nodes /\ n \notin file.hosted /\ AtOnce
  /\ Write(RemoveNode(file, n))
  /\ UNCHANGED <<cfg, host, servers, behind, faults>>

(* node remove: refused while attached; a provider's server is deleted     *)
(* first, with all that is on it.                                          *)
NodeRemove(p, n) ==
  /\ Begin(p, "remove") /\ n \in file.nodes /\ AttachedTo(file, n) = {}
  /\ IF n \in file.hosted
     THEN /\ Hold(p, "remove", Job("remove", NoEnv, n))
          /\ servers' = servers \ {n}
          /\ host' = [host EXCEPT ![n] = Bare]
          /\ UNCHANGED file
     ELSE /\ AtOnce
          /\ Write(RemoveNode(file, n))
          /\ UNCHANGED <<host, servers>>
  /\ UNCHANGED <<cfg, behind, faults>>

NodeRemoved(p) ==
  LET n == job[p].node
  IN /\ pc[p] = "remove" /\ Return(p)
     /\ Write(RemoveNode(file, n))
     /\ UNCHANGED <<cfg, host, servers, behind, faults, commands>>

(* agent install and upgrade, and agent uninstall.                         *)
AgentInstall(p, n) ==
  /\ Begin(p, "agent") /\ n \in file.nodes
  /\ host' = [host EXCEPT ![n] = Installed(@)]
  /\ UNCHANGED <<file, cfg, cliVars, servers, behind, faults>>

AgentUninstall(p, n, keep) ==
  /\ Begin(p, "agent") /\ n \in file.nodes /\ host[n].agent
  /\ host' = [host EXCEPT ![n] = Uninstalled(@, keep)]
  /\ UNCHANGED <<file, cfg, cliVars, servers, behind, faults>>

-----------------------------------------------------------------------------
(* The agent of a node.  A document with new content has a new sequence,   *)
(* for which its tasks are to be run and every report is new.              *)
AgentLoads(n) ==
  LET d == host[n].override
  IN /\ host[n].agent /\ d # None /\ d # host[n].loaded
     /\ host' = [host EXCEPT ![n].loaded = d, ![n].last = None,
                 ![n].tasks = {e \in DOMAIN d.envs : d.envs[e].task}]
     /\ UNCHANGED <<file, cfg, cliVars, servers, behind, faults, commands>>

(* A report f of this sequence hides s; two settled ones of one sequence   *)
(* are told apart by their environments alone.                             *)
Suppresses(f, s) ==
  /\ f # None /\ f.phase = s.phase /\ f.envs = s.envs
  /\ f.phase # "settled" => f.rev = s.rev

(* reportStatus: a hidden report is not sent, and the time in the status   *)
(* file stays.  h is the node without the report.                          *)
Later(n) == [p \in Clis |->
  IF /\ pc[p] \in {"baseline", "publish", "wait"}
     /\ job[p].op \in {"deploy", "rollback"}
     /\ pc[p] = "baseline" => n \notin job[p].sweep
  THEN [job[p] EXCEPT !.since = @ \cup {n}] ELSE job[p]]

Reported(n, s, h) ==
  /\ host[n].agent /\ host[n].loaded # None
  /\ host' = [host EXCEPT ![n] = [h EXCEPT !.status = s, !.last = s]]
  /\ job' = Later(n)
  /\ UNCHANGED <<file, cfg, lock, pc, servers, behind, commands>>

Report(n, s, h) == ~Suppresses(host[n].last, s) /\ Reported(n, s, h)

Settled(d, sick) ==
  [rev |-> d, phase |-> "settled",
   envs |-> [e \in DOMAIN d.envs |->
     [rev |-> d.envs[e].rev, phase |-> IF e \in sick THEN "error" ELSE "settled"]]]

(* A task's reports carry the revision of its environment.                 *)
TaskStatus(d, e, phase) == [rev |-> d.envs[e].rev, phase |-> phase, envs |-> << >>]

AgentTaskRuns(n) ==
  /\ UNCHANGED faults
  /\ \E e \in host[n].tasks :
       Report(n, TaskStatus(host[n].loaded, e, "reconciling"), host[n])

(* ensureImage: no registry has the image of a solo release.               *)
HasImage(n, e) == host[n].loaded.envs[e].rev \in host[n].images

AgentTaskEnds(n) ==
  /\ host[n].agent
  /\ \E e \in host[n].tasks :
       /\ host[n].last = TaskStatus(host[n].loaded, e, "reconciling")
       /\ HasImage(n, e)
       /\ host' = [host EXCEPT ![n].tasks = @ \ {e}]
  /\ UNCHANGED <<file, cfg, cliVars, servers, behind, faults, commands>>

AgentTaskFails(n) ==
  \E e \in host[n].tasks :
    /\ host[n].last = TaskStatus(host[n].loaded, e, "reconciling")
    /\ Fault \/ (~HasImage(n, e) /\ UNCHANGED faults)
    /\ Report(n, TaskStatus(host[n].loaded, e, "error"), host[n])

(* Disk care of the document that was reconciled.  Of the containers of a  *)
(* node, only those of this document are left to use an image; the images  *)
(* of Envoy, which are protected, are in no store.                         *)
Upserted(h) == Upsert(h.store, ReleasesOf(h.loaded))
Retained(h) == RetainedReleases(Upserted(h), ReleasesOf(h.loaded))
Doomed(h)   == PruneCandidates(Upserted(h), Retained(h))

SaveStore(h, removed) ==
  [h EXCEPT !.store = DropRemovedImages(Upserted(h), Retained(h), removed)]

RemoveImages(h, removed) == [h EXCEPT !.images = @ \ removed]

Care(h) == RemoveImages(SaveStore(h, Doomed(h)), Doomed(h))

(* Lists and removals fail, or the store cannot be read or written, or the *)
(* agent is started anew before it is.                                     *)
CareFailing(h) ==
  UNION {{RemoveImages(h, R), RemoveImages(SaveStore(h, R), R)} : R \in SUBSET Doomed(h)}

(* A pass that reconciles everything; what it started may be unhealthy all *)
(* the same.  Disk care follows, and whatever it does, the report.         *)
Reconciles(n) ==
  /\ host[n].loaded # None /\ host[n].tasks = {}
  /\ Images(host[n].loaded) \subseteq host[n].images

AgentSettles(n) ==
  /\ Reconciles(n) /\ UNCHANGED faults
  /\ Report(n, Settled(host[n].loaded, {}), Care(host[n]))

AgentSick(n) ==
  /\ Reconciles(n) /\ Fault
  /\ \E e \in DOMAIN host[n].loaded.envs :
       Report(n, Settled(host[n].loaded, {e}), Care(host[n]))

(* The error of disk care makes the report a new one.                      *)
AgentCareFails(n) ==
  /\ Reconciles(n) /\ Fault
  /\ \E h \in CareFailing(host[n]) : Reported(n, Settled(host[n].loaded, {}), h)

(* Every few minutes a settled node is taken care of again.  The report is *)
(* repeated when an image was removed, or when another hour has begun.     *)
AgentCaresAgain(n) ==
  LET h    == host[n]
      same == Care(h).images = h.images
  IN /\ h.agent /\ Reconciles(n) /\ h.last # None /\ h.last.phase = "settled"
     /\ \/ same /\ Care(h) # h /\ UNCHANGED job
        \/ (same => Later(n) # job) /\ job' = Later(n)
     /\ host' = [host EXCEPT ![n] = Care(h)]
     /\ UNCHANGED <<file, cfg, lock, pc, servers, behind, faults, commands>>

Failed(n, phase) == [rev |-> host[n].loaded, phase |-> phase, envs |-> << >>]

AgentFails(n) ==
  /\ Fault
  /\ \E phase \in {"error", "retryable"} : Report(n, Failed(n, phase), host[n])

(* The image is not there; the agent tries again on every pass.            *)
AgentLacksImage(n) ==
  /\ host[n].loaded # None /\ host[n].tasks = {} /\ ~Reconciles(n)
  /\ UNCHANGED faults /\ Report(n, Failed(n, "error"), host[n])

-----------------------------------------------------------------------------
Init ==
  /\ file = [nodes |-> InitialNodes, labels |-> [n \in Nodes |-> Default],
             hosted |-> {}, attached |-> InitialAttached, releases |-> << >>,
             current |-> [e \in Envs |-> 0], deployments |-> << >>,
             secrets |-> [e \in Envs |-> 0]]
  /\ cfg = [e \in Envs |-> [ref |-> FALSE, tls |-> "auto"]]
  /\ lock = NoCli
  /\ pc = [p \in Clis |-> "idle"] /\ job = [p \in Clis |-> NoJob]
  /\ host = [n \in Nodes |-> IF n \in InitialNodes
                             THEN [Bare EXCEPT !.agent = TRUE] ELSE Bare]
  /\ servers = {} /\ behind = {} /\ faults = 0 /\ commands = 0

Command(p) ==
  \/ \E e \in Envs : \/ \E c \in Commits : DeployBegin(p, e, c)
                     \/ \E r \in Selectable(file, e) : RollbackBegin(p, e, r)
                     \/ StatusBegin(p, e)
                     \/ SecretSet(p, e) \/ SecretDelete(p, e) \/ IngressSet(p, e)
                     \/ \E n \in Nodes : Attach(p, e, n) \/ DetachBegin(p, e, n)
  \/ \E n \in Nodes :
       \/ \E labels \in (SUBSET Kinds) \ {{}} : LabelSet(p, n, labels) \/ LabelRemove(p, n, labels)
       \/ \E e \in Envs \cup {NoEnv}, h, i \in BOOLEAN : NodeCreate(p, n, h, e, i)
       \/ NodeRemove(p, n) \/ AgentInstall(p, n)
       \/ \E keep \in BOOLEAN : AgentUninstall(p, n, keep)

(* What a started command goes on to do by itself.                         *)
Proceed(p) ==
  \/ \E n \in Nodes : PublishNode(p, n) \/ PublishFails(p, n)
  \/ \E n \in Nodes, c \in Commits : SendImage(p, n, c)
  \/ BaselineRead(p) \/ PublishAborts(p)
  \/ DeployPublish(p) \/ DeployRecord(p)
  \/ WaitRead(p) \/ WaitReadFails(p) \/ WaitSettled(p)
  \/ RollbackPublish(p) \/ RollbackPublished(p)
  \/ StatusRead(p) \/ StatusRecover(p)
  \/ PublishEnds(p) \/ DetachNode(p) \/ DetachEnds(p) \/ ConfigWrite(p)
  \/ NodeSaved(p) \/ ServerNotReady(p) \/ NodeInstall(p) \/ NodeInstallFails(p)
  \/ NodeCreated(p) \/ NodeUndo(p) \/ NodeUndone(p) \/ NodeRemoved(p)

AgentPass(n) == AgentLoads(n) \/ AgentTaskEnds(n) \/ AgentSettles(n)

Next ==
  \/ \E p \in Clis : Command(p) \/ Proceed(p) \/ WaitAgain(p) \/ WaitTimeout(p) \/ Crash(p)
  \/ \E n \in Nodes : \/ AgentPass(n) \/ AgentTaskRuns(n) \/ AgentTaskFails(n)
                       \/ AgentSick(n) \/ AgentFails(n) \/ AgentLacksImage(n)
                       \/ AgentCareFails(n) \/ AgentCaresAgain(n)

Spec == Init /\ [][Next]_vars

-----------------------------------------------------------------------------
(* The state file, the commands and the nodes keep to their types.         *)
TypeOK ==
  /\ file.nodes \subseteq Nodes /\ file.hosted \subseteq file.nodes
  /\ file.labels \in [Nodes -> (SUBSET Kinds) \ {{}}]
  /\ file.attached \in [Envs -> SUBSET file.nodes]
  /\ file.current \in [Envs -> 0..Len(file.releases)]
  /\ lock \in Clis \cup {NoCli}
  /\ \A p \in Clis : IF pc[p] = "idle" THEN job[p] = NoJob
                     ELSE DOMAIN job[p] = DOMAIN Job("", NoEnv, 0)
  /\ behind \subseteq Nodes
  /\ \A n \in Nodes : /\ host[n].images \subseteq Commits
                       /\ \A e \in Envs : Range(host[n].store[e]) \subseteq Commits
  /\ servers \subseteq Nodes /\ faults \in 0..MaxFaults /\ commands \in 0..MaxCommands

(* The document on a node is the one the state file stands for: exactly    *)
(* the environments attached to the node, at their current releases, with  *)
(* the secrets of now and the peers of now.  The nodes excepted are those  *)
(* that a command is working on, or that one left unfinished: it failed or *)
(* died between its writes, it changed a secret, it rolled back a release  *)
(* the node was not a target of, or it detached a node without an agent.   *)
PublishedMatchesState ==
  \A n \in Nodes \ behind :
    host[n].override # None =>
      LET d == Document(file, n)
      IN host[n].override.envs = d.envs /\ host[n].override.peers = d.peers

(* An image that a command found on a node, or sent there, is on the node  *)
(* until the command has ended, and so when the agent comes to the new     *)
(* document: disk care, which runs between the look and the writing of the *)
(* document and knows only what it was given before, does not remove an    *)
(* image within the window, of an environment that was detached from the   *)
(* node or of another one at that revision, whichever documents the agent  *)
(* still has to load.                                                      *)
SafeImagesStay ==
  \A p \in Clis : pc[p] # "idle" =>
    \A s \in job[p].sent : s[3] => s[2] \in host[s[1]].images

(* StateStore.Write checks the file before it writes it, after the nodes   *)
(* have been published to: no order of overlapping deploys, rollbacks and  *)
(* recoveries computes a file that the check refuses, which would leave    *)
(* the nodes with what no file records.                                    *)
FileReadable == CurrentReadable(file) /\ DeploymentsReadable(file)

(* A deployment is recorded as settled while the documents it wrote are    *)
(* still the ones on its nodes (or an agent was uninstalled with all its   *)
(* files): no command published to them while the rollout was polled.      *)
SettlesWhatIsPublished ==
  [][\A p \in Clis :
       (/\ pc[p] = "wait" /\ pc'[p] = "idle" /\ job[p].dep \in DOMAIN file'.deployments
        /\ file'.deployments[job[p].dep].status = "settled")
         => \A n \in DOMAIN job[p].plan : host[n].override \in {job[p].plan[n], None}]_vars

Log == INSTANCE ReleaseLog WITH releases <- file.releases,
                                deployments <- file.deployments,
                                current <- file.current

(* The state file, which every command reads and writes as a whole, is a   *)
(* log of releases and deployments: no command takes back what another one *)
(* recorded, deployments end once, and current follows them (ReleaseLog).  *)
RefinesReleaseLog == Log!Spec

(* The current release of an environment whose latest deployment settled   *)
(* is of the revision that deployment rolled out.                          *)
CurrentIsLatestSettled ==
  \A e \in Envs :
    Deployed(file, e) # {} =>
      LET d == file.deployments[Latest(file, Deployed(file, e))]
      IN d.status = "settled" => Current(file, e).rev = file.releases[d.rel].rev
=============================================================================
