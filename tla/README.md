# A TLA+ model of devopsellence

devopsellence deploys applications to nodes the user owns. A *control plane*
(Rails, `src/control-plane`) keeps environments, releases and deployments and
publishes a *desired state document* per node; an *agent* on each node (Go,
`src/agent`) fetches the document, reconciles Docker containers and Envoy with
it, and reports back. In *solo* mode the CLI (`src/cli`) takes the control
plane's place and writes the document over SSH, with the release logic of
`src/deployment-core`.

This directory holds modules that model parts of that system, the
configurations TLC checks, and proofs TLAPS checks. `PROJECT.json` maps every
definition to the lines it stands for.

## 1. Inventory

For each component: its state, its operations, whom it talks to, what is hard,
and what makes it correct.

**Deployment scheduling and publishing** (`services/deployments/scheduler.rb`,
`publisher.rb`, `stale_scheduling_recovery.rb`, `jobs/deployments/publish_job.rb`).
State: a row per deployment (`status`, `finished_at`, `release_task_status`,
executor node), `environments.current_release`, the job queue, a lock per
deployment. A deployment is created in `scheduling` and its job enqueued after
commit; the job takes the lock, publishes either the release-task document to
one node or the runtime to all, and writes a status row per node; a recurring
job re-enqueues deployments left in `scheduling`. Hard: several job threads,
jobs lost and duplicated, rows held in memory across other processes' writes,
publication node by node without a transaction. Correct when: the row's columns
agree, a finished deployment stays so, the runtime waits for the release task,
no deployment hangs in `scheduling`.

**Desired state documents** (`services/nodes/desired_state_publisher.rb`).
State: `nodes.desired_state_sequence`, the objects and pointer in storage.
Hard: the sequence is read, used and saved in separate steps. Correct when: one
sequence names one document and sequences do not go back.

**Rollout progress** (`services/deployments/progress_recorder.rb`). State: a
status row per deployment and node. Each report is routed to a deployment by
its git revision, recorded, handled as a release task's report, and the
deployment re-evaluated. Hard: requests run in parallel with each other and
with jobs, reports are lost, repeated and late. Correct when: a node is settled
only for work it did, and the verdict is consistent with the rows.

**Agent main loop** (`agent/internal/agent`, `lifecycle`, `report`). State: the
last document, satisfied tasks on disk, the fingerprint of the last report.
Every tick: fetch, run unsatisfied tasks, reconcile, disk care, report. Hard:
crashes between a task and its record, suppressed and timed-out reports.

**Authorities** (`authority/remote`, `authority/solo`, `desiredstatecache`).
State: pointer, cached document in memory and on disk, override file. A fetch
takes one snapshot of the credentials' state and works on it without their lock.
Hard: the assignment changes during a fetch, two requests for one document,
outages, restarts. Correct when: the node runs a document of its own bundle,
never goes back to an older one, and gets to the latest.

**Credentials** (`auth/manager.go`; `api/v1/agent` controllers). State: the
token pair, the assignment and the sequence floor, in memory and on disk; the
digests and the assignment in the node's row. Operations: bootstrap, refresh,
sync of the assignment, exchange for a Google token, save. Hard: rotation with a
lost answer, a crash before the save, reassignment. Correct when: only a lost
answer or a lost save costs the session, the floor is one the assignment can
reach, and a token of the old assignment is not used for the new.

**Container reconciler** (`reconcile/reconcile.go`). State: none of its own
besides the pass in progress; it works on the containers of the engine. Hard:
each call can fail, the listing goes stale while health checks are awaited,
the agent can die anywhere and the next pass must make sense of what is left.
Correct when: it converges, does not run two workers at once, and a web service
does not lose its traffic to a replacement that is not ready.

**Envoy manager** (`envoy`). State: last endpoints in memory, the snapshot of
the xDS server, Envoy's own copy. Hard: three copies that follow each other
asynchronously; only Envoy's survives a restart of the agent.

**Node pool and bundles** (`managed_nodes`, `warm_servers`, `node_bundles`,
`runtime`, `organization_bundles`, `environment_bundles`). State: bundles and
servers in stages of provisioning, claims, leases. Hard: two claims of one
bundle, expiry against use, partial provisioning at cloud providers.

**Ingress and certificates** (`environment_ingresses`, `ingress_certificates`,
`acme`). State: DNS records, certificates, challenges. Hard: several nodes
behind one name, renewal, providers that answer late.

**Diagnosis** (`diagnose`, `node_diagnose_request.rb`). State: a request with
its phases; the node's document is published again, and its new sequence makes
the agent poll. Correct when: a request that was signalled is claimed.

**Disk care** (`diskcare`). State: for every environment the releases a node has
reconciled, in a file. After a pass that reconciled everything, and every few
minutes, it removes the images of releases beyond the window. Hard: it runs while
a command looks for an image on the node and writes the document that needs it.
Correct when: it removes only what lies beyond the window of every environment.

**Solo state** (`cli/internal/solo`, `deployment-core/.../release`). State: one
JSON file under a lock: nodes, attachments, releases, deployments, publications,
secrets; a read and a write refuse a file whose entries contradict each other.
Correct when: it is a log (nothing recorded is taken back) and the check refuses
nothing that a command has computed.

**Solo workflow** (`cli/internal/workflow/solo.go`). Each command reads the
file, writes documents to nodes over SSH, waits for the agents' status files and
writes the file. Hard: the CLI or a node fails between any two of these; some
commands take no lock; two environments share a node, so one command changes
what the other's document says. Correct when: the documents on the nodes are the
ones the file stands for, and a deployment settles for what it published.

**Shared workflow** (`cli/internal/workflow/app.go`, `auth`, `state`). State:
`auth.json`, `devopsellence.yml` and the selected mode, none locked or replaced
atomically; the tables of the control plane. A command is a sequence of
requests, some repeated with a new session after a 401 or once more after a
timeout. Hard: rotation and expiry of the refresh token, two processes of one
user, a file half written. Correct when: nothing is created twice, a deploy waits
for its own deployment, and no session or account that can still be used is lost.

**Composition of desired states** (`deployment-core/.../desiredstate`,
`config`): pure functions: validation, merging, placement.

**The rest**: identity providers, installation scripts, releases of the
binaries, web pages, maintenance jobs. These are I/O around external services
and are not planned.

## 2. Modules

| module | models | used by |
|---|---|---|
| `DeploymentRollout` | scheduling, publishing, progress, documents, agents seen from the control plane | `MCDeploymentRollout` and the `MCRollout*.cfg` |
| `DeploymentRolloutProofs` | theorems about `DeploymentRollout` | TLAPS |
| `NodeReconcileProofs`, `AgentSessionProofs` | theorems about `NodeReconcile` and `AgentSession` | TLAPS |
| `SoloWorkflowProofs`, `SoloDocumentProofs` | theorems about `SoloWorkflow`: the state file, and the documents on the nodes | TLAPS |
| `DiskCareProofs`, `SoloImageProofs` | theorems about `DiskCare`, and about `SoloWorkflow`'s images and types | TLAPS |
| `SharedWorkflowProofs` | theorems about `SharedWorkflow` | TLAPS |
| `NodeReconcile` | reconciler, Envoy manager, engine and applications of one node | `MCNodeReconcile` and the `MCNode*.cfg` |
| `AgentSession` | credentials, remote authority and diagnosis of one agent, with the control plane's row of its node | `MCAgentSession` and the `MCAgent*.cfg` |
| `SoloWorkflow` | the solo commands, the state file, the nodes and their agents | `MCSoloWorkflow` and the `MCSolo*.cfg` |
| `DiskCare` | operators: which releases of a node are retained, which images go | `SoloWorkflow`, by `EXTENDS` |
| `ReleaseLog` | abstract: what the solo state file promises about releases and deployments | `SoloWorkflow`, as `RefinesReleaseLog` |
| `SharedWorkflow` | the shared commands, the user's files and the control plane's API | `MCSharedWorkflow` and `MCSharedCli.cfg` |

Where they meet. `DeploymentRollout`'s `AgentReconcile` (and
`AgentReconcileError`) is one pass of `NodeReconcile`, from `Tick` to
`ReportSettled` (or to `idle` with an error). `AgentSession`'s `PublishDocuments`
and `PersistSequence` are what a job of `DeploymentRollout` does to one node, and
its fetch is `AgentFetch` in detail. `SharedWorkflow`'s `Publish` creates the
deployments that `DeploymentRollout` schedules.

Definitions whose comment begins with *Variant* are not part of the models:
each is a plausible mistake in the definition that follows it, used to see that
a property depends on the code being as it is.

### DeploymentRollout

One environment. `deployment[d]` is the row, `statuses[d]` the rows of its
nodes, `queue[d]` its waiting jobs, `nodeSeq`/`published` the sequence saved in
a node's row and the document its pointer leads to. A job thread `w` has a
program counter `wpc` and the copies it works with: `wmem` the deployment as
loaded, `wseen` the sequences of the nodes as loaded, `wrows` the status rows
as indexed. A status request `r` likewise (`rpc`, `rmem`, `rphase`).

* A job: `JobStart` (lock, load, `publishable?`), `Prepare` (release task or
  runtime), `AnnounceTask`, `Promote`, `AnnounceRollout`, then for each node
  `WriteDocument` (next sequence, object and pointer) and `PersistSequence`,
  then `IndexStatuses` and a `SyncStatus` per node. `PublishFail` is the rescue,
  `Interrupt` the death of the worker. `Republish` is the publication outside a
  deployment.
* A report: `FindStatus` (routing by revision), `RecordStatus`,
  `LoadDeployment`, `HandleTask`, `EnqueueRollout`, `CountStatuses`,
  `WriteRollout`; `AbortRequest` ends one at any point.
* `Save` is ActiveRecord's partial update: only columns that differ from the
  copy in memory are written. This matters: with whole-row writes a stale copy
  would undo other writers.
* The agents fetch, run the task, reconcile and report. A report may be lost,
  may be suppressed, and may be timed out by the agent while the server still
  handles it (`AgentTimeout`).

Merged steps: the three objects of a document are written in one (`WriteDocument`), and
the last `SyncStatus` of a publication also destroys the rows of nodes that left.

Abstractions. Time is left out: recovery may act on any deployment in
`scheduling`, and the grace period for errors may be over or not
(`Verdicts`). Waiting for the lock is a disabled action. A release is its
revision and whether it has a release task; documents have a sequence, a
release and a kind. `reconciled` and `ran` are history variables.

`TaskSuccessReported` says whether the agent reports a release task that
succeeded. `FALSE` is the agent as it is (`agent.go:325`); the control plane's
own tests are written for `TRUE`. The ordering of task and rollout is checked
with `TRUE`, where the rollout can happen at all, and proved for both.

### NodeReconcile

One node. A container is a pair of a service and a runtime hash: a container is
created only when the listing has none of that hash, so the pair is unique.
`state`, `ip` and `up` (the application answers) belong to the engine and the
applications; `last`, `snap` and `eds` are the three copies of the endpoints, in
the manager, in the xDS server and in Envoy; `routes` are the services that the
manager's last ingress routes to; `envoy` is what the running Envoy was made with
(the ports of HTTP only, those of HTTPS too, or a configuration of another version
of the agent), `cert` whether the certificate is on disk; the rest is the pass in
progress. A document is its services and the TLS mode of its ingress.

* `Tick`, `List`, `Pick` start the pass and each service, in any order, as Go's
  map iteration gives.
* `Ensure` pushes the endpoints in memory and creates Envoy, or removes and
  creates it anew, with no endpoint loaded, when it publishes other ports than
  ingress and certificate ask for, or was made with another healthcheck, log
  configuration or bootstrap. It runs before and after `EnsureCert`, which in mode
  auto brings the certificate or does not.
* Web: `Ensure`, `EnsureCert`, `Ensure`, `ApplyWeb`, then `Inspect` or `WaitHealthy`,
  `UpdateClusterEDS`, `WaitForRoute` (with one `RestartEnvoy`), `Drain`. What
  fails after a container was created in this pass leads to `TearDown`.
* Other kinds: `ApplyOther`, `Drain`, `Create`.
* `ServicesEnd`, `Prune`, `ReportSettled` end it.
* Every engine call has its failing twin, with the partial effects the call can
  have (created but not started, stopped but not removed).
* `AgentRestart` (to another version, perhaps, whose Envoy has another
  configuration), `AppUp`, `AppExits`, `EnvoyLoads`, `EnvoyExits`, `Deploy` are
  what happens around it.

Abstractions. Networks and images only contribute errors (`NetworksFail`,
`ImageFails`), listeners nothing. A certificate, once there, stays: `Ensure` asks
for the file alone, and a renewal replaces it. That the certificate of mode manual
is missing is one of the failures of `EnsureFails`. The ingress is a public one: an
internal one has no routes and only the default cluster, and is left out. A changed
bootstrap whose `Ensure` fails after the file was written is not noticed again by the
code; here Envoy stays `"outdated"` and is made anew by a later pass. `DrainDelay`
(one second) is taken to be long enough for Envoy to load a snapshot:
`DrainDelayOver`. Health probes of a sound specification fail for
good only within `MaxFaults`; those of a `BrokenSpecs` member always do.
`RunTask` and `ReconcileSupportServices` are not in this module.

### AgentSession

One node and its agent. `cp` is the control plane's record: the generation of
the token pair it accepts, the bundle assigned, the sequence and the documents
published for each bundle, a diagnosis request. `mem` and `disk` are the
manager's `State`; `op` is the operation that holds its mutex, with the request
it is at; `main` is the fetch of the main loop, with the snapshot it took;
`cache`, `file` and `override` are the authority's three other sources.

* The manager: `Start` and `SyncBegin` begin an operation (`Initialize`, the
  refresh timer), and a fetch that needs a token another; `RefreshControlPlane`,
  `BootstrapAnswered`, `FetchAssignment`, `ExchangeTokens` and `saveState` are
  its requests, each with its refusal; `AnswerLost` is a request that was served
  and whose answer did not arrive.
* The authority: `FetchOverride`, `FetchBegin`, `FetchAccess`, then
  `ReadMetadata` and `ReadMedia` (object store) or `ReadHTTP`, then the checks of
  the envelope, `RecordSequenceFloor` and `KeepDocument`. `SourceUnavailable`
  leads to the fallback, `ParseRefused`, `KeyUnavailable` and
  `SecretUnavailable` do not.
* The control plane: `Assign`, `PublishDocuments` with `PersistSequence`,
  `Unassign`, `Retire`, `EnvelopeExpires`, `RequestDiagnosis`.
* `Crash`, `Reinstall`, `AccessExpires`, `GoogleExpires`, `OverrideWrite` happen
  at any time.

Not modelled: that the control plane refuses the refresh token of a node that was
away for 30 days (`node.rb:96`), which is one more way to the lost session that
`Converges` excepts; a claim of a diagnosis that is served and whose answer is lost.

Tokens are the generation of their pair, a document its bundle, sequence and
node. The envelope's day is a flag (`cp.old`). `delivered` and `gap` are history
variables: what a fetch returned last, and which answer or save was lost.

### SoloWorkflow, DiskCare and ReleaseLog

`file` is the state file, read and written whole; `host[n]` a machine with its
override file, the document its agent has loaded, the tasks it still has to run,
its status file, its images and the store of its disk care. A process has a program counter and its copies in `job`.
`Document` composes what a node should run: the environments attached to it, at
their current releases, where its labels take their services, with secrets,
ingress and peers. A document stands for its revision, the digest of its content.

* deploy: `DeployBegin`, `BaselineRead`, `DeployPublish`, a `PublishNode` per
  node, `DeployRecord`, `WaitRead` and `WaitSettled`/`WaitAgain`/`WaitTimeout`.
  The release and its deployment are recorded after the publication.
* rollback: recorded as running first (`RollbackBegin`), current when it settles.
* status: `StatusBegin` and `StatusRead` without the lock, `StatusRecover` with it.
* attach, label, detach, secret, ingress, node create and remove, agent install
  and uninstall: the file before or after the nodes, as each command has it.
* `Suppresses` is the agent's comparison of reports: what is equal is not
  written again, so a status file keeps its time.
* Images: a publication finds each image of its document on the node or sends it
  (`SendImage`) before `PublishNode` sets the override. A pass without the image
  is `AgentLacksImage`; one that reconciles runs `Care` before its report
  (`AgentSettles`, `AgentSick`), or part of it (`AgentCareFails`);
  `AgentCaresAgain` is the cleanup of a node that stays settled, which repeats
  the report when something was removed or an hour is over. `Care` is composed
  from the operators of `DiskCare`: `Upsert` moves what was reconciled to the
  front of the store, `RetainedReleases` keeps the `Keep` newest of every
  environment and what is reconciled now, `PruneCandidates` is the rest, and
  `DropRemovedImages` forgets what was removed. An image is the commit it is
  tagged with, and the environments share it, as they share the project.

Merged steps: `status` reads the state file twice without the lock, and the model
once; `ingress set` reads and writes `devopsellence.yml` in one step (the edit that
`secret set` loses is in `ConfigWrite`); an uninstallation runs its script at once,
and a second, full one after one with `--keep-workloads` is left out; an SSH error
after the override was written leaves the node `behind` like one before it. `Write`
always writes: the code's refuses what `normalizeState` refuses, and `FileReadable`
shows that there is no such file.

`behind` is a history variable: the nodes that a command has not brought to the
file, or not yet. `ReleaseLog` has only `StartDeploy`, `StartRollback` and `End`;
the refinement maps its variables to the fields of `file`, so every write of the
file by any command must be one of these or change nothing of them.

### SharedWorkflow

A command is a sequence of stages; `Programs` lists them. `Call` is one request:
refused with 401 when the access token is not accepted, and then, in the stages
that retry, repeated once with what `Authenticate` finds on the disk or gets by a
refresh. `Truncate` and `WriteFile` are the two steps of writing `auth.json`,
between which a process can die (`Torn`). `srv` holds accounts, grants (a pair of
tokens with its generation), organizations, projects, environments, releases and
deployments. `AccessExpires` ends the hour of an access token, `RefreshExpires` the 30
days of a refresh token that was not used (`expired`, `lapsed`): the refresh is then
refused like that of a revoked session, and a deploy creates an anonymous account and
writes it over the session. Every poll of a deployment has its own retry after a 401.
`overlap` is a history variable: `SessionKept`, `AccountKept` and
`TornFailsClosed` speak of commands one after the other, since nothing locks the
file; `NothingTwice` and `OwnOutcome` hold of overlapping ones too.

Every organization has one member, and one name stands for the project of the
workspace. Build and push are one step; sign-in in the browser is another.
`ResolveDeployTarget` is one step. In the code the organization is found or created
outside the advisory lock (`deploy_targets_controller.rb:71-134`), so two inits of one
user can create two, and a provisioning that fails leaves organization or project
behind; no property speaks of either.

## 3. What TLC checks

| run | instance | properties | distinct states |
|---|---|---|---|
| `rollout_faults` | 1 deployment, 2 job threads, 1 request, 2 faults, fairness | `TerminalIffFinished`, `FinishedIsFinal`, `SchedulingEnds` | 0.35 M |
| `rollout_task` | 2 deployments of 2 revisions, one with a release task | `TypeOK`, `TaskBeforeRollout`, `SettledWasReconciled` | 5.5 M |
| `rollout_task_report` | agent as it is, fairness | `TaskSuccessIsRecorded`: violated | |
| `rollout_immutable` | 2 job threads, 2 deployments | `ImmutableDocuments`: violated | |
| `node_faults` | a service of any of 2 web, 1 broken and 1 worker hashes, beside a worker or alone, without TLS and with mode auto, 2 of 4 documents, 2 faults, fairness | `TypeOK`, `SettledIsExact`, `WorkerNeverDoubled`, `DrainsWhatEnvoyLeft`, `Converges`, `RoutedStaysRouted` | 1.1 M |
| `node_health_gate` | one restart, one broken release | `HealthGated`: violated | |
| `agent_session` | 2 bundles, 2 sequences, both backends, 1 fault, 1 expiry | `TypeOK`, `OwnDocument`, `FloorReachable`, `CacheCoversGeneration`, `IdentityFollowsTarget`, `SessionKept`, `NoRollback` | 7.7 M |
| `agent_converges` | 1 bundle, 2 sequences, 2 bootstrap tokens, 1 fault, 1 expiry, 1 diagnosis, fairness | `Converges`, `DiagnosisClaimed` | 1.6 M |
| `solo_release` | 1 environment, 2 nodes, 2 processes, 4 commands among deploy, rollback, status, 1 fault, no deadlines | `PublishedMatchesState`, `FileReadable`, `SettlesWhatIsPublished`, `RefinesReleaseLog` | 0.3 M |
| `solo_fleet` | 2 environments on 2 nodes with a release task, 2 commits, 2 processes, 3 commands of all kinds, 1 fault | `TypeOK`, `PublishedMatchesState`, `SafeImagesStay`, `RefinesReleaseLog` | 1.1 M |
| `solo_recovery` | 1 node, 2 processes, 4 commands | `CurrentIsLatestSettled`: violated | |
| `shared_cli` | 2 processes, 2 commands of all kinds, 1 fault, 1 expiry | `TypeOK`, `NothingTwice`, `OwnOutcome`, `SessionKept`, `AccountKept`, `TornFailsClosed` | 1.7 M |

What the properties of the newer modules say:

* `PublishedMatchesState`: the document on a node is the one computed from the
  file of now, except on nodes a command is at work on or left unfinished. It
  fails when one command forgets a node whose document its change shows on.
* `SafeImagesStay`: between the look at a node's images and the agent's coming to
  the new document, no cleanup removes an image the document needs, if the image
  lay within the window of some environment (a detached one included), or was
  unknown to the store, for every document the agent may load until then. The
  condition is needed: of an image beyond the window that the node still has, the
  look can come before the cleanup and the document after it. The agent then
  fails with the image missing until the next publication sends it.
* `RefinesReleaseLog`: whole-file writes by overlapping commands never take back
  a release or a deployment, number two alike, or end one twice.
* `FileReadable`: no order of commands computes a file that the check before the
  write refuses, when the nodes have been published to already.
* `SettlesWhatIsPublished`: a deployment settles while its documents are on its
  nodes. Said of the document the *agent* has loaded it would be false: a node
  that goes to another document and back between the baseline and the
  publication has a later status of the same revision.
* `OwnDocument`: whatever is assigned during a fetch, the document is of the
  bundle the fetch was for. The one exception it names is real: the in-memory
  fallback compares addresses, and a standalone control plane has one for all.
* `FloorReachable`, `IdentityFollowsTarget`, `CacheCoversGeneration`: what is
  kept from an earlier moment (floor, Google token, generation) fits what it is
  used with later.
* `NoRollback`: fallbacks and restarts never bring back an older document of a
  bundle, unless the cache file could not be written.
* `SessionKept` (agent): outside an operation, memory and file have the pair the
  control plane accepts, unless an answer or a save was lost. (CLI): the same of
  `auth.json` after commands that end.
* `Converges` (agent): once faults and publications are over, the node has the
  latest document, unless it is locked out (a rotation whose answer was lost and
  no bootstrap token left), the envelope's day has passed, or an override stands.
* `RoutedStaysRouted`: until the first fault no replacement of a service, its own
  or another, takes its endpoint away, and Envoy goes on routing to it, except when
  `Ensure` makes Envoy anew because it has to publish other ports: a document whose
  ingress comes to want TLS, or the certificate it waited for, costs every service
  its route until the new Envoy has loaded the snapshot.
* `HealthGated`: no endpoint moves to a container that runs and has not answered
  since it was started. A container that answered and exited before the endpoint
  moved is no violation: that race no agent can win.
* `OwnOutcome`: a publish is answered with the deployment its request token already
  has in the environment, whatever release it was sent for. That a deploy waits for
  the deployment of its own release rests on the token being the command's own.
* `AccountKept`: one command at a time and without a lost answer, a session that the
  control plane would still refresh is never overwritten with that of another
  account, except by `auth login`. Past the 30 days it is, and by design.
* `NothingTwice`: the request token is drawn once per deploy, so a publish served
  and repeated makes one deployment; the release is not repeated after it was made.

Bounds. A hazard of the rollout needs two actors on one deployment (two job
threads, or a job and a request) or two deployments of which one is late; the
instances have that many, and a sequence bound that lets each publish once or
twice. `rollout_faults` and `rollout_task` have one node: what a second node
adds is independent status rows and documents, and the theorems of section 4
hold for any number. `node_faults` has two documents, so that a release replaces
one that a failure left half done, two faults of any kind, so that one hits the
repair of another, and three addresses, so that an address can be reused; one
document in mode auto makes Envoy change its ports within a pass (the certificate
comes between the two calls of `Ensure`), in a later one, or back. An
agent needs two bundles for a reassignment, two sequences for an older document
and one fault (a lost answer is one) between; a second bootstrap token is a
reinstallation. In the solo runs four commands are enough for an interrupted
one, two that overlap and one that meets what they left; two releases to go back
to the first. `Keep = 1` (the default is 11) makes the window end
within two releases. `solo_release` leaves rollout deadlines out: a status that
cannot be read ends a wait at the same point and in the same way, and
`solo_fleet` and `solo_recovery` have them. In the shared run two commands, since a command alone has up to
twenty steps; `Pairs` names the ones that overlap (those that share what they
write), and any command may follow any other. Symmetry is used for
interchangeable job threads, requests, processes and commits, never in a
liveness run.

Deadlock. The rollout's and the solo system may stop (all deployments made, all
commands run), so it is not checked there. The agent ticks for ever, so in
`NodeReconcile` and `AgentSession` deadlock is an error; in `SharedWorkflow` a
command that can neither go on nor end is one, and the end of all commands is
the action `Finished`.

Fairness. `rollout_faults` assumes that job threads, recovery and requests keep
going (`ServerFairness`: Solid Queue's threads and its recurring task), nothing
about users, agents or faults. `rollout_task_report` adds that agents tick and
that some of the reports they repeat get through, so that the counterexample is
not a lost report. `node_faults` assumes that the agent's loop and Envoy keep
going and that a sound application comes up. `agent_converges` assumes that
systemd restarts the process, that the refresh timer and the loop's ticker fire,
that a request is answered or times out, and that a token the server no longer
accepts expires like any other; fetch and sync take the same mutex, and Go's
mutex hands itself over to a waiter that has waited for a millisecond, which is
why these two have strong fairness.

### What was found

1. *The success of a release task is not reported* (`rollout_task_report`).
   `reconcileOnce` passes `suppressSuccessReport = true`, so the control plane,
   which waits for a settled task report, never publishes the runtime.
2. *Two documents under one sequence* (`rollout_immutable`). Two jobs that
   publish to a node at a time both use the next sequence; an agent that has
   read the first never reads the second.
3. *Cutover without health check* (`node_health_gate`). A container that runs
   with the wanted hash is taken for one that was cut over. In the behaviour TLC
   finds the agent is restarted while it waits for the health of the container it
   has just created; the next pass lists it as running and moves the endpoint to it
   before its application has answered.
4. *An old rollback made current* (`solo_recovery`). `status` reads file and
   nodes without the lock. If a deploy begins and settles before `status` writes,
   the recovery of an interrupted rollback still goes ahead and makes the
   rollback's release current.

## 4. What is proved

### DeploymentRollout

`DeploymentRolloutProofs` proves, for any set of nodes, releases, revisions, job
threads and requests, any bounds, and either value of `TaskSuccessReported`,
from the assumption `RolloutAssumption` alone:

* `Invariance`: `Spec => []IInv`;
* `TypeCorrect`, `TerminalCorrect`, `TaskFirst`, `SettledCorrect`: `Spec`
  implies `[]` of `TypeOK`, `TerminalIffFinished`, `TaskBeforeRollout`,
  `SettledWasReconciled`;
* `FinalCorrect`: `Spec => FinishedIsFinal`.

None of the properties is inductive: each depends on what processes remember.
`IInv` adds

* `RowInv`: a row in `scheduling` is not finished, `finished_at` agrees with the
  status where there is no release task, and a task recorded as succeeded ran;
* `StatusInv`: status rows exist only for deployments that left `scheduling`;
* `LockInv`: no two jobs hold the lock of one deployment;
* `WorkerInv`: what a job remembers is of the row's release and unfinished, and
  it remembers `scheduling` only while the row still says so. This is the fact
  that makes partial updates safe: a job's stale copy can only differ from the
  row in columns the job does not write;
* `RequestInv`: a request's copy is of a deployment that left `scheduling`, is
  coherent, and its report is backed by what the node did;
* `AgentInv`, `CurrentInv`: documents carry known releases, and
  `current_release` with a task has had its task run.

The proof has one lemma per action, each split into the conjuncts the action
can disturb; lemmas about `Save` and about frames are shared.

### NodeReconcile

`NodeReconcileProofs` proves, for any services, specifications, addresses and
documents and any number of faults:

* `PassInvariance`: `Spec => []IInv`;
* `NodeTypes`, `SettledExactly`, `WorkersAlone`: `Spec` implies `[]` of `TypeOK`,
  `SettledIsExact`, `WorkerNeverDoubled`;
* `DrainsLeft`, `RoutesAreKept`: `Spec` implies `DrainsWhatEnvoyLeft`,
  `RoutedStaysRouted`.

It assumes that the specifications of web services and the broken ones are
specifications, that the names for "none" are not names of anything, and that
documents are functions from services to specifications.

`IInv` follows the pass through its services. Before a service is reached the
engine holds of it what the pass listed (`AheadOK`); of the one being reconciled
it holds at most the wanted container and what is still to be drained (`CurOK`); of
one that is done exactly the wanted container (`DoneOK`); while pruning, what the
document does not name is on the list of what goes (`PruneOK`). `OneWorker` says of
containers, stopped ones included, what `WorkerNeverDoubled` says of running ones; it
needs `PassOK`: a worker is created when nothing of its service is left to drain.
`EngineOK` says that an address belongs to one running container, and `RouteOK` that
the address an endpoint moves to is of no container that will be drained. `CleanOK`
is what holds until the first fault. `LastOK`, which only `RoutesAreKept` needs, is an
invariant on top of `IInv`: until the first fault only services that the manager's last
ingress routes to have an endpoint in memory, so the snapshot that `Ensure` pushes with
the routes of the ingress before takes none from a service that keeps its route.

The proof of `RoutedStaysRouted` failed first: the property then said only that a
routed service stays routed, and the open case had two web services and a document
that leaves one of them out and a later one that names it again. While Envoy still
has the old route loaded, the next snapshot no longer names the container. TLC
confirms the case with two web services. The property now says of a service that is
named by the snapshot Envoy loads next that it stays named, and of one that is routed
besides that it stays routed, or Envoy is made anew for other ports.

### AgentSession

`AgentSessionProofs` proves, for either runtime backend and any bounds:

* `SessionInvariance`: `Spec => []IInv`;
* `SessionTypes`, `DeliversItsOwn`, `FloorsAreReachable`, `CacheIsNotStale`,
  `IdentityIsCurrent`, `SessionIsKept`: `Spec` implies `[]` of `TypeOK`,
  `OwnDocument`, `FloorReachable`, `CacheCoversGeneration`,
  `IdentityFollowsTarget`, `SessionKept`;
* `NeverRollsBack`: `Spec => NoRollback`.

The agent keeps five things that it took from the control plane's row at some time:
its state in memory and on disk, the snapshot and document of a fetch in progress,
and the copies of the document in its cache and its file. The invariant says of each what it
may say, relative to the row (`StateOK`, `FetchOK`, `CopyOK`), and one relation,
`Grows`, says what the control plane ever does to the row: generations and bundles
are never taken again, and the sequence of a bundle does not fall. Each part is shown
to survive `Grows` once; an action of the agent then has only to establish the parts
it writes. `CacheFits`, `SessionOK` and `DeliveryOK` relate two of the five.

### SoloWorkflow

`SoloWorkflowProofs`, `SoloDocumentProofs`, `DiskCareProofs` and `SoloImageProofs`
prove, for any number of nodes, environments, processes, commits, releases, commands
and faults, and for any window of retained releases:

* `FileInvariance`: `Spec => []FInv`, and from it `FilesAreReadable`
  (`Spec => []FileReadable`) and `FileIsALog` (`Spec => RefinesReleaseLog`: the
  initial states map to those of `ReleaseLog` and every step to a step or a stutter);
* `DocumentInvariance`: `Spec => []IInv`, and from it `DocumentsMatch`
  (`Spec => []PublishedMatchesState`) and `SettlesItsOwn`
  (`Spec => SettlesWhatIsPublished`);
* `ImageInvariance`: `Spec => [](IInv /\ ImageInv /\ CountsOK)`, and from it `ImagesStay`
  (`Spec => []SafeImagesStay`) and `SoloTypes` (`Spec => []TypeOK`);
* `CareSettles`, of `DiskCare` alone: after a cleanup of which nothing failed, the same
  document leaves no candidate, and cleaning up again changes neither the store of
  revisions nor the images. The runs of every few minutes come to rest.

*The file.* A command reads the state file, works on its copy for many steps and
writes the copy as a whole. That a stale copy never undoes what another wrote rests
on the lock, and `FInv` says how: for every place the holder of the lock can be at,
which copy it holds is the file of now, and by what the one it is about to write
differs from it. Of a process without the lock nothing is needed: `status` is the
only one of several steps, and it reads the file again before it writes. The
sequence of a deployment is one more than the largest; that such a maximum exists is
the minimum of a well-founded relation.

*The documents.* `DInv` adds the hosts: the plan of the holder is of the file of now
or of the one it is about to write, its nodes are all `behind`, and a node it is done
with has what was planned. The lemmas `SameDoc`, `OneEnv` and `Alike` say when two
files stand for the same document of a node, so that a write of the file (a release
made current, a node detached, a secret set) moves only the nodes it has to.

*Disk care.* `Kept`, which selects records from a sequence, is a recursive function, and
what it selects is an induction over the sequence. The library's induction theorems take
an operator, which no prover here can instantiate; `DiskCareProofs` states them with sets
instead (`NatSet`, `SeqSet`: a set of sequences that has the empty one, and with every
one the longer ones, has them all) and needs them only to describe `Kept` by positions:
it keeps the order, drops what is not asked for and loses nothing else. From there on
everything is first-order: what comes to the front of a list (`FrontNewest`), that to
come twice is to come once (`UpsertTwice`), and that a cleanup only thins out a store
(`Thins`: a list loses records, but none of an image that stays, so that image moves no
further back).

*The images.* That an image is on the node is not inductive: the next cleanup decides by
the store, and the store changes with each document the agent comes to. `ImageInv` says
that an image noted as safe is there and `Safe` still: spared by the store after the
document that is loaded, by the one after the document in the override file, and by the
one after both. Every step of an agent is `Gentle`: it keeps what is there and safe (a
load turns three stores into one of them, a cleanup, whichever part of it fails, thins
them out, an uninstallation empties them). Publishing is not gentle in general; it puts
the images of the new document first, and these are the only ones that the holder of the
lock, the one process that publishes, has noted. Hence `SentOK` says that what was sent is
in the plan of its node, and only the holder has sent anything.

### SharedWorkflow

`SharedWorkflowProofs` proves, for any number of processes and whatever the commands,
faults and expiries are bounded by:

* `Invariants`: `Spec => []IInv`;
* `TypesHold`, `NothingHappensTwice`, `OutcomeIsItsOwn`, `SessionIsKept`,
  `AccountIsKept`: `Spec` implies `[]` of `TypeOK`, `NothingTwice`,
  `OwnOutcome`, `SessionKept`, `AccountKept`;
* `TornFileFailsClosed`: `Spec => TornFailsClosed`.

It assumes that the bounds are numbers and, in `TornAssumption`, that a file
`os.WriteFile` has truncated and not yet written is neither an absent file nor one
with a session, which is what `json.Unmarshal` of an empty file comes to.

`IInv` is the conjunction of two invariants:

* `TInv` holds under every interleaving. The rows of the control plane point to rows
  that exist; no two processes run the same command; and the stages a command still
  has before it say what it has done: no release of its own as long as `release` is
  ahead (`Before`), a project that exists once `target` is behind (`Resolved`), its own
  release in hand at `publish` (`Releasing`), the deployment of that release at `poll`
  (`Polling`), and none of these stages any more after that (`Plain`). So a release is made once, because the stage that made it is behind the
  command as soon as the answer is there; and a publication that is sent again, after a
  refused token or a timeout, finds the deployment of its request token.
  `OwnOutcome` needs besides that all deployments with the command's request token are
  of its release and in the environment it resolved (`InItsEnv`), so that whichever of
  them the server answers a repeated publish with is the right one.
* `SInv` says what the file and the process know of one session, while no two commands
  overlap: a process that goes on from a session read a file that is readable; and, as
  long as no fault occurred, at every step of `persist` which of the two has the tokens
  the server expects next (`Fresh`), that `bootstrap` is reached only from a session
  that is `Dead`, and that the file is half written only between the two steps of the
  process that writes it. A session is `Dead` when its row is revoked or its refresh
  token has expired, not when its tokens are out of date or its access token has
  expired: only the former leaves the CLI nothing to refresh.

A command is a list of stages and an effect on the server; the proof has lemmas on the
lists (what dropping, replacing or inserting a stage does to the place of a command),
on the server (every request only `Grows` the tables and at most one adds a release),
and one per step of the session.

### Only model-checked

* Liveness under fairness, which TLAPS cannot do: `SchedulingEnds`, `Converges` of
  `NodeReconcile` and of `AgentSession`, `DiagnosisClaimed`.

## 5. Plan

Proofs: every safety property of the passing runs is stated by a theorem. What is added
to the models below needs its place in the inductive invariants.

Models: `RunTask` with its container and the support services in
`NodeReconcile`; the grace period and suppression of reports in
`DeploymentRollout`, with a clock; the pool of warm bundles and servers (claims,
leases, size).

## 6. Not modelled

* *Hazards seen and left without a property*, because the code has no answer to
  them and a property would only restate that: a worker that dies after its
  deployment became `rolling_out`, and a web process that dies between recording
  a release task and enqueuing the publication, leave the deployment where it is;
  an interrupted solo deploy stays `running`, since its expected revision is one
  no node reports; a server of the provider whose registration is interrupted
  stays; `ingress set` beside `secret set` loses one of the two edits of
  `devopsellence.yml`; a diagnosis whose result is lost stays claimed.
* *Cryptography*: envelopes, signatures and digests are accepted or refused.
* *The token of a GCE metadata server*, an alternative to the exchange of
  `AgentSession`; *registry credentials* for pulling an image; the *resolution of
  a deploy target* against a control plane without that endpoint.
* *Runtime bundles, DNS, certificates and ACME, warm servers, maintenance jobs*:
  their behaviour is that of cloud services; only their answers would be modelled.
* *Of disk care*: the measured size of container logs, a corrupt store, and
  protected images other than Envoy's; disk care of a node in shared mode, where
  images are pulled from a registry and a removed one is pulled again.
* *Configuration and the command line*: parsing, validation and normalisation of
  `devopsellence.yml`, output, prompts, doctor, logs, exec, support bundles.
* Web pages, Docker's and Envoy's internals, wall-clock time.
