--------------------------- MODULE NodeReconcile ---------------------------
(***************************************************************************)
(* One node: the agent's Reconciler (agent/internal/reconcile), the Envoy  *)
(* manager with its xDS server (agent/internal/envoy), the containers of   *)
(* the Docker engine, and the applications in them.                        *)
(*                                                                         *)
(* A specification of a service is named by its runtime hash, and at most  *)
(* one container of a service carries a given hash, so a container is a    *)
(* pair of a service and a hash.  The reconciler is one goroutine; the     *)
(* interleaving is with the applications, with Envoy, which loads the xDS  *)
(* snapshot in its own time, with new desired states, and with restarts of *)
(* the agent, which forget the manager's endpoints but no container.       *)
(***************************************************************************)
EXTENDS Naturals, FiniteSets, Functions

CONSTANTS
  Services,        \* names of the services, qualified by their environment
  Specs,           \* runtime hashes of service specifications
  WebSpecs,        \* the specifications of kind web
  BrokenSpecs,     \* the specifications whose health check never succeeds
  DesiredStates,   \* the documents the node may be given: its services and
                   \* the TLS mode of its public ingress
  IPs,             \* addresses of the environment's network
  NoSpec, NoIP, Default, NoService,
  MaxDeploys,      \* bound: changes of the desired state
  MaxFaults        \* bound: restarts of the agent, calls that fail, probes
                   \* that time out, applications and Envoy exiting

Containers == Services \X Specs
Clusters   == Services \cup {Default}
Modes      == {"off", "manual", "auto"}

ASSUME SpecAssumption == WebSpecs \subseteq Specs /\ BrokenSpecs \subseteq Specs
ASSUME NameAssumption == /\ NoSpec \notin Specs /\ NoIP \notin IPs
                         /\ Default \notin Services /\ NoService \notin Services
ASSUME DesiredAssumption ==
  DesiredStates \subseteq [Services -> Specs \cup {NoSpec}] \X Modes
ASSUME BoundAssumption == /\ MaxDeploys \in Nat /\ MaxFaults \in Nat

VARIABLES
  desired,   \* the document the authority answers with: its services
  tls,       \* and the TLS mode of its ingress
  state,     \* the engine's state of each container
  ip,        \* the address of each running container
  up,        \* whether its application answers the health check
  envoy,     \* what the running Envoy container was created with: "http" or
             \* "https", the ports it publishes, "outdated", or "none"
  eds,       \* the endpoints Envoy routes to, by cluster
  cert,      \* whether the ingress certificate and its key are on disk
  serving,   \* whether the agent's xDS server is listening
  snap,      \* the snapshot in the xDS server
  last,      \* Manager.lastEndpoints
  routes,    \* the services that Manager.lastIngress has routes to
  pc,        \* where the reconciler is
  want,      \* the document being reconciled
  mode,      \* and the TLS mode of its ingress
  seen,      \* what ListManaged returned
  todo,      \* the services not yet reconciled
  cur,       \* the service being reconciled
  fresh,     \* whether the container of cur was created by this pass
  addr,      \* the address the endpoint is about to be moved to
  stale,     \* the containers still to be stopped and removed
  failed,    \* reconcileErr # nil
  deploys, faults   \* how often each bounded event occurred

engineVars == <<state, ip, up>>
envoyVars  == <<envoy, eds, cert>>
xdsVars    == <<serving, snap, last, routes>>
passVars   == <<want, mode, seen, todo, cur, fresh, addr, stale, failed>>
vars == <<desired, tls, engineVars, envoyVars, xdsVars, pc, passVars,
          deploys, faults>>

States    == {"absent", "stopped", "running"}
NoRoutes  == [c \in Clusters |-> NoIP]
Current   == <<cur, want[cur]>>
IsWeb(s)  == want[s] \in WebSpecs
Of(s)     == {c \in Containers : c[1] = s}
Listed(C) == {c \in C : seen[c] # "absent"}

(* The pass returns, or dies with the agent: its local variables are gone. *)
PassOver ==
  /\ pc' = "idle"
  /\ seen' = [c \in Containers |-> "absent"] /\ todo' = {} /\ stale' = {}
  /\ cur' = NoService /\ fresh' = FALSE /\ addr' = NoIP /\ failed' = FALSE

(* reconcileService returns, with an error or not.                         *)
ServiceOver(err) ==
  /\ pc' = "pick" /\ failed' = (failed \/ err)
  /\ cur' = NoService /\ fresh' = FALSE /\ addr' = NoIP /\ stale' = {}

(* An engine call fails, or something takes longer than it may.            *)
Fault == faults < MaxFaults /\ faults' = faults + 1

-----------------------------------------------------------------------------
(* The Docker engine.  Starting a running container changes nothing; one   *)
(* that starts gets any free address of the network.                       *)
FreeIPs == IPs \ Range(ip)

Started(c) ==
  IF state[c] = "running" THEN UNCHANGED engineVars
  ELSE /\ state' = [state EXCEPT ![c] = "running"]
       /\ \E a \in FreeIPs : ip' = [ip EXCEPT ![c] = a]
       /\ up' = [up EXCEPT ![c] = FALSE]

Ended(c, s) ==
  /\ state' = [state EXCEPT ![c] = s]
  /\ ip' = [ip EXCEPT ![c] = NoIP]
  /\ up' = [up EXCEPT ![c] = FALSE]

(* stopAndRemove; when it fails the container was stopped or was not.      *)
StopAndRemove(c) == Ended(c, "absent")

StopAndRemoveFails(c) ==
  \/ UNCHANGED engineVars
  \/ state[c] = "running" /\ seen[c] = "running" /\ Ended(c, "stopped")

-----------------------------------------------------------------------------
(* Variant: only the routed clusters are kept.                             *)
SnapshotEndpointsRoutedOnly(e) == [c \in routes |-> e[c]]

(* envoy.Manager.  A snapshot keeps the endpoints of the default cluster   *)
(* and of the clusters that the last ingress ensured has routes to.        *)
SnapshotEndpoints(e) ==
  [c \in Clusters |-> IF c = Default \/ c \in routes THEN e[c] ELSE NoIP]

(* The ingress of a document routes to its web services.                   *)
RoutesOf(d) == {s \in Services : d[s] \in WebSpecs}

(* Whether a health probe through Envoy's default listener is answered.    *)
Answers ==
  envoy # "none" /\ \E c \in Containers : up[c] /\ ip[c] = eds[Default]

(* The ports Envoy is to publish: that of HTTPS only with a certificate,   *)
(* which in mode auto may not be there yet.                                *)
Ports == IF mode = "manual" \/ (mode = "auto" /\ cert) THEN "https" ELSE "http"

-----------------------------------------------------------------------------
(* The agent's tick: the desired state has been fetched and validated.     *)
Tick ==
  /\ pc = "idle"
  /\ pc' = "list" /\ want' = desired /\ mode' = tls
  /\ UNCHANGED <<desired, tls, engineVars, envoyVars, xdsVars, seen, todo, cur,
                 fresh, addr, stale, failed, deploys, faults>>

(* Variant: ListManaged leaves out the stopped containers.                 *)
ListRunning ==
  /\ pc = "list"
  /\ pc' = "pick" /\ failed' = FALSE
  /\ seen' = [c \in Containers |->
                IF state[c] = "running" THEN "running" ELSE "absent"]
  /\ todo' = {s \in Services : want[s] # NoSpec}
  /\ UNCHANGED <<desired, tls, engineVars, envoyVars, xdsVars, want, mode, cur,
                 fresh, addr, stale, deploys, faults>>

(* ensureRuntimeNetworks, then ListManaged.                                *)
List ==
  /\ pc = "list"
  /\ pc' = "pick" /\ seen' = state /\ failed' = FALSE
  /\ todo' = {s \in Services : want[s] # NoSpec}
  /\ UNCHANGED <<desired, tls, engineVars, envoyVars, xdsVars, want, mode, cur,
                 fresh, addr, stale, deploys, faults>>

(* The services are taken in the order of a Go map.  ensureImage.          *)
Pick(s) ==
  /\ pc = "pick" /\ s \in todo
  /\ cur' = s /\ todo' = todo \ {s} /\ fresh' = FALSE
  /\ stale' = Listed(Of(s)) \ {<<s, want[s]>>}
  /\ pc' = IF IsWeb(s) THEN "ensure" ELSE "apply"
  /\ UNCHANGED <<desired, tls, engineVars, envoyVars, xdsVars, want, mode,
                 seen, addr, failed, deploys, faults>>

(* Variant: a running Envoy is never taken for the one that is needed.     *)
EnsureAnew ==
  /\ pc \in {"ensure", "reensure"}
  /\ pc' = IF pc = "ensure" THEN "certify" ELSE "apply"
  /\ serving' = TRUE /\ last' = SnapshotEndpoints(last) /\ snap' = last'
  /\ envoy' = Ports /\ eds' = NoRoutes
  /\ routes' = RoutesOf(want)
  /\ UNCHANGED <<desired, tls, engineVars, cert, passVars, deploys, faults>>

(* Manager.Ensure, before the certificate and again after it: the xDS      *)
(* server is started, the endpoints in memory are pushed with the routes   *)
(* of the last ingress, and Envoy is created, or removed and created anew  *)
(* when it publishes other ports or was made with another configuration;   *)
(* then the ingress becomes the last one.                                  *)
Ensure ==
  /\ pc \in {"ensure", "reensure"}
  /\ pc' = IF pc = "ensure" THEN "certify" ELSE "apply"
  /\ serving' = TRUE /\ last' = SnapshotEndpoints(last) /\ snap' = last'
  /\ IF envoy = Ports THEN UNCHANGED <<envoy, eds>>
     ELSE envoy' = Ports /\ eds' = NoRoutes
  /\ routes' = RoutesOf(want)
  /\ UNCHANGED <<desired, tls, engineVars, cert, passVars, deploys, faults>>

(* The image cannot be pulled, or Ensure fails: before the snapshot is     *)
(* pushed, or after it, with Envoy as it was, removed, or not yet ready.   *)
EnsureFails ==
  /\ pc \in {"ensure", "reensure"} /\ Fault
  /\ \/ UNCHANGED <<serving, snap, last, envoy, eds>>
     \/ /\ serving' = TRUE /\ last' = SnapshotEndpoints(last) /\ snap' = last'
        /\ \/ UNCHANGED <<envoy, eds>>
           \/ envoy # Ports /\ envoy' \in {"none", Ports} /\ eds' = NoRoutes
  /\ ServiceOver(TRUE)
  /\ UNCHANGED <<desired, tls, engineVars, cert, routes, want, mode, seen,
                 todo, deploys>>

(* IngressCert.Ensure: in mode auto a certificate is obtained, or is not,  *)
(* which is no error; in the other modes nothing is done.                  *)
EnsureCert ==
  /\ pc = "certify"
  /\ pc' = "reensure"
  /\ cert' \in IF mode = "auto" THEN {cert, TRUE} ELSE {cert}
  /\ UNCHANGED <<desired, tls, engineVars, envoy, eds, xdsVars, passVars,
                 deploys, faults>>

(* Variant: a container that runs alone is taken for one Envoy routes to.  *)
ApplyWebOnce ==
  /\ pc = "apply" /\ IsWeb(cur)
  /\ IF seen[Current] = "running"
     THEN /\ pc' = IF stale = {} THEN "drain" ELSE "inspect"
          /\ fresh' = FALSE /\ UNCHANGED engineVars
     ELSE pc' = "health" /\ fresh' = (seen[Current] = "absent") /\ Started(Current)
  /\ UNCHANGED <<desired, tls, envoyVars, xdsVars, want, mode, seen, todo, cur,
                 addr, stale, failed, deploys, faults>>

(* reconcileWebService up to cutoverWeb: a container of the hash that was  *)
(* listed as running is kept, one listed as stopped is started, and        *)
(* otherwise one is created next to those of other hashes.                 *)
ApplyWeb ==
  /\ pc = "apply" /\ IsWeb(cur)
  /\ IF seen[Current] = "running"
     THEN pc' = "inspect" /\ fresh' = FALSE /\ UNCHANGED engineVars
     ELSE pc' = "health" /\ fresh' = (seen[Current] = "absent") /\ Started(Current)
  /\ UNCHANGED <<desired, tls, envoyVars, xdsVars, want, mode, seen, todo, cur,
                 addr, stale, failed, deploys, faults>>

(* Variant: the replacement is started before the others are removed.      *)
ApplyOtherAtOnce ==
  /\ pc = "apply" /\ ~IsWeb(cur)
  /\ pc' = "drain"
  /\ Started(Current)
  /\ UNCHANGED <<desired, tls, envoyVars, xdsVars, passVars, deploys, faults>>

(* reconcileService for the other kinds: a container of the hash is kept   *)
(* or started and the others go; without one, all go before one is made.   *)
ApplyOther ==
  /\ pc = "apply" /\ ~IsWeb(cur)
  /\ pc' = "drain"
  /\ IF seen[Current] = "stopped" THEN Started(Current)
     ELSE UNCHANGED engineVars
  /\ UNCHANGED <<desired, tls, envoyVars, xdsVars, passVars, deploys, faults>>

(* Start fails, or CreateAndStart does: before the container is created,   *)
(* or between create and start, which leaves it stopped.  Nothing is torn  *)
(* down.                                                                   *)
StartFails ==
  /\ \/ pc = "create"
     \/ pc = "apply" /\ seen[Current] = "stopped"
     \/ pc = "apply" /\ seen[Current] = "absent" /\ IsWeb(cur)
  /\ Fault
  /\ \/ UNCHANGED engineVars
     \/ state[Current] = "absent" /\ Ended(Current, "stopped")
  /\ ServiceOver(TRUE)
  /\ UNCHANGED <<desired, tls, envoyVars, xdsVars, want, mode, seen, todo,
                 deploys>>

-----------------------------------------------------------------------------
(* cutoverWeb.  What follows a failure: the container this pass created is *)
(* torn down, one that was there is left as it is.                         *)
CutoverFails ==
  /\ IF fresh
     THEN pc' = "teardown" /\ UNCHANGED <<cur, fresh, addr, stale, failed>>
     ELSE ServiceOver(TRUE)
  /\ UNCHANGED <<desired, tls, engineVars, want, mode, seen, todo, deploys>>

(* webContainerIP without waiting: any running container will do.          *)
Inspect ==
  /\ pc = "inspect" /\ state[Current] = "running"
  /\ pc' = "update" /\ addr' = ip[Current]
  /\ UNCHANGED <<desired, tls, engineVars, envoyVars, xdsVars, want, mode,
                 seen, todo, cur, fresh, stale, failed, deploys, faults>>

(* Variant: a container that runs is taken for healthy.                    *)
WaitRunning ==
  /\ pc = "health" /\ state[Current] = "running"
  /\ pc' = "update" /\ addr' = ip[Current]
  /\ UNCHANGED <<desired, tls, engineVars, envoyVars, xdsVars, want, mode,
                 seen, todo, cur, fresh, stale, failed, deploys, faults>>

(* waitHealthy: a probe of the container itself succeeds.                  *)
WaitHealthy ==
  /\ pc = "health" /\ up[Current]
  /\ pc' = "update" /\ addr' = ip[Current]
  /\ UNCHANGED <<desired, tls, engineVars, envoyVars, xdsVars, want, mode,
                 seen, todo, cur, fresh, stale, failed, deploys, faults>>

(* The container exited, or the retries are used up: always for a broken   *)
(* specification, within the bound for one that is slow to start.          *)
WaitFails ==
  /\ \/ /\ pc \in {"inspect", "health"} /\ state[Current] # "running"
        /\ UNCHANGED faults
     \/ /\ pc = "health" /\ want[cur] \in BrokenSpecs
        /\ UNCHANGED faults
     \/ pc \in {"inspect", "health"} /\ Fault
  /\ CutoverFails
  /\ UNCHANGED <<envoyVars, xdsVars>>

(* UpdateClusterEDS: the service's cluster and, for the probe, the default *)
(* one; the endpoints are in memory even when no snapshot can be built.    *)
MoveEndpoints ==
  SnapshotEndpoints([last EXCEPT ![cur] = addr, ![Default] = addr])

(* Variant: the snapshot is not applied.                                   *)
UpdateClusterEDSUnapplied ==
  /\ pc = "update"
  /\ pc' = "route" /\ last' = MoveEndpoints
  /\ UNCHANGED <<desired, tls, engineVars, envoyVars, serving, snap, routes,
                 passVars, deploys, faults>>

UpdateClusterEDS ==
  /\ pc = "update"
  /\ pc' = "route" /\ last' = MoveEndpoints /\ snap' = last'
  /\ UNCHANGED <<desired, tls, engineVars, envoyVars, serving, routes,
                 passVars, deploys, faults>>

UpdateClusterEDSFails ==
  /\ pc = "update" /\ Fault
  /\ last' = [last EXCEPT ![cur] = addr, ![Default] = addr]
  /\ CutoverFails
  /\ UNCHANGED <<envoyVars, serving, snap, routes>>

(* WaitForRoute: Envoy answers the health path; a first timeout restarts   *)
(* Envoy, a second one is the error.                                       *)
WaitForRoute ==
  /\ pc \in {"route", "reroute"} /\ Answers
  /\ pc' = "drain"
  /\ UNCHANGED <<desired, tls, engineVars, envoyVars, xdsVars, passVars,
                 deploys, faults>>

RouteTimeout == \/ Fault
                \/ eds = snap /\ ~Answers /\ UNCHANGED faults

RestartEnvoy ==
  /\ pc = "route" /\ RouteTimeout
  /\ pc' = "reroute" /\ envoy' = Ports /\ eds' = NoRoutes
  /\ last' = SnapshotEndpoints(last) /\ snap' = last'
  /\ UNCHANGED <<desired, tls, engineVars, cert, serving, routes, passVars,
                 deploys>>

RestartEnvoyFails ==
  /\ pc = "route" /\ Fault
  /\ \/ UNCHANGED envoyVars
     \/ eds' = NoRoutes /\ envoy' \in {"none", Ports} /\ cert' = cert
  /\ CutoverFails
  /\ UNCHANGED xdsVars

WaitForRouteFails ==
  /\ pc = "reroute" /\ RouteTimeout
  /\ CutoverFails
  /\ UNCHANGED <<envoyVars, xdsVars>>

(* tearDownFailedContainer ignores the errors of Stop and of Remove.       *)
TearDown ==
  /\ pc = "teardown"
  /\ \/ Ended(Current, "absent") /\ UNCHANGED faults
     \/ Fault /\ (\/ UNCHANGED engineVars
                  \/ state[Current] = "running" /\ Ended(Current, "stopped"))
  /\ ServiceOver(TRUE)
  /\ UNCHANGED <<desired, tls, envoyVars, xdsVars, want, mode, seen, todo,
                 deploys>>

-----------------------------------------------------------------------------
(* Containers of other hashes, after DrainDelay for a web service, which   *)
(* is taken to be long enough for Envoy to have loaded the snapshot (or to *)
(* have been started anew).                                                *)
DrainDelayOver == IsWeb(cur) => eds \in {snap, NoRoutes}

Drain(c) ==
  /\ pc = "drain" /\ c \in stale /\ DrainDelayOver
  /\ stale' = stale \ {c} /\ StopAndRemove(c)
  /\ UNCHANGED <<desired, tls, envoyVars, xdsVars, pc, want, mode, seen, todo,
                 cur, fresh, addr, failed, deploys, faults>>

DrainFails(c) ==
  /\ pc = "drain" /\ c \in stale /\ DrainDelayOver /\ Fault
  /\ StopAndRemoveFails(c)
  /\ ServiceOver(TRUE)
  /\ UNCHANGED <<desired, tls, envoyVars, xdsVars, want, mode, seen, todo,
                 deploys>>

DrainEnds ==
  /\ pc = "drain" /\ stale = {}
  /\ IF ~IsWeb(cur) /\ seen[Current] = "absent"
     THEN pc' = "create" /\ UNCHANGED <<cur, fresh, addr, stale, failed>>
     ELSE ServiceOver(FALSE)
  /\ UNCHANGED <<desired, tls, engineVars, envoyVars, xdsVars, want, mode,
                 seen, todo, deploys, faults>>

(* CreateAndStart of a service that is not web.                            *)
Create ==
  /\ pc = "create"
  /\ Started(Current) /\ ServiceOver(FALSE)
  /\ UNCHANGED <<desired, tls, envoyVars, xdsVars, want, mode, seen, todo,
                 deploys, faults>>

(* Networks that cannot be ensured, or that Envoy cannot be attached to,   *)
(* end the pass.                                                           *)
NetworksFail ==
  /\ pc = "list" /\ Fault /\ PassOver
  /\ UNCHANGED <<desired, tls, engineVars, envoyVars, xdsVars, want, mode,
                 deploys>>

(* ensureImage: an image that cannot be pulled fails its service.          *)
ImageFails ==
  /\ pc = "apply" /\ ~IsWeb(cur) /\ Fault
  /\ ServiceOver(TRUE)
  /\ UNCHANGED <<desired, tls, engineVars, envoyVars, xdsVars, want, mode,
                 seen, todo, deploys>>

(* All services are done: the containers of services that are no longer    *)
(* wanted are pruned, unless a service failed.                             *)
ServicesEnd ==
  /\ pc = "pick" /\ todo = {}
  /\ IF failed THEN PassOver
     ELSE /\ pc' = "prune"
          /\ stale' = {c \in Listed(Containers) : want[c[1]] = NoSpec}
          /\ UNCHANGED <<seen, todo, cur, fresh, addr, failed>>
  /\ UNCHANGED <<desired, tls, engineVars, envoyVars, xdsVars, want, mode,
                 deploys, faults>>

Prune(c) ==
  /\ pc = "prune" /\ c \in stale
  /\ stale' = stale \ {c} /\ StopAndRemove(c)
  /\ UNCHANGED <<desired, tls, envoyVars, xdsVars, pc, want, mode, seen, todo,
                 cur, fresh, addr, failed, deploys, faults>>

PruneFails(c) ==
  /\ pc = "prune" /\ c \in stale /\ Fault
  /\ StopAndRemoveFails(c)
  /\ PassOver
  /\ UNCHANGED <<desired, tls, envoyVars, xdsVars, want, mode, deploys>>

PruneEnds ==
  /\ pc = "prune" /\ stale = {}
  /\ pc' = "settled"
  /\ UNCHANGED <<desired, tls, engineVars, envoyVars, xdsVars, passVars,
                 deploys, faults>>

(* The settled report goes out; the agent waits for its ticker.            *)
ReportSettled ==
  /\ pc = "settled"
  /\ PassOver
  /\ UNCHANGED <<desired, tls, engineVars, envoyVars, xdsVars, want, mode,
                 deploys, faults>>

-----------------------------------------------------------------------------
(* The agent's process dies at any point and is started again: what the    *)
(* reconciler and the manager had in memory is gone, the xDS server with   *)
(* it; Envoy and the containers go on.  The agent that is started may want *)
(* Envoy with another bootstrap, health check or log configuration.        *)
AgentRestart ==
  /\ Fault
  /\ PassOver
  /\ serving' = FALSE /\ snap' = NoRoutes /\ last' = NoRoutes /\ routes' = {}
  /\ envoy' \in IF envoy = "none" THEN {"none"} ELSE {envoy, "outdated"}
  /\ UNCHANGED <<desired, tls, engineVars, eds, cert, want, mode, deploys>>

(* Envoy loads the snapshot of the xDS server it is connected to.          *)
EnvoyLoads ==
  /\ envoy # "none" /\ serving /\ eds # snap
  /\ eds' = snap
  /\ UNCHANGED <<desired, tls, engineVars, envoy, cert, xdsVars, pc, passVars,
                 deploys, faults>>

(* Envoy exits and its restart policy starts it again, unconfigured.       *)
EnvoyExits ==
  /\ envoy # "none" /\ Fault
  /\ eds' = NoRoutes
  /\ UNCHANGED <<desired, tls, engineVars, envoy, cert, xdsVars, pc, passVars,
                 deploys>>

(* The application of a sound specification starts to answer.              *)
AppUp(c) ==
  /\ state[c] = "running" /\ ~up[c] /\ c[2] \notin BrokenSpecs
  /\ up' = [up EXCEPT ![c] = TRUE]
  /\ UNCHANGED <<desired, tls, state, ip, envoyVars, xdsVars, pc, passVars,
                 deploys, faults>>

(* The application exits; service containers have no restart policy.       *)
AppExits(c) ==
  /\ state[c] = "running" /\ Fault
  /\ Ended(c, "stopped")
  /\ UNCHANGED <<desired, tls, envoyVars, xdsVars, pc, passVars, deploys>>

(* A new document is published for the node.                               *)
Deploy(d) ==
  /\ deploys < MaxDeploys /\ d # <<desired, tls>>
  /\ deploys' = deploys + 1 /\ desired' = d[1] /\ tls' = d[2]
  /\ UNCHANGED <<engineVars, envoyVars, xdsVars, pc, passVars, faults>>

-----------------------------------------------------------------------------
Init ==
  /\ desired = [s \in Services |-> NoSpec] /\ tls = "off"
  /\ state = [c \in Containers |-> "absent"]
  /\ ip = [c \in Containers |-> NoIP]
  /\ up = [c \in Containers |-> FALSE]
  /\ envoy = "none" /\ eds = NoRoutes /\ cert = FALSE
  /\ serving = FALSE /\ snap = NoRoutes /\ last = NoRoutes /\ routes = {}
  /\ pc = "idle" /\ want = [s \in Services |-> NoSpec] /\ mode = "off"
  /\ seen = [c \in Containers |-> "absent"]
  /\ todo = {} /\ cur = NoService /\ fresh = FALSE /\ addr = NoIP
  /\ stale = {} /\ failed = FALSE
  /\ deploys = 0 /\ faults = 0

CutoverNext ==
  \/ Inspect \/ WaitHealthy \/ WaitFails
  \/ UpdateClusterEDS \/ UpdateClusterEDSFails
  \/ WaitForRoute \/ RestartEnvoy \/ RestartEnvoyFails \/ WaitForRouteFails
  \/ TearDown

ReconcileNext ==
  \/ Tick \/ List \/ (\E s \in Services : Pick(s))
  \/ Ensure \/ EnsureFails \/ EnsureCert
  \/ ApplyWeb \/ ApplyOther \/ StartFails \/ CutoverNext
  \/ (\E c \in Containers : Drain(c) \/ DrainFails(c)) \/ DrainEnds
  \/ Create \/ NetworksFail \/ ImageFails \/ ServicesEnd
  \/ (\E c \in Containers : Prune(c) \/ PruneFails(c)) \/ PruneEnds
  \/ ReportSettled

EnvironmentNext ==
  \/ AgentRestart \/ EnvoyLoads \/ EnvoyExits
  \/ \E c \in Containers : AppUp(c) \/ AppExits(c)
  \/ \E d \in DesiredStates : Deploy(d)

Next == ReconcileNext \/ EnvironmentNext

Spec == Init /\ [][Next]_vars

(***************************************************************************)
(* The agent's ticker and goroutine keep going, Envoy keeps reading its    *)
(* xDS stream, and the application of a sound specification comes up.      *)
(***************************************************************************)
Fairness ==
  /\ WF_vars(ReconcileNext)
  /\ WF_vars(EnvoyLoads)
  /\ \A c \in Containers : WF_vars(AppUp(c))

FairSpec == Spec /\ Fairness

-----------------------------------------------------------------------------
(* The types of the variables: the engine's states, the endpoint tables of *)
(* Envoy, of the xDS server and of the manager, and the reconciler's pass. *)
TypeOK ==
  /\ desired \in [Services -> Specs \cup {NoSpec}] /\ tls \in Modes
  /\ state \in [Containers -> States]
  /\ ip \in [Containers -> IPs \cup {NoIP}]
  /\ up \in [Containers -> BOOLEAN]
  /\ envoy \in {"none", "http", "https", "outdated"} /\ cert \in BOOLEAN
  /\ serving \in BOOLEAN /\ routes \subseteq Services
  /\ eds \in [Clusters -> IPs \cup {NoIP}]
  /\ snap \in [Clusters -> IPs \cup {NoIP}]
  /\ last \in [Clusters -> IPs \cup {NoIP}]
  /\ pc \in {"idle", "list", "pick", "ensure", "certify", "reensure", "apply",
            "inspect", "health", "update", "route", "reroute", "teardown",
            "drain", "create", "prune", "settled"}
  /\ want \in [Services -> Specs \cup {NoSpec}] /\ mode \in Modes
  /\ seen \in [Containers -> States]
  /\ todo \subseteq Services
  /\ cur \in Services \cup {NoService}
  /\ fresh \in BOOLEAN /\ failed \in BOOLEAN
  /\ addr \in IPs \cup {NoIP}
  /\ stale \subseteq Containers
  /\ deploys \in 0 .. MaxDeploys /\ faults \in 0 .. MaxFaults

(***************************************************************************)
(* What a settled report stands for: when Reconcile returns without an     *)
(* error, the containers of the node are exactly those of the document, so *)
(* nothing a crashed or failed earlier pass left behind is still there.    *)
(***************************************************************************)
SettledIsExact ==
  pc = "settled" =>
    {c \in Containers : state[c] # "absent"} =
      {<<s, want[s]>> : s \in {t \in Services : want[t] # NoSpec}}

(***************************************************************************)
(* "non-web services stop existing containers before starting              *)
(* replacements" (docs/solo-production.md): two containers of a service    *)
(* that are not web never run side by side, whatever a failed or           *)
(* interrupted pass left, and even if the service changes its kind.        *)
(***************************************************************************)
WorkerNeverDoubled ==
  \A s \in Services : \A c, e \in Of(s) :
    state[c] = "running" /\ state[e] = "running"
      /\ c[2] \notin WebSpecs /\ e[2] \notin WebSpecs => c = e

(* Envoy routes cluster k to a container whose application answers.        *)
RoutesTo(k, c) == envoy # "none" /\ up[c] /\ ip[c] = eds[k]
Routed(s) == \E c \in Of(s) : RoutesTo(s, c)

(***************************************************************************)
(* reconcileWebService drains a container only after Envoy left it: no     *)
(* step that drains containers of a web service ends one that Envoy still  *)
(* routes the service's requests, or those of the default listener, to.    *)
(***************************************************************************)
DrainsWhatEnvoyLeft ==
  [][\A c \in Containers :
       pc = "drain" /\ IsWeb(cur) /\ c \in stale /\ state'[c] = "absent"
         => ~RoutesTo(cur, c) /\ ~RoutesTo(Default, c)]_vars

(* The snapshot that Envoy loads next names one as well.                   *)
Named(s) == \E c \in Of(s) : up[c] /\ ip[c] = snap[s]

(***************************************************************************)
(* As long as no call has failed and no process has died, a web service    *)
(* that the snapshot names goes on being named: not while it or another    *)
(* service is replaced, nor when the new version never becomes healthy     *)
(* (TestReconcileWebUpdateFailureKeepsOldContainer) does it lose its       *)
(* endpoint.  And Envoy goes on routing to it, but for the one step in     *)
(* which Ensure removes an Envoy that publishes other ports than those the *)
(* ingress and its certificate ask for, and creates it anew.               *)
(***************************************************************************)
RoutedStaysRouted ==
  [][\A s \in Services :
       faults' = 0 /\ Named(s) /\ IsWeb(s) /\ (IsWeb(s))'
         => /\ (Named(s))'
            /\ Routed(s) => (Routed(s))' \/ (envoy # Ports /\ envoy' = Ports)
    ]_vars

(* The node is as the document says, and Envoy routes to its web services. *)
Realised ==
  \A s \in Services :
    /\ {c \in Of(s) : state[c] # "absent"} =
         IF desired[s] = NoSpec THEN {} ELSE {<<s, desired[s]>>}
    /\ desired[s] # NoSpec => state[<<s, desired[s]>>] = "running"
    /\ desired[s] \in WebSpecs => RoutesTo(s, <<s, desired[s]>>)

(***************************************************************************)
(* The reconciler converges: once documents, faults and exits stop, a      *)
(* document without broken specification is realised and stays so, from    *)
(* whatever the crashes and errors before left on the node.                *)
(***************************************************************************)
Converges ==
  <>[](Range(desired) \cap BrokenSpecs = {} => Realised)

(***************************************************************************)
(* "web services use health-gated cutover" (docs/solo-production.md): the  *)
(* endpoint of a service never moves to a container that runs and whose    *)
(* application has not answered a health check since it was started.       *)
(***************************************************************************)
HealthGated ==
  [][\A s \in Services :
       snap'[s] # snap[s] /\ snap'[s] # NoIP
         => \A c \in Of(s) : ip[c] = snap'[s] => up[c]]_vars
=============================================================================
