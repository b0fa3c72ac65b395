------------------------ MODULE NodeReconcileProofs ------------------------
(***************************************************************************)
(* Theorems about NodeReconcile, for every set of services, specifications *)
(* and documents and any number of deployments and faults.                 *)
(*                                                                         *)
(* The inductive invariant says what the list a pass was begun with still  *)
(* is worth: of a service that was not reached yet the engine has what was *)
(* listed, of the service being reconciled nothing but its container and   *)
(* those to be drained, and of one that is done, unless a service failed,  *)
(* exactly the container of its specification.  Restarts, failing calls    *)
(* and exits take nothing of this away, as they end the pass, set failed,  *)
(* or leave a stopped container where there was a running one.             *)
(***************************************************************************)
EXTENDS NodeReconcile, TLAPS

-----------------------------------------------------------------------------
(* The inductive invariant *)

There(c) == state[c] # "absent"

\* The steps of cutoverWeb, and all those that are about the service cur.
Cutover == {"inspect", "health", "update", "route", "reroute", "teardown"}
Ensuring == {"ensure", "certify", "reensure"}
Busy    == Cutover \cup Ensuring \cup {"apply", "drain", "create"}
Listing == pc \notin {"idle", "list"}

\* Addresses are given to running containers, each to one.
EngineOK ==
  /\ \A c \in Containers : /\ state[c] = "running" <=> ip[c] # NoIP
                           /\ up[c] => state[c] = "running" /\ c[2] \notin BrokenSpecs
  /\ \A c, e \in Containers : ip[c] = ip[e] /\ ip[c] # NoIP => c = e

\* A service never has two containers that are not web, stopped ones included.
OneWorker ==
  \A c, e \in Containers :
    c[1] = e[1] /\ There(c) /\ There(e) /\ c[2] \notin WebSpecs /\ e[2] \notin WebSpecs => c = e

\* Where the pass is.
PassOK ==
  /\ pc \in Busy => cur \in Services /\ want[cur] # NoSpec /\ cur \notin todo
  /\ pc \in Cutover \cup Ensuring => IsWeb(cur)
  /\ pc = "create" => ~IsWeb(cur) /\ stale = {}
  /\ pc \in {"prune", "settled"} => ~failed /\ todo = {}
  /\ pc = "settled" => stale = {}
  /\ Listing => \A s \in todo : want[s] # NoSpec

\* Of what the pass has not come to, the engine has what was listed.
AheadOK ==
  Listing => \A c \in Containers :
    c[1] \in todo \/ (want[c[1]] = NoSpec /\ pc \notin {"prune", "settled"})
      => (There(c) <=> seen[c] # "absent")

\* Of the service it is at, what is to be drained, and its container.
CurOK ==
  pc \in Busy =>
    /\ \A c \in Containers : c[1] = cur /\ There(c) => c \in stale \/ c = Current
    /\ \A c \in stale : c[1] = cur /\ c # Current
    /\ pc \in Ensuring \cup {"apply"} => (There(Current) <=> seen[Current] # "absent")
    /\ pc \in Cutover => There(Current)
    /\ pc = "drain" /\ (IsWeb(cur) \/ seen[Current] # "absent") => There(Current)

\* Of what it is done with, exactly what is wanted.
Done(s) == want[s] # NoSpec /\ s \notin todo /\ (pc \in Busy => s # cur)
DoneOK ==
  Listing /\ ~failed => \A c \in Containers : Done(c[1]) => (There(c) <=> c[2] = want[c[1]])

PruneOK ==
  pc \in {"prune", "settled"} =>
    /\ \A c \in Containers : There(c) /\ want[c[1]] = NoSpec => c \in stale
    /\ \A c \in stale : want[c[1]] = NoSpec

\* The address the endpoint moves to is of no container that will be drained,
\* and what was pushed has it.  Once Envoy is ensured the last ingress is the
\* document's.
Moving == pc \in {"update", "route", "reroute"} \/ (pc = "drain" /\ IsWeb(cur))
RouteOK ==
  /\ Moving => \A c \in Containers : c # Current /\ state[c] = "running" => ip[c] # addr
  /\ Moving /\ pc # "update" => last = snap /\ snap[cur] = addr /\ snap[Default] = addr
  /\ pc \in Cutover \ {"teardown"} \/ (pc = "apply" /\ IsWeb(cur))
       => envoy # "none" /\ routes = RoutesOf(want)

\* Before the first fault nothing has stopped, and web containers answer.
CleanOK ==
  faults = 0 =>
    /\ last = snap
    /\ \A c \in Containers : state[c] # "stopped" /\ seen[c] # "stopped"
    /\ \A c \in Containers :
         There(c) /\ c[2] \in WebSpecs => up[c] \/ (pc \in {"health", "teardown"} /\ c = Current)
    /\ Moving => ip[Current] = addr
    /\ pc = "health" => fresh
    /\ pc = "teardown" => want[cur] \in BrokenSpecs

IInv ==
  /\ TypeOK /\ EngineOK /\ OneWorker /\ PassOK /\ AheadOK /\ CurOK /\ DoneOK /\ PruneOK
  /\ RouteOK /\ CleanOK

-----------------------------------------------------------------------------
(* The engine *)

LEMMA ContainersAre ==
  /\ \A c \in Containers : c[1] \in Services /\ c[2] \in Specs /\ c = <<c[1], c[2]>>
  /\ \A s \in Services, x \in Specs : <<s, x>> \in Containers
BY DEF Containers

LEMMA CurrentIn ==
  ASSUME IInv, pc \in Busy
  PROVE  Current \in Containers /\ Current[1] = cur /\ Current[2] = want[cur] /\ cur \in Services
<1>1. cur \in Services /\ want[cur] \in Specs
  BY DEF IInv, PassOK, TypeOK
<1> QED BY <1>1, ContainersAre DEF Current

EngineTypes ==
  /\ state \in [Containers -> States]
  /\ ip \in [Containers -> IPs \cup {NoIP}]
  /\ up \in [Containers -> BOOLEAN]

\* Only container c is touched.
Only(c) ==
  \A d \in Containers \ {c} : state'[d] = state[d] /\ ip'[d] = ip[d] /\ (up'[d] <=> up[d])

LEMMA EndedOK ==
  ASSUME EngineTypes, EngineOK, NEW c \in Containers, NEW s \in {"absent", "stopped"}, Ended(c, s)
  PROVE  EngineTypes' /\ EngineOK' /\ Only(c) /\ state'[c] = s
<1>1. EngineTypes'
  BY DEF Ended, EngineTypes, States
<1>2. Only(c) /\ state'[c] = s /\ ip'[c] = NoIP /\ ~up'[c]
  BY DEF Ended, EngineTypes, Only
<1>3. EngineOK'
  BY <1>2 DEF EngineOK, Only
<1> QED BY <1>1, <1>2, <1>3

LEMMA StartedOK ==
  ASSUME EngineTypes, EngineOK, NEW c \in Containers, Started(c)
  PROVE  /\ EngineTypes' /\ EngineOK' /\ Only(c) /\ state'[c] = "running"
         /\ state[c] = "running" => UNCHANGED engineVars
<1>1. CASE state[c] = "running"
  BY <1>1 DEF Started, engineVars, EngineTypes, EngineOK, Only
<1>2. CASE state[c] # "running"
  <2>1. PICK a \in FreeIPs : ip' = [ip EXCEPT ![c] = a]
    BY <1>2 DEF Started
  <2>2. a \in IPs /\ a # NoIP /\ \A d \in Containers : ip[d] # a
    BY <2>1, NameAssumption DEF FreeIPs, Range, EngineTypes
  <2>3. state' = [state EXCEPT ![c] = "running"] /\ up' = [up EXCEPT ![c] = FALSE]
    BY <1>2 DEF Started
  <2>4. EngineTypes'
    BY <2>1, <2>2, <2>3 DEF EngineTypes, States
  <2>5. Only(c) /\ state'[c] = "running" /\ ip'[c] = a /\ ~up'[c]
    BY <2>1, <2>3 DEF EngineTypes, Only
  <2>6. EngineOK'
    BY <2>2, <2>5 DEF EngineOK, Only
  <2> QED BY <1>2, <2>4, <2>5, <2>6
<1> QED BY <1>1, <1>2

LEMMA EngineSame ==
  ASSUME EngineTypes, EngineOK, OneWorker, UNCHANGED engineVars
  PROVE  EngineTypes' /\ EngineOK' /\ OneWorker'
BY DEF engineVars, EngineTypes, EngineOK, OneWorker, There

LEMMA FaultOK ==
  ASSUME TypeOK, Fault
  PROVE  faults' \in 0..MaxFaults /\ faults' # 0
BY BoundAssumption DEF TypeOK, Fault

LEMMA EngineTyped == IInv => EngineTypes
BY DEF IInv, TypeOK, EngineTypes

\* A container is stopped or removed: no new one is there.
LEMMA EndedWorkers ==
  ASSUME IInv, NEW c \in Containers, NEW s \in {"absent", "stopped"}, Ended(c, s),
         There(c) \/ s = "absent" \/ c[2] \in WebSpecs
  PROVE  EngineTypes' /\ EngineOK' /\ Only(c) /\ state'[c] = s /\ OneWorker'
<1>1. EngineTypes' /\ EngineOK' /\ Only(c) /\ state'[c] = s
  BY EngineTyped, EndedOK DEF IInv
<1>2. OneWorker'
  BY <1>1 DEF IInv, OneWorker, There, Only
<1> QED BY <1>1, <1>2

-----------------------------------------------------------------------------
(* Frames *)

\* The pass is over.
LEMMA IdleAgain ==
  ASSUME TypeOK', EngineOK', OneWorker', CleanOK', pc' \in {"idle", "list"}
  PROVE  IInv'
BY DEF IInv, PassOK, AheadOK, CurOK, DoneOK, PruneOK, RouteOK, Listing, Busy, Cutover, Ensuring, Moving

\* A service is done with, and failed.
LEMMA FailsAndGoesOn ==
  ASSUME IInv, pc \in Busy, pc' = "pick", failed' = TRUE, UNCHANGED <<want, seen, todo>>,
         \A d \in Containers : d[1] # cur => (There(d)' <=> There(d)),
         TypeOK', EngineOK', OneWorker', CleanOK'
  PROVE  IInv'
<1>1. PassOK' /\ CurOK' /\ DoneOK' /\ PruneOK' /\ RouteOK'
  BY DEF IInv, PassOK, CurOK, DoneOK, PruneOK, RouteOK, Listing, Busy, Cutover, Ensuring, Moving
<1>2. AheadOK'
  BY DEF IInv, PassOK, AheadOK, Listing, Busy, Cutover, Ensuring
<1> QED BY <1>1, <1>2 DEF IInv

\* Nothing the reconciler or the engine has changes.
LEMMA Beside ==
  ASSUME IInv, UNCHANGED <<engineVars, xdsVars, pc, passVars>>, TypeOK',
         envoy # "none" => envoy' # "none", faults' = faults \/ faults' # 0
  PROVE  IInv'
<1>1. EngineOK' /\ OneWorker'
  BY EngineTyped, EngineSame DEF IInv
<1>2. PassOK' /\ AheadOK' /\ CurOK' /\ DoneOK' /\ PruneOK'
  BY DEF IInv, PassOK, AheadOK, CurOK, DoneOK, PruneOK, Done, Listing, There, Current, IsWeb,
         engineVars, passVars
<1>3. RouteOK' /\ CleanOK'
  BY DEF IInv, RouteOK, CleanOK, There, Current, IsWeb, Moving, engineVars, passVars, xdsVars
<1> QED BY <1>1, <1>2, <1>3 DEF IInv

-----------------------------------------------------------------------------
(* The reconciler's steps *)

LEMMA TickStep ==
  ASSUME IInv, Tick
  PROVE  IInv'
<1>1. TypeOK'
  BY DEF IInv, TypeOK, Tick, engineVars, envoyVars, xdsVars
<1>2. EngineOK' /\ OneWorker'
  BY EngineSame DEF IInv, TypeOK, EngineTypes, Tick
<1>3. pc = "idle" /\ pc' = "list"
  BY DEF Tick
<1>4. PassOK' /\ AheadOK' /\ CurOK' /\ DoneOK' /\ PruneOK' /\ RouteOK'
  BY <1>3 DEF PassOK, AheadOK, CurOK, DoneOK, PruneOK, RouteOK, Listing, Busy, Cutover, Ensuring, Moving
<1>5. CleanOK'
  BY <1>3 DEF IInv, CleanOK, There, Moving, Tick, engineVars, xdsVars
<1> QED BY <1>1, <1>2, <1>4, <1>5 DEF IInv

LEMMA ListStep ==
  ASSUME IInv, List
  PROVE  IInv'
<1>1. TypeOK'
  BY DEF IInv, TypeOK, List, engineVars, envoyVars, xdsVars
<1>2. EngineOK' /\ OneWorker'
  BY EngineSame DEF IInv, TypeOK, EngineTypes, List
<1>3. pc = "list" /\ pc' = "pick"
  BY DEF List
<1>4. PassOK' /\ CurOK' /\ PruneOK' /\ RouteOK'
  BY <1>3 DEF List, PassOK, CurOK, PruneOK, RouteOK, Busy, Cutover, Ensuring, Moving
<1>5. AheadOK'
  BY DEF List, AheadOK, There, engineVars
<1>6. DoneOK'
  BY ContainersAre DEF List, DoneOK, Done, IInv, TypeOK
<1>7. CleanOK'
  BY <1>3 DEF IInv, CleanOK, There, Moving, List, engineVars, xdsVars
<1> QED BY <1>1, <1>2, <1>4, <1>5, <1>6, <1>7 DEF IInv

LEMMA PickStep ==
  ASSUME IInv, NEW s \in Services, Pick(s)
  PROVE  IInv'
<1>1. TypeOK'
  BY DEF IInv, TypeOK, Pick, Listed, Of, engineVars, envoyVars, xdsVars
<1>2. EngineOK' /\ OneWorker'
  BY EngineTyped, EngineSame DEF IInv, Pick
<1>3. /\ pc = "pick" /\ pc' \in {"ensure", "apply"} /\ (IsWeb(s) <=> pc' = "ensure")
      /\ s \in todo /\ want[s] # NoSpec /\ cur' = s /\ todo' = todo \ {s}
      /\ UNCHANGED <<want, seen, state, ip, up, failed, last, snap, faults>>
  BY DEF Pick, IInv, PassOK, Listing, engineVars, xdsVars
<1>4. PassOK' /\ PruneOK' /\ RouteOK'
  BY <1>3 DEF IInv, PassOK, PruneOK, RouteOK, Listing, Busy, Cutover, Ensuring, Moving, IsWeb
<1>5. AheadOK'
  BY <1>3 DEF IInv, AheadOK, Listing, There
<1>6. CurOK'
  <2>1. stale' = {c \in Containers : c[1] = s /\ seen[c] # "absent"} \ {<<s, want[s]>>}
    BY DEF Pick, Listed, Of
  <2>2. Current' = <<s, want[s]>> /\ <<s, want[s]>> \in Containers
    BY <1>3, ContainersAre DEF Current, IInv, TypeOK
  <2>3. \A c \in Containers : c[1] = s => (There(c) <=> seen[c] # "absent")
    BY <1>3 DEF IInv, AheadOK, Listing
  <2> QED BY <1>3, <2>1, <2>2, <2>3 DEF CurOK, Cutover, There
<1>7. DoneOK'
  BY <1>3 DEF IInv, DoneOK, Done, Listing, Busy, Cutover, Ensuring, There
<1>8. CleanOK'
  BY <1>3 DEF IInv, CleanOK, There, Moving
<1> QED BY <1>1, <1>2, <1>4, <1>5, <1>6, <1>7, <1>8 DEF IInv

LEMMA SnapshotOK ==
  ASSUME NEW e \in [Clusters -> IPs \cup {NoIP}]
  PROVE  /\ SnapshotEndpoints(e) \in [Clusters -> IPs \cup {NoIP}]
         /\ SnapshotEndpoints(e)[Default] = e[Default]
         /\ \A s \in Services : s \in routes => SnapshotEndpoints(e)[s] = e[s]
         /\ \A s \in Services : SnapshotEndpoints(e)[s] # NoIP /\ s # Default
                                => s \in routes /\ SnapshotEndpoints(e)[s] = e[s]
BY DEF SnapshotEndpoints, Clusters

LEMMA PortsOK == Ports \in {"http", "https"}
BY DEF Ports

LEMMA EnsureStep ==
  ASSUME IInv, Ensure
  PROVE  IInv'
<1>1. /\ last' \in [Clusters -> IPs \cup {NoIP}] /\ snap' = last'
      /\ envoy' = Ports /\ eds' \in [Clusters -> IPs \cup {NoIP}]
  BY SnapshotOK DEF IInv, TypeOK, Ensure, NoRoutes
<1>2. /\ pc \in {"ensure", "reensure"} /\ pc' \in {"certify", "apply"}
      /\ Current' = Current /\ (IsWeb(cur)' <=> IsWeb(cur)) /\ routes' = RoutesOf(want)
      /\ UNCHANGED <<state, ip, up, want, mode, seen, todo, cur, fresh, addr, stale, failed, faults>>
      /\ UNCHANGED engineVars
  BY DEF Ensure, Current, IsWeb, engineVars, passVars
<1>3. TypeOK'
  <2>1. routes' \subseteq Services /\ envoy' \in {"http", "https"} /\ serving' = TRUE
        /\ UNCHANGED <<desired, tls, cert, deploys>>
    BY <1>1, <1>2, PortsOK DEF Ensure, RoutesOf
  <2> QED BY <1>1, <1>2, <2>1 DEF IInv, TypeOK
<1>4. EngineOK' /\ OneWorker'
  BY <1>2, EngineTyped, EngineSame DEF IInv
<1>5. PassOK' /\ PruneOK'
  BY <1>2 DEF IInv, PassOK, PruneOK, Listing, Busy, Cutover, Ensuring
<1>6. AheadOK' /\ CurOK' /\ DoneOK'
  BY <1>2 DEF IInv, AheadOK, CurOK, DoneOK, Done, Listing, There, Busy, Cutover, Ensuring
<1>7. RouteOK'
  <2>1. envoy' # "none" /\ routes' = RoutesOf(want')
    BY <1>1, <1>2, PortsOK
  <2> QED BY <1>2, <2>1 DEF RouteOK, Moving, Cutover
<1>8. CleanOK'
  BY <1>1, <1>2 DEF IInv, CleanOK, There, Moving, Cutover
<1> QED BY <1>3, <1>4, <1>5, <1>6, <1>7, <1>8 DEF IInv

LEMMA EnsureCertStep ==
  ASSUME IInv, EnsureCert
  PROVE  IInv'
<1>1. /\ pc = "certify" /\ pc' = "reensure" /\ cert' \in BOOLEAN
      /\ Current' = Current /\ (IsWeb(cur)' <=> IsWeb(cur))
      /\ UNCHANGED <<state, ip, up, want, seen, todo, cur, fresh, addr, stale, failed, faults, last, snap>>
      /\ UNCHANGED engineVars
  BY DEF EnsureCert, IInv, TypeOK, Current, IsWeb, engineVars, passVars, xdsVars
<1>2. TypeOK'
  BY <1>1 DEF IInv, TypeOK, EnsureCert, xdsVars, passVars
<1>3. EngineOK' /\ OneWorker'
  BY <1>1, EngineTyped, EngineSame DEF IInv
<1>4. PassOK' /\ PruneOK' /\ RouteOK'
  BY <1>1 DEF IInv, PassOK, PruneOK, RouteOK, Moving, Listing, Busy, Cutover, Ensuring
<1>5. AheadOK' /\ CurOK' /\ DoneOK'
  BY <1>1 DEF IInv, AheadOK, CurOK, DoneOK, Done, Listing, There, Busy, Cutover, Ensuring
<1>6. CleanOK'
  BY <1>1 DEF IInv, CleanOK, There, Moving
<1> QED BY <1>2, <1>3, <1>4, <1>5, <1>6 DEF IInv

LEMMA EnsureFailsStep ==
  ASSUME IInv, EnsureFails
  PROVE  IInv'
<1>1. faults' \in 0..MaxFaults /\ faults' # 0
  BY FaultOK DEF IInv, EnsureFails
<1>2. TypeOK'
  <2>1. /\ last' \in [Clusters -> IPs \cup {NoIP}] /\ snap' \in [Clusters -> IPs \cup {NoIP}]
        /\ eds' \in [Clusters -> IPs \cup {NoIP}] /\ serving' \in BOOLEAN
        /\ envoy' \in {"none", "http", "https", "outdated"}
    BY SnapshotOK, PortsOK DEF IInv, TypeOK, EnsureFails, NoRoutes
  <2> QED BY <1>1, <2>1 DEF IInv, TypeOK, EnsureFails, ServiceOver, engineVars
<1>3. EngineOK' /\ OneWorker'
  BY EngineTyped, EngineSame DEF IInv, EnsureFails
<1> QED BY <1>1, <1>2, <1>3, FailsAndGoesOn
        DEF EnsureFails, ServiceOver, Busy, Ensuring, CleanOK, There, engineVars

LEMMA ApplyWebStep ==
  ASSUME IInv, ApplyWeb
  PROVE  IInv'
<1>1. /\ pc = "apply" /\ IsWeb(cur) /\ Current' = Current /\ IsWeb(cur)'
      /\ UNCHANGED <<want, seen, todo, cur, stale, failed, last, snap, faults, envoy, routes>>
  BY DEF ApplyWeb, Current, IsWeb, envoyVars, xdsVars
<1>2. Current \in Containers /\ Current[1] = cur /\ Current[2] \in WebSpecs
  BY <1>1, CurrentIn DEF Busy, IsWeb
<1>3. /\ EngineTypes' /\ EngineOK' /\ Only(Current) /\ There(Current)'
      /\ pc' = "inspect" => UNCHANGED engineVars
      /\ pc' \in {"inspect", "health"} /\ (pc' = "health" => fresh' = (seen[Current] = "absent"))
  <2>1. CASE seen[Current] = "running"
    <3>1. There(Current)
      BY <1>1, <2>1 DEF IInv, CurOK, Busy
    <3> QED BY <1>1, <2>1, <3>1, EngineTyped, EngineSame DEF IInv, ApplyWeb, Only, engineVars, There
  <2>2. CASE seen[Current] # "running"
    BY <1>1, <1>2, <2>2, EngineTyped, StartedOK DEF IInv, ApplyWeb, There
  <2> QED BY <2>1, <2>2
<1>4. TypeOK'
  BY <1>3 DEF IInv, TypeOK, EngineTypes, ApplyWeb, envoyVars, xdsVars
<1>5. OneWorker'
  BY <1>2, <1>3 DEF IInv, OneWorker, There, Only
<1>6. PassOK' /\ PruneOK'
  BY <1>1, <1>3 DEF IInv, PassOK, PruneOK, Busy, Cutover, Ensuring, Listing, IsWeb
<1>7. AheadOK' /\ DoneOK'
  BY <1>1, <1>2, <1>3 DEF IInv, PassOK, AheadOK, DoneOK, Done, Busy, Cutover, Ensuring, Listing, Only, There
<1>8. CurOK'
  BY <1>1, <1>2, <1>3 DEF IInv, CurOK, Busy, Cutover, Ensuring, Only, There
<1>9. RouteOK'
  BY <1>1, <1>3 DEF IInv, RouteOK, Moving, Cutover
<1>10. CleanOK'
  <2>1. CASE pc' = "inspect"
    BY <1>1, <1>3, <2>1 DEF IInv, CleanOK, Moving, There, engineVars
  <2>2. CASE pc' = "health"
    <3>1. seen[Current] # "running"
      BY <1>1, <2>2 DEF ApplyWeb
    <3>2. faults = 0 => seen[Current] = "absent" /\ state'[Current] # "stopped"
      <4>1. state'[Current] = "running"
        BY <1>1, <1>2, <3>1, EngineTyped, StartedOK DEF IInv, ApplyWeb
      <4> QED BY <1>2, <3>1, <4>1 DEF IInv, CleanOK, TypeOK, States
    <3> QED BY <1>1, <1>2, <1>3, <2>2, <3>2 DEF IInv, CleanOK, Moving, Only, There
  <2> QED BY <1>3, <2>1, <2>2
<1> QED BY <1>3, <1>4, <1>5, <1>6, <1>7, <1>8, <1>9, <1>10 DEF IInv

LEMMA ApplyOtherStep ==
  ASSUME IInv, ApplyOther
  PROVE  IInv'
<1>1. /\ pc = "apply" /\ pc' = "drain" /\ ~IsWeb(cur) /\ Current' = Current /\ ~IsWeb(cur)'
      /\ UNCHANGED <<want, seen, todo, cur, stale, failed, last, snap, faults, envoy, routes>>
  BY DEF ApplyOther, Current, IsWeb, envoyVars, xdsVars, passVars
<1>2. Current \in Containers /\ Current[1] = cur /\ Current[2] \notin WebSpecs
  BY <1>1, CurrentIn DEF Busy, IsWeb
<1>3. There(Current) <=> seen[Current] # "absent"
  BY <1>1 DEF IInv, CurOK, Busy
<1>4. /\ EngineTypes' /\ EngineOK' /\ Only(Current) /\ (There(Current)' <=> There(Current))
      /\ state'[Current] \in {state[Current], "running"}
  <2>1. CASE seen[Current] = "stopped"
    BY <1>1, <1>2, <1>3, <2>1, EngineTyped, StartedOK DEF IInv, ApplyOther, There
  <2>2. CASE seen[Current] # "stopped"
    BY <1>1, <2>2, EngineTyped, EngineSame DEF IInv, ApplyOther, Only, engineVars, There
  <2> QED BY <2>1, <2>2
<1>5. TypeOK'
  BY <1>4 DEF IInv, TypeOK, EngineTypes, ApplyOther, envoyVars, xdsVars, passVars
<1>6. OneWorker'
  BY <1>1, <1>2, <1>4 DEF IInv, OneWorker, There, Only
<1>7. PassOK' /\ PruneOK' /\ RouteOK'
  BY <1>1 DEF IInv, PassOK, PruneOK, RouteOK, Moving, Busy, Cutover, Ensuring, Listing
<1>8. AheadOK' /\ DoneOK'
  BY <1>1, <1>2, <1>4 DEF IInv, PassOK, AheadOK, DoneOK, Done, Busy, Cutover, Ensuring, Listing, Only, There
<1>9. CurOK'
  BY <1>1, <1>2, <1>3, <1>4 DEF IInv, CurOK, Busy, Cutover, Ensuring, Only, There
<1>10. CleanOK'
  BY <1>1, <1>2, <1>4 DEF IInv, CleanOK, Moving, Only, There
<1> QED BY <1>4, <1>5, <1>6, <1>7, <1>8, <1>9, <1>10 DEF IInv

LEMMA StartFailsStep ==
  ASSUME IInv, StartFails
  PROVE  IInv'
<1>1. /\ pc \in Busy /\ pc' = "pick" /\ failed' = TRUE
      /\ UNCHANGED <<want, seen, todo>>
  BY DEF StartFails, ServiceOver, Busy
<1>2. faults' \in 0..MaxFaults /\ faults' # 0
  BY FaultOK DEF IInv, StartFails
<1>3. Current \in Containers /\ Current[1] = cur /\ Current[2] = want[cur]
  BY <1>1, CurrentIn
<1>4. EngineTypes' /\ EngineOK' /\ Only(Current) /\ OneWorker'
  <2>1. CASE UNCHANGED engineVars
    BY <2>1, EngineTyped, EngineSame DEF IInv, Only, engineVars
  <2>2. CASE state[Current] = "absent" /\ Ended(Current, "stopped")
    <3>1. EngineTypes' /\ EngineOK' /\ Only(Current)
      BY <1>3, <2>2, EngineTyped, EndedOK DEF IInv
    <3>2. \/ Current[2] \in WebSpecs
          \/ \A c \in Containers : c[1] = cur /\ There(c) => c = Current
      <4>1. CASE pc = "create"
        BY <1>1, <4>1 DEF IInv, CurOK, PassOK
      <4>2. CASE pc = "apply" /\ seen[Current] = "stopped"
        BY <1>1, <2>2, <4>2 DEF IInv, CurOK, There
      <4>3. CASE IsWeb(cur)
        BY <1>3, <4>3 DEF IsWeb
      <4> QED BY <4>1, <4>2, <4>3 DEF StartFails
    <3>3. OneWorker'
      BY <1>3, <3>1, <3>2 DEF IInv, OneWorker, There, Only
    <3> QED BY <3>1, <3>3
  <2> QED BY <2>1, <2>2 DEF StartFails
<1>5. TypeOK'
  BY <1>2, <1>4 DEF IInv, TypeOK, EngineTypes, StartFails, ServiceOver, envoyVars, xdsVars
<1> QED BY <1>1, <1>2, <1>3, <1>4, <1>5, FailsAndGoesOn DEF CleanOK, Only, There

-----------------------------------------------------------------------------
(* cutoverWeb *)

LEMMA CutoverFailsStep ==
  ASSUME IInv, CutoverFails, pc \in Cutover \ {"teardown"}, TypeOK',
         faults' # 0 \/ (faults' = faults /\ UNCHANGED <<last, snap>> /\ want[cur] \in BrokenSpecs
                         /\ pc = "health")
  PROVE  IInv'
<1>1. /\ pc \in Busy /\ UNCHANGED <<want, seen, todo, state, ip, up>>
      /\ IF fresh THEN pc' = "teardown" /\ UNCHANGED <<failed, cur, stale, fresh>>
         ELSE pc' = "pick" /\ failed' = TRUE
      /\ fresh => Current' = Current /\ (IsWeb(cur)' <=> IsWeb(cur))
  BY DEF CutoverFails, ServiceOver, Current, IsWeb, engineVars, Busy
<1>2. EngineOK' /\ OneWorker'
  BY EngineTyped, EngineSame DEF IInv, CutoverFails
<1>3. CleanOK'
  <2>1. CASE faults' # 0
    BY <2>1 DEF CleanOK
  <2>2. CASE faults' = 0
    <3>1. /\ faults = 0 /\ UNCHANGED <<last, snap>> /\ want[cur] \in BrokenSpecs /\ pc = "health"
          /\ fresh /\ Current' = Current /\ pc' = "teardown"
      BY <1>1, <2>2 DEF IInv, CleanOK
    <3> QED BY <1>1, <3>1 DEF IInv, CleanOK, Moving, There
  <2> QED BY <2>1, <2>2
<1>4. CASE ~fresh
  BY <1>1, <1>2, <1>3, <1>4, FailsAndGoesOn DEF There
<1>5. CASE fresh
  <2>1. PassOK' /\ PruneOK' /\ RouteOK'
    BY <1>1, <1>5 DEF IInv, PassOK, PruneOK, RouteOK, Moving, Busy, Cutover, Ensuring, Listing
  <2>2. AheadOK' /\ DoneOK' /\ CurOK'
    BY <1>1, <1>5 DEF IInv, AheadOK, DoneOK, CurOK, Done, Busy, Cutover, Ensuring, Listing, There
  <2> QED BY <1>2, <1>3, <2>1, <2>2 DEF IInv
<1> QED BY <1>4, <1>5

\* From one step of a cutover to the next, the engine untouched.
LEMMA CutoverFrame ==
  ASSUME IInv, pc \in Cutover \ {"teardown"}, pc' \in (Cutover \ {"teardown"}) \cup {"drain"},
         UNCHANGED engineVars, UNCHANGED <<want, seen, todo, cur, stale, failed>>,
         TypeOK', RouteOK', CleanOK'
  PROVE  IInv'
<1>1. Current' = Current /\ (IsWeb(cur)' <=> IsWeb(cur))
  BY DEF Current, IsWeb
<1>2. EngineOK' /\ OneWorker'
  BY EngineTyped, EngineSame DEF IInv
<1>3. PassOK' /\ PruneOK'
  BY <1>1 DEF IInv, PassOK, PruneOK, Busy, Cutover, Ensuring, Listing
<1>4. AheadOK' /\ DoneOK' /\ CurOK'
  BY <1>1 DEF IInv, AheadOK, DoneOK, CurOK, Done, Busy, Cutover, Ensuring, Listing, There, engineVars
<1> QED BY <1>2, <1>3, <1>4 DEF IInv

\* The address of the container is known: Inspect, or the probe succeeded.
LEMMA AddressStep ==
  ASSUME IInv, Inspect \/ WaitHealthy
  PROVE  IInv'
<1>1. /\ pc \in {"inspect", "health"} /\ pc' = "update" /\ addr' = ip[Current]
      /\ Current' = Current /\ (IsWeb(cur)' <=> IsWeb(cur))
      /\ UNCHANGED <<state, ip, up, want, seen, todo, cur, stale, failed, fresh, last, snap, envoy, routes, faults>>
      /\ UNCHANGED engineVars
  BY DEF Inspect, WaitHealthy, Current, IsWeb, engineVars, envoyVars, xdsVars
<1>2. Current \in Containers
  BY <1>1, CurrentIn DEF Busy, Cutover, Ensuring
<1>3. state[Current] = "running" /\ (pc = "health" => up[Current])
  BY <1>2 DEF Inspect, WaitHealthy, IInv, EngineOK
<1>4. ip[Current] \in IPs \cup {NoIP}
  BY <1>2 DEF IInv, TypeOK
<1>5. TypeOK'
  BY <1>1, <1>4 DEF IInv, TypeOK, Inspect, WaitHealthy, envoyVars, xdsVars
<1>6. RouteOK'
  BY <1>1, <1>2, <1>3 DEF IInv, RouteOK, EngineOK, Moving, Cutover
<1>7. CleanOK'
  BY <1>1, <1>3 DEF IInv, CleanOK, Moving, There
<1> QED BY <1>1, <1>5, <1>6, <1>7, CutoverFrame DEF Cutover

LEMMA WaitFailsStep ==
  ASSUME IInv, WaitFails
  PROVE  IInv'
<1>1. pc \in {"inspect", "health"} /\ CutoverFails /\ UNCHANGED <<envoyVars, xdsVars>>
  BY DEF WaitFails
<1>2. Current \in Containers /\ There(Current)
  BY <1>1, CurrentIn DEF IInv, CurOK, Busy, Cutover, Ensuring
<1>3. faults' \in 0..MaxFaults
  BY FaultOK DEF IInv, TypeOK, WaitFails
<1>4. faults' # 0 \/ (faults' = faults /\ want[cur] \in BrokenSpecs /\ pc = "health")
  <2>1. state[Current] # "running" => faults # 0
    BY <1>2 DEF IInv, CleanOK, TypeOK, States, There
  <2> QED BY <2>1, FaultOK DEF IInv, WaitFails
<1>5. TypeOK'
  BY <1>1, <1>3 DEF IInv, TypeOK, CutoverFails, ServiceOver, engineVars, envoyVars, xdsVars
<1> QED BY <1>1, <1>4, <1>5, CutoverFailsStep DEF Cutover, xdsVars

LEMMA MoveOK ==
  ASSUME IInv, pc = "update"
  PROVE  /\ MoveEndpoints \in [Clusters -> IPs \cup {NoIP}]
         /\ [last EXCEPT ![cur] = addr, ![Default] = addr] \in [Clusters -> IPs \cup {NoIP}]
         /\ MoveEndpoints[cur] = addr /\ MoveEndpoints[Default] = addr
         /\ \A s \in Services \ {cur} : s \in routes => MoveEndpoints[s] = last[s]
         /\ \A s \in Services \ {cur} : MoveEndpoints[s] # NoIP => s \in routes
         /\ cur \in routes
<1>1. cur \in Services /\ IsWeb(cur) /\ cur \in Clusters /\ Default \in Clusters /\ cur # Default
      /\ \A s \in Services : s \in Clusters /\ s # Default
  BY NameAssumption DEF IInv, PassOK, Busy, Cutover, Ensuring, Clusters
<1> DEFINE e == [last EXCEPT ![cur] = addr, ![Default] = addr]
<1>2. /\ e \in [Clusters -> IPs \cup {NoIP}] /\ e[cur] = addr /\ e[Default] = addr
      /\ \A s \in Services \ {cur} : e[s] = last[s]
  BY <1>1 DEF IInv, TypeOK
<1>3. MoveEndpoints = SnapshotEndpoints(e)
  BY DEF MoveEndpoints
<1> HIDE DEF e
<1>4. cur \in routes
  BY <1>1 DEF IInv, RouteOK, RoutesOf, IsWeb, Cutover
<1>5. /\ MoveEndpoints \in [Clusters -> IPs \cup {NoIP}] /\ MoveEndpoints[cur] = addr
      /\ MoveEndpoints[Default] = addr
      /\ \A s \in Services \ {cur} : s \in routes => MoveEndpoints[s] = last[s]
      /\ \A s \in Services \ {cur} : MoveEndpoints[s] # NoIP => s \in routes
  BY <1>1, <1>2, <1>3, <1>4, SnapshotOK
<1>6. [last EXCEPT ![cur] = addr, ![Default] = addr] \in [Clusters -> IPs \cup {NoIP}]
  BY <1>2 DEF e
<1> QED BY <1>4, <1>5, <1>6

LEMMA UpdateClusterEDSStep ==
  ASSUME IInv, UpdateClusterEDS
  PROVE  IInv'
<1>1. /\ pc = "update" /\ pc' = "route" /\ last' = MoveEndpoints /\ snap' = last'
      /\ Current' = Current /\ (IsWeb(cur)' <=> IsWeb(cur))
      /\ UNCHANGED <<state, ip, up, want, seen, todo, cur, stale, failed, fresh, envoy, routes, faults, addr>>
      /\ UNCHANGED engineVars
  BY DEF UpdateClusterEDS, Current, IsWeb, engineVars, envoyVars, passVars
<1>2. TypeOK'
  BY <1>1, MoveOK DEF IInv, TypeOK, UpdateClusterEDS, engineVars, envoyVars, passVars
<1>3. RouteOK' /\ CleanOK'
  BY <1>1, MoveOK DEF IInv, RouteOK, CleanOK, Moving, Cutover, There
<1> QED BY <1>1, <1>2, <1>3, CutoverFrame DEF Cutover

LEMMA UpdateClusterEDSFailsStep ==
  ASSUME IInv, UpdateClusterEDSFails
  PROVE  IInv'
<1>1. faults' \in 0..MaxFaults /\ faults' # 0
  BY FaultOK DEF IInv, UpdateClusterEDSFails
<1>2. TypeOK'
  BY <1>1, MoveOK DEF IInv, TypeOK, UpdateClusterEDSFails, CutoverFails, ServiceOver, engineVars, envoyVars
<1> QED BY <1>1, <1>2, CutoverFailsStep DEF UpdateClusterEDSFails, Cutover

LEMMA WaitForRouteStep ==
  ASSUME IInv, WaitForRoute
  PROVE  IInv'
<1>1. /\ pc \in {"route", "reroute"} /\ pc' = "drain"
      /\ Current' = Current /\ (IsWeb(cur)' <=> IsWeb(cur))
      /\ UNCHANGED <<state, ip, up, want, seen, todo, cur, stale, failed, fresh, last, snap, faults, addr>>
      /\ UNCHANGED engineVars
  BY DEF WaitForRoute, Current, IsWeb, engineVars, xdsVars, passVars
<1>2. TypeOK'
  BY <1>1 DEF IInv, TypeOK, WaitForRoute, engineVars, envoyVars, xdsVars, passVars
<1>3. RouteOK' /\ CleanOK'
  BY <1>1 DEF IInv, RouteOK, CleanOK, Moving, Cutover, There
<1> QED BY <1>1, <1>2, <1>3, CutoverFrame DEF Cutover

\* Before the first fault a container that is waited for answers through Envoy.
LEMMA AnswersBeforeFaults ==
  ASSUME IInv, pc \in {"route", "reroute"}, eds = snap, faults = 0
  PROVE  Answers
<1>1. Current \in Containers /\ There(Current) /\ Current[2] \in WebSpecs
  BY CurrentIn DEF IInv, CurOK, PassOK, IsWeb, Busy, Cutover, Ensuring
<1>2. up[Current] /\ ip[Current] = addr /\ envoy # "none" /\ snap[Default] = addr
  BY <1>1 DEF IInv, CleanOK, RouteOK, Moving, Cutover
<1> QED BY <1>1, <1>2 DEF Answers

LEMMA TimeoutOK ==
  ASSUME IInv, pc \in {"route", "reroute"}, RouteTimeout
  PROVE  faults' \in 0..MaxFaults /\ faults' # 0
<1>1. CASE Fault
  BY <1>1, FaultOK DEF IInv
<1>2. CASE eds = snap /\ ~Answers /\ UNCHANGED faults
  BY <1>2, AnswersBeforeFaults DEF IInv, TypeOK
<1> QED BY <1>1, <1>2 DEF RouteTimeout

LEMMA RestartEnvoyStep ==
  ASSUME IInv, RestartEnvoy
  PROVE  IInv'
<1>1. /\ pc = "route" /\ pc' = "reroute" /\ envoy' # "none" /\ eds' = NoRoutes
      /\ Current' = Current /\ (IsWeb(cur)' <=> IsWeb(cur))
      /\ UNCHANGED <<state, ip, up, want, seen, todo, cur, stale, failed, fresh, addr, routes>>
      /\ UNCHANGED engineVars
  BY PortsOK DEF RestartEnvoy, Current, IsWeb, engineVars, passVars
<1>2. faults' \in 0..MaxFaults /\ faults' # 0
  BY TimeoutOK DEF RestartEnvoy
<1>3. cur \in routes /\ cur \in Services
  BY <1>1 DEF IInv, PassOK, RouteOK, RoutesOf, IsWeb, Busy, Cutover, Ensuring
<1>4. /\ last' \in [Clusters -> IPs \cup {NoIP}] /\ snap' = last'
      /\ last'[cur] = last[cur] /\ last'[Default] = last[Default]
  BY <1>3, SnapshotOK DEF IInv, TypeOK, RestartEnvoy
<1>5. TypeOK'
  BY <1>2, <1>4, PortsOK DEF IInv, TypeOK, RestartEnvoy, NoRoutes, engineVars, passVars
<1>6. RouteOK' /\ CleanOK'
  BY <1>1, <1>2, <1>4 DEF IInv, RouteOK, CleanOK, Moving, Cutover
<1> QED BY <1>1, <1>5, <1>6, CutoverFrame DEF Cutover

LEMMA RouteFailsStep ==
  ASSUME IInv, RestartEnvoyFails \/ WaitForRouteFails
  PROVE  IInv'
<1>1. pc \in {"route", "reroute"} /\ CutoverFails /\ UNCHANGED xdsVars
  BY DEF RestartEnvoyFails, WaitForRouteFails
<1>2. faults' \in 0..MaxFaults /\ faults' # 0
  BY TimeoutOK DEF RestartEnvoyFails, WaitForRouteFails, RouteTimeout
<1>3. TypeOK'
  BY <1>1, <1>2, PortsOK DEF IInv, TypeOK, RestartEnvoyFails, WaitForRouteFails, CutoverFails, ServiceOver, NoRoutes,
                    engineVars, envoyVars, xdsVars
<1> QED BY <1>1, <1>2, <1>3, CutoverFailsStep DEF Cutover

LEMMA TearDownStep ==
  ASSUME IInv, TearDown
  PROVE  IInv'
<1>1. /\ pc = "teardown" /\ pc \in Busy /\ pc' = "pick" /\ failed' = TRUE
      /\ UNCHANGED <<want, seen, todo, last, snap>>
  BY DEF TearDown, ServiceOver, Busy, Cutover, Ensuring, xdsVars
<1>2. Current \in Containers /\ Current[1] = cur /\ There(Current)
  BY <1>1, CurrentIn DEF IInv, CurOK, Cutover
<1>3. /\ EngineTypes' /\ EngineOK' /\ Only(Current) /\ OneWorker' /\ faults' \in 0..MaxFaults
      /\ faults' # 0 \/ (faults' = faults /\ state'[Current] = "absent")
  <2>1. CASE Ended(Current, "absent") /\ UNCHANGED faults
    BY <1>2, <2>1, EndedWorkers DEF IInv, TypeOK
  <2>2. CASE Fault /\ UNCHANGED engineVars
    BY <2>2, FaultOK, EngineTyped, EngineSame DEF IInv, Only, engineVars
  <2>3. CASE Fault /\ Ended(Current, "stopped")
    BY <1>2, <2>3, FaultOK, EndedWorkers DEF IInv
  <2> QED BY <2>1, <2>2, <2>3 DEF TearDown
<1>4. TypeOK'
  BY <1>3 DEF IInv, TypeOK, EngineTypes, TearDown, ServiceOver, envoyVars, xdsVars
<1>5. CleanOK'
  BY <1>1, <1>3 DEF IInv, CleanOK, Moving, Only, There
<1> QED BY <1>1, <1>2, <1>3, <1>4, <1>5, FailsAndGoesOn DEF Only, There

-----------------------------------------------------------------------------
(* Draining, and the end of the pass *)

LEMMA DrainStep ==
  ASSUME IInv, NEW c \in Containers, Drain(c)
  PROVE  IInv'
<1>1. /\ pc = "drain" /\ c \in stale /\ stale' = stale \ {c} /\ Ended(c, "absent")
      /\ Current' = Current /\ (IsWeb(cur)' <=> IsWeb(cur)) /\ (Moving' <=> Moving)
      /\ UNCHANGED <<pc, want, seen, todo, cur, failed, fresh, last, snap, faults, envoy, addr>>
  BY DEF Drain, StopAndRemove, Current, IsWeb, Moving, envoyVars, xdsVars
<1>2. /\ Current \in Containers /\ Current[1] = cur /\ cur \in Services
      /\ c[1] = cur /\ c # Current
  BY <1>1, CurrentIn DEF IInv, CurOK, Busy
<1>3. EngineTypes' /\ EngineOK' /\ Only(c) /\ state'[c] = "absent" /\ OneWorker'
  BY <1>1, EndedWorkers
<1>4. TypeOK'
  BY <1>3 DEF IInv, TypeOK, EngineTypes, Drain, envoyVars, xdsVars
<1>5. PassOK' /\ PruneOK'
  BY <1>1 DEF IInv, PassOK, PruneOK, Busy, Cutover, Ensuring, Listing
<1>6. AheadOK' /\ DoneOK'
  BY <1>1, <1>2, <1>3 DEF IInv, PassOK, AheadOK, DoneOK, Done, Busy, Cutover, Ensuring, Listing, Only, There
<1>7. CurOK'
  BY <1>1, <1>2, <1>3 DEF IInv, CurOK, Busy, Cutover, Ensuring, Only, There
<1>8. RouteOK'
  BY <1>1, <1>2, <1>3 DEF IInv, RouteOK, Cutover, Only
<1>9. CleanOK'
  BY <1>1, <1>2, <1>3 DEF IInv, CleanOK, Only, There
<1> QED BY <1>3, <1>4, <1>5, <1>6, <1>7, <1>8, <1>9 DEF IInv

LEMMA DrainFailsStep ==
  ASSUME IInv, NEW c \in Containers, DrainFails(c)
  PROVE  IInv'
<1>1. /\ pc \in Busy /\ pc' = "pick" /\ failed' = TRUE /\ c \in stale
      /\ UNCHANGED <<want, seen, todo>>
  BY DEF DrainFails, ServiceOver, Busy
<1>2. faults' \in 0..MaxFaults /\ faults' # 0 /\ c[1] = cur
  BY <1>1, FaultOK DEF IInv, CurOK, DrainFails
<1>3. EngineTypes' /\ EngineOK' /\ Only(c) /\ OneWorker'
  <2>1. CASE UNCHANGED engineVars
    BY <2>1, EngineTyped, EngineSame DEF IInv, Only, engineVars
  <2>2. CASE state[c] = "running" /\ Ended(c, "stopped")
    BY <2>2, EndedWorkers DEF There
  <2> QED BY <2>1, <2>2 DEF DrainFails, StopAndRemoveFails
<1>4. TypeOK'
  BY <1>2, <1>3 DEF IInv, TypeOK, EngineTypes, DrainFails, ServiceOver, envoyVars, xdsVars
<1> QED BY <1>1, <1>2, <1>3, <1>4, FailsAndGoesOn DEF CleanOK, Only, There

LEMMA DrainEndsStep ==
  ASSUME IInv, DrainEnds
  PROVE  IInv'
<1>1. /\ pc = "drain" /\ stale = {} /\ pc' \in {"create", "pick"} /\ stale' = {} /\ failed' = failed
      /\ pc' = "create" => /\ ~IsWeb(cur) /\ seen[Current] = "absent" /\ UNCHANGED cur
                           /\ Current' = Current /\ ~(IsWeb(cur))'
      /\ pc' = "pick" => IsWeb(cur) \/ seen[Current] # "absent"
      /\ UNCHANGED <<state, ip, up, want, seen, todo, last, snap, faults>>
  BY DEF DrainEnds, ServiceOver, IInv, TypeOK, Current, IsWeb, engineVars, xdsVars
<1>2. Current \in Containers /\ Current[1] = cur /\ Current[2] = want[cur]
  BY <1>1, CurrentIn DEF Busy
<1>3. TypeOK'
  BY <1>1 DEF IInv, TypeOK, DrainEnds, ServiceOver, engineVars, envoyVars, xdsVars
<1>4. EngineOK' /\ OneWorker'
  BY EngineTyped, EngineSame DEF IInv, DrainEnds
<1>5. PassOK' /\ PruneOK' /\ RouteOK'
  BY <1>1 DEF IInv, PassOK, PruneOK, RouteOK, Moving, Busy, Cutover, Ensuring, Listing
<1>6. AheadOK' /\ CurOK'
  BY <1>1 DEF IInv, AheadOK, CurOK, Busy, Cutover, Ensuring, Listing, There
<1>7. DoneOK'
  <2>1. \A c \in Containers : c[1] = cur /\ There(c) => c = Current
    BY <1>1 DEF IInv, CurOK, Busy
  <2>2. pc' = "pick" => There(Current)
    BY <1>1 DEF IInv, CurOK, Busy
  <2>3. \A c \in Containers : c[1] = cur /\ c[2] = want[cur] => c = Current
    BY ContainersAre DEF Current
  <2> QED BY <1>1, <1>2, <2>1, <2>2, <2>3 DEF IInv, DoneOK, Done, Busy, Cutover, Ensuring, Listing, There
<1>8. CleanOK'
  BY <1>1 DEF IInv, CleanOK, Moving, There
<1> QED BY <1>3, <1>4, <1>5, <1>6, <1>7, <1>8 DEF IInv

LEMMA CreateStep ==
  ASSUME IInv, Create
  PROVE  IInv'
<1>1. /\ pc = "create" /\ pc' = "pick" /\ Started(Current)
      /\ failed' = failed /\ UNCHANGED <<want, seen, todo, last, snap, faults>>
  BY DEF Create, ServiceOver, IInv, TypeOK, xdsVars
<1>2. Current \in Containers /\ Current[1] = cur /\ Current[2] = want[cur]
  BY <1>1, CurrentIn DEF Busy
<1>3. EngineTypes' /\ EngineOK' /\ Only(Current) /\ state'[Current] = "running"
  BY <1>1, <1>2, EngineTyped, StartedOK DEF IInv
<1>4. TypeOK'
  BY <1>3 DEF IInv, TypeOK, EngineTypes, Create, ServiceOver, envoyVars, xdsVars
<1>5. \A c \in Containers : c[1] = cur /\ There(c) => c = Current
  BY <1>1 DEF IInv, CurOK, PassOK, Busy
<1>6. OneWorker'
  BY <1>2, <1>3, <1>5 DEF IInv, OneWorker, There, Only
<1>7. PassOK' /\ CurOK' /\ PruneOK' /\ RouteOK'
  BY <1>1 DEF IInv, PassOK, CurOK, PruneOK, RouteOK, Moving, Busy, Cutover, Ensuring, Listing
<1>8. AheadOK'
  BY <1>1, <1>2, <1>3 DEF IInv, AheadOK, PassOK, Busy, Listing, Only, There
<1>9. DoneOK'
  <2>1. \A c \in Containers : c[1] = cur /\ c[2] = want[cur] => c = Current
    BY ContainersAre DEF Current
  <2> QED BY <1>1, <1>2, <1>3, <1>5, <2>1 DEF IInv, DoneOK, Done, Busy, Cutover, Ensuring, Listing, Only, There
<1>10. CleanOK'
  <2>1. want[cur] \notin WebSpecs
    BY <1>1 DEF IInv, PassOK, IsWeb
  <2> QED BY <1>1, <1>2, <1>3, <2>1 DEF IInv, CleanOK, Moving, Only, There
<1> QED BY <1>3, <1>4, <1>6, <1>7, <1>8, <1>9, <1>10 DEF IInv

\* The pass returns or dies; what it knew is gone.
LEMMA OverStep ==
  ASSUME IInv, PassOver, UNCHANGED <<want, mode, desired, tls, cert, deploys>>,
         EngineTypes', EngineOK', OneWorker', faults' \in 0..MaxFaults,
         faults' # 0 \/ (UNCHANGED <<faults, engineVars, xdsVars>> /\ pc \in {"pick", "settled"}),
         envoy' \in {"none", "http", "https", "outdated"}, serving' \in BOOLEAN,
         routes' \subseteq Services,
         eds' \in [Clusters -> IPs \cup {NoIP}],
         snap' \in [Clusters -> IPs \cup {NoIP}], last' \in [Clusters -> IPs \cup {NoIP}]
  PROVE  IInv'
<1>1. TypeOK'
  BY DEF IInv, TypeOK, EngineTypes, PassOver, States
<1>2. CleanOK'
  BY DEF IInv, CleanOK, Moving, There, PassOver, engineVars, xdsVars
<1> QED BY <1>1, <1>2, IdleAgain DEF PassOver

LEMMA NetworksFailStep ==
  ASSUME IInv, NetworksFail
  PROVE  IInv'
<1>1. faults' \in 0..MaxFaults /\ faults' # 0
  BY FaultOK DEF IInv, NetworksFail
<1>2. EngineTypes' /\ EngineOK' /\ OneWorker'
  BY EngineTyped, EngineSame DEF IInv, NetworksFail
<1> QED BY <1>1, <1>2, OverStep DEF IInv, TypeOK, NetworksFail, envoyVars, xdsVars

LEMMA ImageFailsStep ==
  ASSUME IInv, ImageFails
  PROVE  IInv'
<1>1. faults' \in 0..MaxFaults /\ faults' # 0
  BY FaultOK DEF IInv, ImageFails
<1>2. EngineOK' /\ OneWorker'
  BY EngineTyped, EngineSame DEF IInv, ImageFails
<1>3. TypeOK'
  BY <1>1 DEF IInv, TypeOK, ImageFails, ServiceOver, engineVars, envoyVars, xdsVars
<1> QED BY <1>1, <1>2, <1>3, FailsAndGoesOn DEF ImageFails, ServiceOver, Busy, CleanOK, There, engineVars

LEMMA ServicesEndStep ==
  ASSUME IInv, ServicesEnd
  PROVE  IInv'
<1>1. EngineTypes' /\ EngineOK' /\ OneWorker'
  BY EngineTyped, EngineSame DEF IInv, ServicesEnd
<1>2. CASE failed
  BY <1>1, <1>2, OverStep DEF IInv, TypeOK, ServicesEnd, envoyVars, xdsVars
<1>3. CASE ~failed
  <2>1. /\ pc = "pick" /\ todo = {} /\ pc' = "prune"
        /\ stale' = {c \in Containers : seen[c] # "absent" /\ want[c[1]] = NoSpec}
        /\ UNCHANGED <<state, ip, up, want, seen, todo, cur, failed, fresh, last, snap, faults>>
    BY <1>3 DEF ServicesEnd, Listed, engineVars, xdsVars
  <2>2. TypeOK'
    BY <1>3, <2>1 DEF IInv, TypeOK, ServicesEnd, engineVars, envoyVars, xdsVars
  <2>3. PassOK' /\ AheadOK' /\ CurOK' /\ RouteOK'
    BY <1>3, <2>1 DEF IInv, PassOK, AheadOK, CurOK, RouteOK, Moving, Busy, Cutover, Ensuring, Listing
  <2>4. DoneOK'
    BY <2>1 DEF IInv, DoneOK, Done, Listing, Busy, Cutover, Ensuring, There
  <2>5. PruneOK'
    BY <2>1 DEF IInv, PruneOK, AheadOK, Listing, There
  <2>6. CleanOK'
    BY <2>1 DEF IInv, CleanOK, Moving, There
  <2> QED BY <1>1, <2>2, <2>3, <2>4, <2>5, <2>6 DEF IInv
<1> QED BY <1>2, <1>3

LEMMA PruneStep ==
  ASSUME IInv, NEW c \in Containers, Prune(c)
  PROVE  IInv'
<1>1. /\ pc = "prune" /\ c \in stale /\ stale' = stale \ {c} /\ Ended(c, "absent")
      /\ want[c[1]] = NoSpec
      /\ UNCHANGED <<pc, want, seen, todo, cur, failed, fresh, last, snap, faults>>
  BY DEF Prune, StopAndRemove, xdsVars, IInv, PruneOK
<1>2. EngineTypes' /\ EngineOK' /\ Only(c) /\ state'[c] = "absent" /\ OneWorker'
  BY <1>1, EndedWorkers
<1>3. TypeOK'
  BY <1>2 DEF IInv, TypeOK, EngineTypes, Prune, envoyVars, xdsVars
<1>4. PassOK' /\ AheadOK' /\ CurOK' /\ RouteOK'
  BY <1>1 DEF IInv, PassOK, AheadOK, CurOK, RouteOK, Moving, Busy, Cutover, Ensuring, Listing
<1>5. DoneOK'
  BY <1>1, <1>2 DEF IInv, DoneOK, Done, Busy, Cutover, Ensuring, Listing, Only, There
<1>6. PruneOK'
  BY <1>1, <1>2 DEF IInv, PruneOK, Only, There
<1>7. CleanOK'
  BY <1>1, <1>2 DEF IInv, CleanOK, Moving, Only, There
<1> QED BY <1>2, <1>3, <1>4, <1>5, <1>6, <1>7 DEF IInv

LEMMA PruneFailsStep ==
  ASSUME IInv, NEW c \in Containers, PruneFails(c)
  PROVE  IInv'
<1>1. faults' \in 0..MaxFaults /\ faults' # 0
  BY FaultOK DEF IInv, PruneFails
<1>2. EngineTypes' /\ EngineOK' /\ OneWorker'
  <2>1. CASE UNCHANGED engineVars
    BY <2>1, EngineTyped, EngineSame DEF IInv
  <2>2. CASE state[c] = "running" /\ Ended(c, "stopped")
    BY <2>2, EndedWorkers DEF There
  <2> QED BY <2>1, <2>2 DEF PruneFails, StopAndRemoveFails
<1> QED BY <1>1, <1>2, OverStep DEF IInv, TypeOK, PruneFails, envoyVars, xdsVars

LEMMA PruneEndsStep ==
  ASSUME IInv, PruneEnds
  PROVE  IInv'
<1>1. /\ pc = "prune" /\ pc' = "settled" /\ stale = {}
      /\ UNCHANGED <<state, ip, up, want, seen, todo, cur, stale, failed, fresh, last, snap, faults>>
  BY DEF PruneEnds, engineVars, xdsVars, passVars
<1>2. TypeOK'
  BY <1>1 DEF IInv, TypeOK, PruneEnds, engineVars, envoyVars, xdsVars, passVars
<1>3. EngineOK' /\ OneWorker'
  BY EngineTyped, EngineSame DEF IInv, PruneEnds
<1>4. PassOK' /\ AheadOK' /\ CurOK' /\ RouteOK' /\ PruneOK'
  BY <1>1 DEF IInv, PassOK, AheadOK, CurOK, RouteOK, PruneOK, Moving, Busy, Cutover, Ensuring, Listing, There
<1>5. DoneOK' /\ CleanOK'
  BY <1>1 DEF IInv, DoneOK, CleanOK, Done, Busy, Cutover, Ensuring, Listing, Moving, There
<1> QED BY <1>2, <1>3, <1>4, <1>5 DEF IInv

LEMMA ReportSettledStep ==
  ASSUME IInv, ReportSettled
  PROVE  IInv'
<1>1. EngineTypes' /\ EngineOK' /\ OneWorker'
  BY EngineTyped, EngineSame DEF IInv, ReportSettled
<1> QED BY <1>1, OverStep DEF IInv, TypeOK, ReportSettled, envoyVars, xdsVars

-----------------------------------------------------------------------------
(* What happens beside the reconciler *)

LEMMA AgentRestartStep ==
  ASSUME IInv, AgentRestart
  PROVE  IInv'
<1>1. faults' \in 0..MaxFaults /\ faults' # 0
  BY FaultOK DEF IInv, AgentRestart
<1>2. EngineTypes' /\ EngineOK' /\ OneWorker'
  BY EngineTyped, EngineSame DEF IInv, AgentRestart
<1>3. NoRoutes \in [Clusters -> IPs \cup {NoIP}]
  BY DEF NoRoutes
<1> QED BY <1>1, <1>2, <1>3, OverStep DEF IInv, TypeOK, AgentRestart, envoyVars

LEMMA EnvoyStep ==
  ASSUME IInv, EnvoyLoads \/ EnvoyExits
  PROVE  IInv'
<1>1. faults' \in 0..MaxFaults /\ (faults' = faults \/ faults' # 0)
  BY FaultOK DEF IInv, TypeOK, EnvoyLoads, EnvoyExits
<1>2. TypeOK'
  BY <1>1 DEF IInv, TypeOK, EnvoyLoads, EnvoyExits, NoRoutes, engineVars, xdsVars, passVars
<1> QED BY <1>1, <1>2, Beside DEF EnvoyLoads, EnvoyExits

LEMMA DeployStep ==
  ASSUME IInv, NEW d \in DesiredStates, Deploy(d)
  PROVE  IInv'
<1>1. deploys' \in 0..MaxDeploys /\ desired' \in [Services -> Specs \cup {NoSpec}] /\ tls' \in Modes
  BY BoundAssumption, DesiredAssumption DEF IInv, TypeOK, Deploy
<1>2. TypeOK'
  BY <1>1 DEF IInv, TypeOK, Deploy, engineVars, envoyVars, xdsVars, passVars
<1> QED BY <1>2, Beside DEF Deploy, envoyVars

\* The state of the pass, whatever the application in a container does.
LEMMA AppFrame ==
  ASSUME IInv, UNCHANGED <<envoyVars, xdsVars, pc, passVars>>, TypeOK', EngineOK', CleanOK',
         \A c \in Containers : /\ There(c)' <=> There(c)
                               /\ state'[c] = "running" => state[c] = "running" /\ ip'[c] = ip[c]
  PROVE  IInv'
<1>1. Current' = Current /\ (IsWeb(cur)' <=> IsWeb(cur)) /\ (Moving' <=> Moving)
  BY DEF Current, IsWeb, Moving, passVars
<1>2. OneWorker' /\ PassOK' /\ AheadOK'
  BY <1>1 DEF IInv, OneWorker, PassOK, AheadOK, Listing, passVars
<1>3. CurOK'
  <2>1. pc \in Busy => (There(Current)' <=> There(Current))
    BY <1>1, CurrentIn DEF There
  <2> QED BY <1>1, <2>1 DEF IInv, CurOK, passVars
<1>4. DoneOK' /\ PruneOK'
  BY DEF IInv, DoneOK, Done, PruneOK, Listing, passVars
<1>5. RouteOK'
  BY <1>1 DEF IInv, RouteOK, envoyVars, xdsVars, passVars
<1> QED BY <1>2, <1>3, <1>4, <1>5 DEF IInv

LEMMA AppUpStep ==
  ASSUME IInv, NEW c \in Containers, AppUp(c)
  PROVE  IInv'
<1>1. /\ state[c] = "running" /\ c[2] \notin BrokenSpecs /\ up' = [up EXCEPT ![c] = TRUE]
      /\ UNCHANGED <<state, ip, pc, faults, last, snap, want, seen, cur, fresh, addr>>
      /\ Current' = Current /\ (Moving' <=> Moving)
  BY DEF AppUp, xdsVars, passVars, Current, Moving, IsWeb
<1>2. TypeOK'
  BY <1>1 DEF IInv, TypeOK, AppUp, envoyVars, xdsVars, passVars
<1>3. \A d \in Containers : up'[d] <=> (d = c \/ up[d])
  BY <1>1 DEF IInv, TypeOK
<1>4. EngineOK'
  BY <1>1, <1>3 DEF IInv, EngineOK
<1>5. CleanOK'
  BY <1>1, <1>3 DEF IInv, CleanOK, There
<1> QED BY <1>1, <1>2, <1>4, <1>5, AppFrame DEF AppUp, There

LEMMA AppExitsStep ==
  ASSUME IInv, NEW c \in Containers, AppExits(c)
  PROVE  IInv'
<1>1. faults' \in 0..MaxFaults /\ faults' # 0
  BY FaultOK DEF IInv, AppExits
<1>2. EngineTypes' /\ EngineOK' /\ Only(c) /\ state'[c] = "stopped" /\ state[c] = "running"
  BY EndedWorkers DEF AppExits, There
<1>3. TypeOK'
  BY <1>1, <1>2 DEF IInv, TypeOK, EngineTypes, AppExits, envoyVars, xdsVars, passVars
<1> QED BY <1>1, <1>2, <1>3, AppFrame DEF AppExits, CleanOK, Only, There

-----------------------------------------------------------------------------
(* The invariant *)

LEMMA InitOK == Init => IInv
<1> SUFFICES ASSUME Init PROVE IInv
  OBVIOUS
<1>1. TypeOK
  <2>1. 0 \in 0..MaxDeploys /\ 0 \in 0..MaxFaults
    BY BoundAssumption
  <2>2. EngineTypes
    BY DEF Init, EngineTypes, States
  <2>3. NoRoutes \in [Clusters -> IPs \cup {NoIP}]
    BY DEF NoRoutes
  <2> QED BY <2>1, <2>2, <2>3 DEF Init, TypeOK, EngineTypes, States, Modes
<1>2. EngineOK /\ OneWorker
  BY DEF Init, EngineOK, OneWorker, There
<1>3. PassOK /\ AheadOK /\ CurOK /\ DoneOK /\ PruneOK /\ RouteOK
  BY DEF Init, PassOK, AheadOK, CurOK, DoneOK, PruneOK, RouteOK, Moving, Listing, Busy, Cutover, Ensuring
<1>4. CleanOK
  BY DEF Init, CleanOK, There, Moving
<1> QED BY <1>1, <1>2, <1>3, <1>4 DEF IInv

LEMMA StepOK ==
  ASSUME IInv, [Next]_vars
  PROVE  IInv'
<1>1. CASE CutoverNext
  BY <1>1, AddressStep, WaitFailsStep, UpdateClusterEDSStep, UpdateClusterEDSFailsStep,
     WaitForRouteStep, RestartEnvoyStep, RouteFailsStep, TearDownStep DEF CutoverNext
<1>2. CASE ReconcileNext
  BY <1>1, <1>2, TickStep, ListStep, PickStep, EnsureStep, EnsureFailsStep, EnsureCertStep, ApplyWebStep,
     ApplyOtherStep, StartFailsStep, DrainStep, DrainFailsStep, DrainEndsStep, CreateStep,
     NetworksFailStep, ImageFailsStep, ServicesEndStep, PruneStep, PruneFailsStep, PruneEndsStep,
     ReportSettledStep DEF ReconcileNext
<1>3. CASE EnvironmentNext
  BY <1>3, AgentRestartStep, EnvoyStep, AppUpStep, AppExitsStep, DeployStep DEF EnvironmentNext
<1>4. CASE UNCHANGED vars
  <2>1. TypeOK'
    BY <1>4 DEF IInv, TypeOK, vars, engineVars, envoyVars, xdsVars, passVars
  <2> QED BY <1>4, <2>1, Beside DEF vars, envoyVars
<1> QED BY <1>2, <1>3, <1>4 DEF Next

(* What a pass was begun with stays true of what it has not reached, and   *)
(* what it is done with is as wanted, under every failure and restart.     *)
THEOREM PassInvariance == Spec => []IInv
<1>1. IInv /\ [Next]_vars => IInv'
  BY StepOK
<1> QED BY <1>1, InitOK, PTL DEF Spec

(* The engine's states, the endpoint tables and the pass keep their types. *)
THEOREM NodeTypes == Spec => []TypeOK
<1>1. IInv => TypeOK
  BY DEF IInv
<1> QED BY <1>1, PassInvariance, PTL

(* When Reconcile returns without an error the containers of the node are  *)
(* exactly those of the document, whatever earlier passes left behind.     *)
THEOREM SettledExactly == Spec => []SettledIsExact
<1>1. ASSUME IInv PROVE SettledIsExact
  <2>1. SUFFICES ASSUME pc = "settled"
                 PROVE  {c \in Containers : There(c)} =
                          {<<s, want[s]>> : s \in {t \in Services : want[t] # NoSpec}}
    BY DEF SettledIsExact, There
  <2>2. stale = {} /\ ~failed /\ todo = {}
    BY <1>1, <2>1 DEF IInv, PassOK
  <2>3. \A c \in Containers : There(c) => want[c[1]] # NoSpec
    BY <1>1, <2>1, <2>2 DEF IInv, PruneOK
  <2>4. \A c \in Containers : want[c[1]] # NoSpec => (There(c) <=> c[2] = want[c[1]])
    BY <1>1, <2>1, <2>2 DEF IInv, DoneOK, Done, Listing, Busy, Cutover, Ensuring
  <2>5. \A s \in Services : want[s] # NoSpec => <<s, want[s]>> \in Containers
    BY <1>1, ContainersAre DEF IInv, TypeOK
  <2>6. ASSUME NEW c \in Containers, There(c)
        PROVE  c \in {<<s, want[s]>> : s \in {t \in Services : want[t] # NoSpec}}
    BY <2>3, <2>4, <2>6, ContainersAre
  <2>7. ASSUME NEW s \in Services, want[s] # NoSpec
        PROVE  <<s, want[s]>> \in Containers /\ There(<<s, want[s]>>)
    BY <2>4, <2>5, <2>7
  <2> QED BY <2>6, <2>7
<1> QED BY <1>1, PassInvariance, PTL

(* Two containers of a service that are not web never run side by side:    *)
(* reconcileService makes one only when no other is there.                 *)
THEOREM WorkersAlone == Spec => []WorkerNeverDoubled
<1>1. IInv => WorkerNeverDoubled
  BY DEF IInv, OneWorker, WorkerNeverDoubled, Of, There
<1> QED BY <1>1, PassInvariance, PTL

-----------------------------------------------------------------------------
(* What a step may not do *)

\* A container that is gone after a step was gone before, or was drained, pruned
\* or torn down by it.
LEMMA GoneBy ==
  ASSUME IInv, [Next]_vars, pc = "drain", NEW c \in Containers, There(c), state'[c] = "absent"
  PROVE  Drain(c)
<1>1. CASE CutoverNext
  BY <1>1 DEF CutoverNext, Inspect, WaitHealthy, WaitFails, UpdateClusterEDS, UpdateClusterEDSFails,
     WaitForRoute, RestartEnvoy, RestartEnvoyFails, WaitForRouteFails, TearDown
<1>2. CASE \E e \in Containers : Drain(e)
  <2>1. PICK e \in Containers : Drain(e)
    BY <1>2
  <2>2. Only(e)
    BY <2>1, EngineTyped, EndedOK DEF IInv, Drain, StopAndRemove
  <2> QED BY <2>1, <2>2 DEF Only, There
<1>3. CASE \E e \in Containers : DrainFails(e)
  <2>1. PICK e \in Containers : DrainFails(e)
    BY <1>3
  <2>2. CASE UNCHANGED engineVars
    BY <2>2 DEF engineVars, There
  <2>3. CASE Ended(e, "stopped")
    <3>1. Only(e) /\ state'[e] = "stopped"
      BY <2>1, <2>3, EngineTyped, EndedOK DEF IInv
    <3> QED BY <3>1 DEF Only, There
  <2> QED BY <2>1, <2>2, <2>3 DEF DrainFails, StopAndRemoveFails
<1>4. CASE ReconcileNext
  BY <1>1, <1>2, <1>3, <1>4 DEF ReconcileNext, Tick, List, Pick, Ensure, EnsureFails, EnsureCert,
     ApplyWeb, ApplyOther, StartFails, DrainEnds, Create, NetworksFail, ImageFails, ServicesEnd, Prune,
     PruneFails, PruneEnds, ReportSettled, engineVars, There
<1>5. CASE \E e \in Containers : AppExits(e)
  <2>1. PICK e \in Containers : AppExits(e)
    BY <1>5
  <2>2. Only(e) /\ state'[e] = "stopped"
    BY <2>1, EngineTyped, EndedOK DEF IInv, AppExits
  <2> QED BY <2>2 DEF Only, There
<1>6. CASE EnvironmentNext \/ UNCHANGED vars
  BY <1>5, <1>6 DEF EnvironmentNext, AgentRestart, EnvoyLoads, EnvoyExits, AppUp, Deploy, vars,
     engineVars, There
<1> QED BY <1>4, <1>6 DEF Next

\* What Envoy has once the delay is over names no container that is drained.
LEMMA DrainedIsLeft ==
  ASSUME IInv, NEW c \in Containers, Drain(c), IsWeb(cur)
  PROVE  ~RoutesTo(cur, c) /\ ~RoutesTo(Default, c)
<1>1. pc = "drain" /\ c \in stale /\ eds \in {snap, NoRoutes}
  BY DEF Drain, DrainDelayOver
<1>2. c # Current /\ cur \in Services
  BY <1>1 DEF IInv, CurOK, PassOK, Busy
<1>3. up[c] => ip[c] # NoIP /\ ip[c] # addr
  BY <1>1, <1>2 DEF IInv, EngineOK, RouteOK, Moving
<1>4. snap[cur] = addr /\ snap[Default] = addr
  BY <1>1 DEF IInv, RouteOK, Moving
<1>5. NoRoutes[cur] = NoIP /\ NoRoutes[Default] = NoIP
  BY <1>2 DEF NoRoutes, Clusters
<1> QED BY <1>1, <1>3, <1>4, <1>5 DEF RoutesTo

(* No step that drains containers of a web service ends one that Envoy     *)
(* still routes the service's requests, or the default listener's, to.     *)
THEOREM DrainsLeft == Spec => DrainsWhatEnvoyLeft
<1> DEFINE Step == \A c \in Containers :
       pc = "drain" /\ IsWeb(cur) /\ c \in stale /\ state'[c] = "absent"
         => ~RoutesTo(cur, c) /\ ~RoutesTo(Default, c)
<1>1. IInv /\ [Next]_vars => [Step]_vars
  <2>1. SUFFICES ASSUME IInv, [Next]_vars, NEW c \in Containers, pc = "drain", IsWeb(cur),
                        c \in stale, state'[c] = "absent"
                 PROVE  ~RoutesTo(cur, c) /\ ~RoutesTo(Default, c)
    OBVIOUS
  <2>2. CASE There(c)
    BY <2>1, <2>2, GoneBy, DrainedIsLeft
  <2>3. CASE ~There(c)
    BY <2>1, <2>3 DEF IInv, EngineOK, There, RoutesTo
  <2> QED BY <2>2, <2>3
<1>2. DrainsWhatEnvoyLeft <=> [][Step]_vars
  BY DEF DrainsWhatEnvoyLeft
<1> HIDE DEF Step
<1> QED BY <1>1, <1>2, PassInvariance, PTL DEF Spec

\* Before the first fault only services that the last ingress has routes to have an
\* endpoint; the first Ensure of a pass leaves those of services no longer routed to.
Between == pc \in {"certify", "reensure"}
LastOK ==
  /\ Between => routes = RoutesOf(want)
  /\ faults = 0 => \A s \in Services :
       last[s] # NoIP => s \in routes \/ (Between /\ ~IsWeb(s))

LEMMA LastStep ==
  ASSUME IInv, LastOK, [Next]_vars
  PROVE  LastOK'
<1>1. CASE Ensure
  <2>1. /\ pc \in {"ensure", "reensure"} /\ pc' = (IF pc = "ensure" THEN "certify" ELSE "apply")
        /\ routes' = RoutesOf(want) /\ last' = SnapshotEndpoints(last) /\ UNCHANGED <<want, faults>>
    BY <1>1 DEF Ensure, passVars
  <2>2. ASSUME NEW s \in Services, last'[s] # NoIP PROVE s \in routes
    BY <2>1, <2>2, SnapshotOK, NameAssumption DEF IInv, TypeOK
  <2>3. \A s \in Services : s \in RoutesOf(want) <=> IsWeb(s)
    BY DEF RoutesOf, IsWeb
  <2>4. \A s \in Services : (IsWeb(s))' <=> IsWeb(s)
    BY <2>1 DEF IsWeb
  <2> QED BY <2>1, <2>2, <2>3, <2>4 DEF LastOK, Between
<1>2. CASE EnsureCert
  BY <1>2 DEF EnsureCert, LastOK, Between, IsWeb, RoutesOf, xdsVars, passVars
<1>3. CASE UpdateClusterEDS
  BY <1>3, MoveOK DEF UpdateClusterEDS, LastOK, Between, passVars
<1>4. CASE RestartEnvoy
  BY <1>4, TimeoutOK DEF RestartEnvoy, LastOK, Between
<1>5. CASE UpdateClusterEDSFails \/ EnsureFails \/ AgentRestart
  BY <1>5, FaultOK DEF IInv, UpdateClusterEDSFails, CutoverFails, EnsureFails, AgentRestart, PassOver,
     ServiceOver, LastOK, Between
<1>6. CASE UNCHANGED <<pc, want, last, routes>> /\ (faults' = faults \/ faults' # 0)
  BY <1>6 DEF LastOK, Between, IsWeb
<1>7. CASE ~Between /\ ~Between' /\ UNCHANGED <<last, routes>> /\ (faults' = faults \/ faults' # 0)
  BY <1>7 DEF LastOK, Between
<1>8. faults' = faults \/ Fault => faults' = faults \/ faults' # 0
  BY FaultOK DEF IInv
<1>9. CASE CutoverNext
  BY <1>3, <1>4, <1>5, <1>7, <1>8, <1>9 DEF CutoverNext, Inspect, WaitHealthy, WaitFails, WaitForRoute,
     RestartEnvoyFails, WaitForRouteFails, RouteTimeout, TearDown, CutoverFails, ServiceOver, Between, xdsVars
<1>10. CASE ReconcileNext
  BY <1>1, <1>2, <1>5, <1>6, <1>7, <1>8, <1>9, <1>10 DEF ReconcileNext, Tick, List, Pick, ApplyWeb,
     ApplyOther, StartFails, Drain, DrainFails, DrainEnds, Create, NetworksFail, ImageFails, ServicesEnd,
     Prune, PruneFails, PruneEnds, ReportSettled, ServiceOver, PassOver, Between, xdsVars
<1>11. CASE EnvironmentNext \/ UNCHANGED vars
  BY <1>5, <1>6, <1>8, <1>11 DEF EnvironmentNext, EnvoyLoads, EnvoyExits, AppUp, AppExits, Deploy, vars,
     xdsVars, passVars
<1> QED BY <1>10, <1>11 DEF Next

LEMMA EndpointsAreRouted == Spec => []LastOK
<1>1. Init => LastOK
  BY DEF Init, LastOK, Between, NoRoutes, Clusters
<1>2. IInv /\ LastOK /\ [Next]_vars => LastOK'
  BY LastStep
<1> QED BY <1>1, <1>2, PassInvariance, PTL DEF Spec

\* The containers of s that answer go on as they are.
Keeps(s) == \A c \in Of(s) : up[c] => up'[c] /\ ip'[c] = ip[c]

\* What RoutedStaysRouted says of a service.
StaysRouted(s) ==
  /\ (Named(s))'
  /\ Routed(s) => (Routed(s))' \/ (envoy # Ports /\ envoy' = Ports)

LEMMA NamedFrame ==
  ASSUME NEW s \in Services, Named(s), Keeps(s), snap'[s] = snap[s]
  PROVE  (Named(s))'
BY DEF Named, Keeps, Of

LEMMA RoutedFrame ==
  ASSUME NEW s \in Services, Named(s), Keeps(s), envoy # "none" => envoy' # "none",
         eds'[s] \in {eds[s], snap[s]}, snap'[s] = snap[s]
  PROVE  StaysRouted(s)
<1>1. SUFFICES ASSUME Routed(s) PROVE (Routed(s))'
  BY NamedFrame DEF StaysRouted
<1>2. PICK c \in Of(s) : envoy # "none" /\ up[c] /\ ip[c] = eds[s]
  BY <1>1 DEF Routed, RoutesTo
<1>3. PICK d \in Of(s) : up[d] /\ ip[d] = snap[s]
  BY DEF Named
<1> QED BY <1>2, <1>3 DEF Routed, RoutesTo, Keeps, Of

LEMMA SameKeeps ==
  ASSUME UNCHANGED engineVars, NEW s
  PROVE  Keeps(s)
BY DEF Keeps, engineVars

LEMMA StartedKeeps ==
  ASSUME IInv, NEW c \in Containers, Started(c), NEW s
  PROVE  Keeps(s)
<1>1. CASE state[c] = "running"
  BY <1>1, SameKeeps DEF Started
<1>2. CASE state[c] # "running"
  <2>1. Only(c) /\ ~up[c]
    BY <1>2, EngineTyped, StartedOK DEF IInv, EngineOK
  <2> QED BY <2>1 DEF Keeps, Only, Of
<1> QED BY <1>1, <1>2

LEMMA EndedKeeps ==
  ASSUME IInv, NEW c \in Containers, NEW x \in {"absent", "stopped"}, Ended(c, x), NEW s,
         c[1] # s \/ ~up[c]
  PROVE  Keeps(s)
<1>1. Only(c)
  BY EngineTyped, EndedOK DEF IInv
<1> QED BY <1>1 DEF Keeps, Only, Of

\* Before the first fault an endpoint moves to a container that answers.
LEMMA MovesToAnswering ==
  ASSUME IInv, faults = 0, Moving
  PROVE  Current \in Of(cur) /\ up[Current] /\ ip[Current] = addr
<1>1. pc \in Busy /\ IsWeb(cur) /\ There(Current)
  BY DEF IInv, PassOK, CurOK, Moving, Busy, Cutover, Ensuring
<1>2. Current \in Containers /\ Current[1] = cur /\ Current[2] \in WebSpecs
  BY <1>1, CurrentIn DEF IsWeb
<1> QED BY <1>1, <1>2 DEF IInv, CleanOK, Moving, Of

LEMMA RoutedStep ==
  ASSUME IInv, LastOK, [Next]_vars, NEW s \in Services, faults' = 0, Named(s),
         IsWeb(s), (IsWeb(s))'
  PROVE  StaysRouted(s)
<1>1. ~Fault /\ want[s] # NoSpec /\ s \in Clusters
  BY FaultOK, SpecAssumption, NameAssumption DEF IInv, IsWeb, Clusters
<1>2. CASE UNCHANGED <<engineVars, envoy, eds, snap>>
  BY <1>2, SameKeeps, RoutedFrame
<1> DEFINE Clean == faults = 0 => last = snap /\ last[s] = snap[s] /\ s \in routes
<1>0. Clean
  <2>1. snap[s] # NoIP
    BY DEF Named, IInv, EngineOK, Of
  <2> QED BY <2>1 DEF LastOK, IInv, CleanOK
<1>3. CASE Ensure
  <2>1. snap'[s] = snap[s] /\ UNCHANGED engineVars
    BY <1>0, <1>3, SnapshotOK DEF Ensure, IInv, TypeOK
  <2>2. CASE envoy = Ports
    BY <1>3, <2>1, <2>2, SameKeeps, RoutedFrame DEF Ensure
  <2>3. CASE envoy # Ports
    BY <1>3, <2>1, <2>3, SameKeeps, NamedFrame DEF Ensure, StaysRouted
  <2> QED BY <2>2, <2>3
<1>4. CASE ApplyWeb \/ ApplyOther \/ Create
  <2>1. Current \in Containers
    BY <1>4, CurrentIn DEF ApplyWeb, ApplyOther, Create, Busy
  <2>2. Keeps(s)
    BY <1>4, <2>1, SameKeeps, StartedKeeps DEF ApplyWeb, ApplyOther, Create
  <2> QED BY <1>4, <2>2, RoutedFrame DEF ApplyWeb, ApplyOther, Create, envoyVars, xdsVars
<1>5. CASE UpdateClusterEDS
  <2>1. /\ pc = "update" /\ snap' = MoveEndpoints /\ Moving /\ faults = 0
        /\ UNCHANGED engineVars /\ UNCHANGED envoyVars
    BY <1>5 DEF UpdateClusterEDS, Moving
  <2>2. CASE s # cur
    <3>1. snap'[s] = last[s] /\ last = snap
      BY <1>0, <2>1, <2>2, MoveOK
    <3> QED BY <2>1, <3>1, SameKeeps, RoutedFrame DEF envoyVars
  <2>3. CASE s = cur
    <3>1. snap'[s] = addr
      BY <2>1, <2>3, MoveOK
    <3>2. Current \in Of(s) /\ up[Current] /\ ip[Current] = addr
      BY <2>1, <2>3, MovesToAnswering
    <3>3. (Named(s))'
      BY <2>1, <3>1, <3>2 DEF Named, Of, engineVars
    <3>4. Routed(s) => (Routed(s))'
      BY <2>1 DEF Routed, RoutesTo, Of, engineVars, envoyVars
    <3> QED BY <3>3, <3>4 DEF StaysRouted
  <2> QED BY <2>2, <2>3
<1>6. CASE RestartEnvoy \/ WaitForRouteFails
  BY <1>6, TimeoutOK DEF RestartEnvoy, WaitForRouteFails
<1>7. CASE TearDown
  <2>1. /\ Ended(Current, "absent") /\ faults = 0 /\ pc = "teardown"
        /\ UNCHANGED envoyVars /\ UNCHANGED xdsVars
    BY <1>1, <1>7 DEF TearDown
  <2>2. Current \in Containers /\ Current[2] = want[cur]
    BY <2>1, CurrentIn DEF Busy, Cutover, Ensuring
  <2>3. ~up[Current]
    BY <2>1, <2>2 DEF IInv, CleanOK, EngineOK
  <2> QED BY <2>1, <2>2, <2>3, EndedKeeps, RoutedFrame DEF envoyVars, xdsVars
<1>8. CASE \E c \in Containers : Drain(c)
  <2>1. PICK c \in Containers : Drain(c)
    BY <1>8
  <2>2. /\ Ended(c, "absent") /\ pc = "drain" /\ c[1] = cur /\ c # Current /\ faults = 0
        /\ UNCHANGED envoyVars /\ UNCHANGED xdsVars /\ UNCHANGED want
    BY <2>1 DEF Drain, StopAndRemove, IInv, CurOK, Busy
  <2>3. CASE s # cur
    BY <2>2, <2>3, EndedKeeps, RoutedFrame DEF envoyVars, xdsVars
  <2>4. CASE s = cur
    <3>1. Current \in Of(s) /\ up[Current] /\ ip[Current] = addr /\ snap[s] = addr
      BY <2>2, <2>4, MovesToAnswering DEF Moving, IInv, RouteOK
    <3>2. up'[Current] /\ ip'[Current] = addr /\ snap'[s] = addr
      BY <2>2, <3>1, EngineTyped, EndedOK DEF IInv, Only, Of, xdsVars
    <3>3. (Named(s))'
      BY <3>1, <3>2 DEF Named, Of
    <3>4. ASSUME Routed(s) PROVE (Routed(s))'
      <4>1. PICK d \in Of(s) : up[d] /\ ip[d] = eds[s] /\ envoy # "none"
        BY <3>4 DEF Routed, RoutesTo
      <4>2. eds[s] # NoIP
        BY <4>1 DEF IInv, EngineOK, Of
      <4>3. eds \in {snap, NoRoutes}
        BY <2>1, <2>4 DEF Drain, DrainDelayOver
      <4>4. eds = snap
        BY <1>1, <4>2, <4>3 DEF NoRoutes
      <4>5. envoy' # "none" /\ eds'[s] = addr
        BY <2>2, <3>1, <4>1, <4>4 DEF envoyVars
      <4> QED BY <3>1, <3>2, <4>5 DEF Routed, RoutesTo, Of
    <3> QED BY <3>3, <3>4 DEF StaysRouted
  <2> QED BY <2>3, <2>4
<1>9. CASE \E c \in Containers : Prune(c)
  <2>1. PICK c \in Containers : Prune(c)
    BY <1>9
  <2>2. Ended(c, "absent") /\ c[1] # s /\ UNCHANGED envoyVars /\ UNCHANGED xdsVars
    BY <1>1, <2>1 DEF Prune, StopAndRemove, IInv, PruneOK
  <2> QED BY <2>2, EndedKeeps, RoutedFrame DEF envoyVars, xdsVars
<1>10. CASE EnvoyLoads
  BY <1>10, SameKeeps, RoutedFrame DEF EnvoyLoads, xdsVars
<1>11. CASE \E c \in Containers : AppUp(c)
  <2>1. Keeps(s)
    BY <1>11 DEF AppUp, Keeps, Of, IInv, TypeOK
  <2> QED BY <1>11, <2>1, RoutedFrame DEF AppUp, envoyVars, xdsVars
<1>12. CASE CutoverNext
  BY <1>1, <1>2, <1>5, <1>6, <1>7, <1>12 DEF CutoverNext, Inspect, WaitHealthy, WaitFails,
     UpdateClusterEDSFails, WaitForRoute, RestartEnvoyFails, CutoverFails, envoyVars, xdsVars
<1>13. CASE ReconcileNext
  BY <1>1, <1>2, <1>3, <1>4, <1>8, <1>9, <1>12, <1>13 DEF ReconcileNext, Tick, List, Pick,
     EnsureCert, envoyVars, EnsureFails, StartFails, DrainFails, DrainEnds, NetworksFail, ImageFails, ServicesEnd,
     PruneFails, PruneEnds, ReportSettled, xdsVars
<1>14. CASE EnvironmentNext \/ UNCHANGED vars
  BY <1>1, <1>2, <1>10, <1>11, <1>14 DEF EnvironmentNext, envoyVars, AgentRestart, EnvoyExits, AppExits,
     Deploy, vars, xdsVars
<1> QED BY <1>13, <1>14 DEF Next

(* Before the first fault no step, neither of its own cutover nor of       *)
(* another service's, takes a web service's endpoint away, and Envoy goes  *)
(* on routing to it unless it is made anew to publish other ports.         *)
THEOREM RoutesAreKept == Spec => RoutedStaysRouted
<1> DEFINE Step == \A s \in Services :
       faults' = 0 /\ Named(s) /\ IsWeb(s) /\ (IsWeb(s))'
         => /\ (Named(s))'
            /\ Routed(s) => (Routed(s))' \/ (envoy # Ports /\ envoy' = Ports)
<1>1. IInv /\ LastOK /\ [Next]_vars => [Step]_vars
  BY RoutedStep DEF StaysRouted
<1>2. RoutedStaysRouted <=> [][Step]_vars
  BY DEF RoutedStaysRouted
<1> HIDE DEF Step
<1> QED BY <1>1, <1>2, PassInvariance, EndpointsAreRouted, PTL DEF Spec
=============================================================================
