--------------------------- MODULE SharedWorkflow ---------------------------
(***************************************************************************)
(* Shared mode: the commands of the CLI (cli/internal/workflow/app.go)     *)
(* against the control plane, on the three files the processes of one user *)
(* share: auth.json with the session (cli/internal/auth, state), the       *)
(* workspace's devopsellence.yml and the mode and environment selected for *)
(* it.  None of the files is locked, and none is replaced atomically.      *)
(*                                                                         *)
(* A command is the sequence of its stages: a request to the control plane *)
(* or a step on a file.  A request that is answered 401 starts a           *)
(* refresh of the session in the commands that retry.  Every organization  *)
(* has one member, its owner, and the workspace's project one name.        *)
(***************************************************************************)
EXTENDS Naturals, Sequences, FiniteSets, Functions

CONSTANTS
  CliCount,       \* processes; a command runs in the first that is idle
  Pairs,          \* the pairs of commands that are run beside each other
  None, NoJob, Torn,
  MaxCommands,    \* bound: commands started
  MaxFaults,      \* bound: crashes, failing requests, lost answers
  MaxExpiries     \* bound: access tokens that expire

Clis == 1..CliCount

ASSUME SharedBoundAssumption == /\ CliCount \in Nat /\ MaxCommands \in Nat /\ MaxFaults \in Nat
                                /\ MaxExpiries \in Nat

(* A file that is half written is neither one that is absent nor a session.*)
ASSUME TornAssumption ==
  /\ Torn # None
  /\ Torn \notin [tok : [row : Nat, gen : Nat], anon : Nat, org : Nat]

VARIABLES
  disk,      \* auth.json: the file's identity and its content
  cfg,       \* devopsellence.yml: organization, environment, secret ref
  saved,     \* mode and environment selected for the workspace
  srv,       \* the tables of the control plane
  expired,   \* pairs of tokens whose access token has expired
  lapsed,    \* those of them whose refresh token has expired too
  servers,   \* servers the provider runs for this user
  pc, job,   \* where each process is, and the variables of its command
  overlap,   \* history: whether two commands have run at once
  faults, commands

files == <<disk, cfg, saved>>
vars  == <<files, srv, expired, lapsed, servers, pc, job, overlap, faults, commands>>

OrgNames == {"default", "team"}
EnvNames == {"production", "staging"}
Human    == 1                            \* the account behind auth login
First(S) == CHOOSE x \in S : \A y \in S : x <= y
NoPair   == [row |-> 0, gen |-> 0]
Empty    == [tok |-> NoPair, anon |-> 0, org |-> 0]

-----------------------------------------------------------------------------
(* The control plane.  A session is a row of api_tokens; its access and    *)
(* refresh token change together, which the generation counts.             *)
(* Variant: the tokens are handed out and their record is not saved.       *)
IssueUnsaved(s, u, ci) == s

Issue(s, u, ci) ==
  [s EXCEPT !.grants = Append(@, [user |-> u, gen |-> 1, live |-> TRUE, ci |-> ci])]
Rotate(s, row)   == [s EXCEPT !.grants[row].gen = @ + 1]
RefreshActive(t) == /\ t.row # 0 /\ srv.grants[t.row].live
                    /\ srv.grants[t.row].gen = t.gen /\ t \notin lapsed
AccessActive(t)  == RefreshActive(t) /\ t \notin expired
UserOf(t)        == srv.grants[t.row].user
IsHuman(u)       == u = Human \/ u \in srv.claimed

OrgsOf(u)         == {o \in DOMAIN srv.orgs : srv.orgs[o].owner = u}
ProjectsIn(s, o)  == {r \in DOMAIN s.projects : s.projects[r].live /\ s.projects[r].org = o}
EnvsIn(s, r, name) ==
  {e \in DOMAIN s.envs : s.envs[e].live /\ s.envs[e].project = r /\ s.envs[e].name = name}
OwnerOfProject(r) == srv.orgs[srv.projects[r].org].owner
OwnsProject(u, r) == srv.projects[r].live /\ OwnerOfProject(r) = u
OwnsEnv(u, e)     == srv.envs[e].live /\ OwnsProject(u, srv.envs[e].project)

(* The anonymous account's organization is on trial, a human's is paid.    *)
AddOrg(s, u, name) ==
  [s EXCEPT !.orgs = Append(@, [owner |-> u, name |-> name,
                                trial |-> ~IsHuman(u), registry |-> FALSE])]
AddProject(s, o) == [s EXCEPT !.projects = Append(@, [org |-> o, live |-> TRUE])]
AddEnv(s, r, name) ==
  [s EXCEPT !.envs = Append(@, [project |-> r, name |-> name, live |-> TRUE,
                                secret |-> FALSE, direct |-> TRUE])]

(* Deleting an environment returns the nodes assigned to it.               *)
DropEnvs(s, E) ==
  [s EXCEPT !.envs = [e \in DOMAIN s.envs |-> [s.envs[e] EXCEPT !.live = @ /\ e \notin E]],
            !.node.env = IF @ \in E THEN 0 ELSE @]
DropProject(s, r) ==
  [DropEnvs(s, {e \in DOMAIN s.envs : s.envs[e].project = r})
     EXCEPT !.projects[r].live = FALSE]

(* The organization a deploy target names or leaves open; empty when one   *)
(* has to be created or the request is refused.                            *)
TargetOrgs(u, name, last) ==
  LET mine     == OrgsOf(u)
      named(n) == {o \in mine : srv.orgs[o].name = n}
  IN  IF name # None THEN named(name)
      ELSE IF named("default") # {} THEN named("default")
      ELSE IF Cardinality(mine) = 1 THEN mine ELSE mine \cap {last}

MayCreateOrg(u, name) == \/ OrgsOf(u) = {}
                         \/ name # None /\ IsHuman(u)

(* A deployment is found again by the token of its request.                *)
PublishRelease(s, r, e, token) ==
  IF \E d \in DOMAIN s.deployments : s.deployments[d].token = token
  THEN s
  ELSE [s EXCEPT !.deployments = Append(@, [release |-> r, env |-> e, token |-> token,
                                            status |-> "running"])]

-----------------------------------------------------------------------------
(* The files.                                                              *)
Read == IF disk.data = None THEN Empty ELSE disk.data
Unreadable == disk.data = Torn

LastOrganization == IF Unreadable THEN 0 ELSE Read.org

EffectiveEnvironment(explicit, existing) ==
  IF explicit # None THEN explicit
  ELSE IF saved.env # None THEN saved.env
  ELSE IF existing # None THEN existing.env ELSE "production"

OrganizationInput(j) ==
  IF j.org_in # None THEN j.org_in ELSE IF j.cfg = None THEN None ELSE j.cfg.org

-----------------------------------------------------------------------------
(* The commands.                                                           *)
resolveWorkspace == <<"load", "org", "remember", "project", "env">>
resolveWorkspaceCreating ==
  <<"org", "make_org", "remember", "project", "make_project", "env", "make_env">>
resolveProject      == <<"load", "org", "remember", "project">>
initializeWorkspace == <<"load", "target", "remember", "write_config">>

Login   == <<"login">>
Logout  == <<"logout">>
ModeUse == <<"mode_use">>
InitWorkspace == <<"mode_use", "auth_create">> \o initializeWorkspace
Deploy  == <<"inspect", "auth_create", "target", "remember", "image",
             "release", "publish", "poll">>
Delete     == <<"mode", "auth">> \o resolveWorkspace \o <<"delete_env">>
Status     == <<"mode", "auth">> \o resolveWorkspace \o <<"read">>
SecretList == <<"mode", "auth">> \o resolveWorkspace \o <<"read">>
SecretSet  == <<"mode", "auth">> \o resolveWorkspace \o <<"has_service", "secret_set", "set_ref">>
SecretDelete ==
  <<"mode", "auth">> \o resolveWorkspace \o <<"has_service", "secret_delete", "drop_ref">>

NodeList           == <<"mode", "auth", "org", "remember", "read">>
NodeAssign         == <<"mode", "auth">> \o resolveWorkspace \o <<"assign">>
NodeUnassign       == <<"mode", "auth", "unassign">>
NodeDelete         == <<"mode", "auth", "delete_node">>
NodeDiagnose       == <<"mode", "auth", "diagnose", "poll_diagnose">>
RegisterUnassigned == <<"mode", "auth", "load", "org", "remember", "boot_token">>
NodeBootstrap      == <<"mode", "auth", "inspect">> \o resolveWorkspaceCreating \o <<"boot_token">>
SharedSoloNodeCreate == NodeBootstrap \o <<"server", "install">>

Claim       == <<"auth", "claim">>
TokenCreate == <<"auth", "token_create">>
TokenList   == <<"auth", "read">>
TokenRevoke == <<"auth", "token_revoke">>

OrganizationList == <<"auth", "read">>
OrganizationUse  == <<"need_config", "auth", "org", "remember", "use_org", "remember">>
OrganizationRegistryShow == <<"auth", "load", "org", "remember", "read">>
OrganizationRegistrySet  == <<"auth", "load", "org", "remember", "registry">>
ProjectList   == <<"auth", "load", "org", "remember", "read">>
ProjectCreate == <<"auth", "load", "org", "remember", "make_project">>
ProjectDelete == <<"auth">> \o resolveProject \o <<"delete_project">>
ProjectUse    == <<"need_config", "auth", "org", "remember", "project", "use_org", "remember">>
EnvironmentList    == <<"auth">> \o resolveProject \o <<"read">>
EnvironmentCreate  == <<"auth">> \o resolveProject \o <<"make_env">>
EnvironmentIngress == <<"auth">> \o resolveWorkspace \o <<"ingress">>
EnvironmentUse     == <<"need_config", "auth", "org", "remember", "project", "env",
                        "use_env", "remember">>

(* The commands, with the ones that take an organization's and the ones    *)
(* that take an environment's name.                                        *)
WithOrg == {InitWorkspace, OrganizationUse}
WithEnv == {EnvironmentUse, EnvironmentCreate}
Programs ==
  {Login, Logout, ModeUse, InitWorkspace, Deploy, Delete, Status, SecretList, SecretSet,
   SecretDelete, NodeList, NodeAssign, NodeUnassign, NodeDelete, NodeDiagnose,
   RegisterUnassigned, NodeBootstrap, SharedSoloNodeCreate, Claim, TokenCreate,
   TokenList, TokenRevoke, OrganizationList, OrganizationUse,
   OrganizationRegistryShow, OrganizationRegistrySet, ProjectList, ProjectCreate,
   ProjectDelete, ProjectUse, EnvironmentList, EnvironmentCreate,
   EnvironmentIngress, EnvironmentUse}

(* The stages that send no request of the command's own, and the requests  *)
(* that are repeated once with a new session when they are answered 401.   *)
LocalStages == {"mode_use", "mode", "need_config", "login", "logout", "auth",
                "auth_create", "inspect", "load", "remember", "write_config",
                "has_service", "set_ref", "drop_ref", "use_org", "use_env",
                "server", "install"}
RetriedStages == {"target", "image", "release", "publish", "poll", "boot_token"}

-----------------------------------------------------------------------------
NewJob(prog, cmd, org, env, mode, ci) ==
  [prog |-> prog, todo |-> prog, cmd |-> cmd, org_in |-> org, env_in |-> env, mode_in |-> mode,
   ci |-> ci, tok |-> NoPair, cfg |-> None, created |-> FALSE,
   org |-> 0, project |-> 0, env |-> 0, item |-> 0, again |-> FALSE, tries |-> 0,
   held |-> Empty, via |-> "", human |-> FALSE, next |-> Empty, ino |-> 0]

End(p) == pc' = [pc EXCEPT ![p] = "idle"] /\ job' = [job EXCEPT ![p] = NoJob]

(* Go on with the stages todo; a command ends with its last one.           *)
GoOn(p, j, todo) ==
  IF todo = <<>> THEN End(p)
  ELSE /\ pc' = [pc EXCEPT ![p] = "run"]
       /\ job' = [job EXCEPT ![p] = [j EXCEPT !.todo = todo, !.again = FALSE, !.tries = 0]]
Continue(p, j) == GoOn(p, j, Tail(j.todo))

(* Wait at another step, or repeat the request of this stage.              *)
Await(p, at, j) == pc' = [pc EXCEPT ![p] = at] /\ job' = [job EXCEPT ![p] = j]

Stage(p)   == Head(job[p].todo)
At(p, st)  == pc[p] = "run" /\ Stage(p) = st
Me(p)      == UserOf(job[p].tok)
Asks(p, st) == At(p, st) /\ AccessActive(job[p].tok)

Start(p) ==
  /\ pc[p] = "idle" /\ commands < MaxCommands /\ \A q \in 1..(p - 1) : pc[q] # "idle"
  /\ LET busy == {q \in Clis \ {p} : pc[q] # "idle"} IN
     \E prog \in Programs :
       /\ \A q \in busy : {<<prog, job[q].prog>>, <<job[q].prog, prog>>} \cap Pairs # {}
       /\ \E org \in IF prog \in WithOrg THEN OrgNames \cup {None} ELSE {None},
             env \in IF prog \in WithEnv THEN EnvNames ELSE {None},
             mode \in IF prog = ModeUse THEN {"solo", "shared"} ELSE {"shared"},
             ci \in IF prog = Deploy
                    THEN {0} \cup {r \in DOMAIN srv.grants : srv.grants[r].ci} ELSE {0} :
            Await(p, "run", NewJob(prog, commands + 1, org, env, mode, ci))
       /\ overlap' = (overlap \/ busy # {})
  /\ commands' = commands + 1
  /\ UNCHANGED <<files, srv, expired, lapsed, servers, faults>>

-----------------------------------------------------------------------------
(* The session.                                                            *)

(* What to do without a session that works: restore the anonymous account, *)
(* create one where the command may, or stop.                              *)
WithoutSession(p, j) ==
  IF j.held.anon # 0 \/ Stage(p) = "auth_create" THEN Await(p, "bootstrap", j)
  ELSE End(p)

(* Variants: a session that has expired is given up; a file that cannot be *)
(* read is one without a session.                                          *)
AuthenticateUnrefreshed(p) ==
  /\ At(p, "auth") \/ At(p, "auth_create")
  /\ IF Unreadable THEN End(p)
     ELSE IF Read.tok # NoPair /\ Read.tok \notin expired
     THEN Continue(p, [job[p] EXCEPT !.tok = Read.tok])
     ELSE WithoutSession(p, [job[p] EXCEPT !.held = Read])
  /\ UNCHANGED <<files, srv, expired, lapsed, servers, overlap, faults,
                 commands>>
AuthenticateAnyFile(p) ==
  /\ At(p, "auth") \/ At(p, "auth_create")
  /\ LET held == IF Unreadable THEN Empty ELSE Read IN
     IF held.tok # NoPair /\ held.tok \notin expired
     THEN Continue(p, [job[p] EXCEPT !.tok = held.tok])
     ELSE WithoutSession(p, [job[p] EXCEPT !.held = held])
  /\ UNCHANGED <<files, srv, expired, lapsed, servers, overlap, faults,
                 commands>>

(* EnsureAuthenticated *)
Authenticate(p) ==
  /\ At(p, "auth") \/ At(p, "auth_create")
  /\ LET j == [job[p] EXCEPT !.held = Read] IN
     IF j.ci # 0
     THEN Continue(p, [job[p] EXCEPT !.tok = [row |-> j.ci, gen |-> 1]])
     ELSE IF Unreadable THEN End(p)
     ELSE IF j.held.tok # NoPair /\ j.held.tok \notin expired
     THEN Continue(p, [job[p] EXCEPT !.tok = j.held.tok])
     ELSE IF j.held.tok # NoPair THEN Await(p, "refresh", j) ELSE WithoutSession(p, j)
  /\ UNCHANGED <<files, srv, expired, lapsed, servers, overlap, faults,
                 commands>>

(* A request answered 401: reauthenticate once where the command retries.  *)
Unauthorized(p) ==
  /\ pc[p] = "run" /\ Stage(p) \notin LocalStages /\ ~AccessActive(job[p].tok)
  /\ LET j == [job[p] EXCEPT !.held = Read] IN
     IF Stage(p) \notin RetriedStages \/ job[p].again \/ Unreadable
     THEN End(p)
     ELSE IF j.held.tok # NoPair THEN Await(p, "refresh", j) ELSE WithoutSession(p, j)
  /\ UNCHANGED <<files, srv, expired, lapsed, servers, overlap, faults,
                 commands>>

(* Refresh: the server rotates both tokens, or refuses a stale one.        *)
Refresh(p) ==
  /\ pc[p] = "refresh"
  /\ LET t == job[p].held.tok IN
     IF RefreshActive(t)
     THEN /\ srv' = Rotate(srv, t.row)
          /\ Await(p, "persist", [job[p] EXCEPT !.tok = [t EXCEPT !.gen = @ + 1],
                                    !.via = "refresh", !.human = IsHuman(UserOf(t))])
     ELSE UNCHANGED srv /\ WithoutSession(p, job[p])
  /\ UNCHANGED <<files, expired, lapsed, servers, overlap, faults, commands>>

RefreshLost(p) ==
  /\ pc[p] = "refresh" /\ faults < MaxFaults
  /\ LET t == job[p].held.tok IN
     srv' \in {srv} \cup IF RefreshActive(t) THEN {Rotate(srv, t.row)} ELSE {}
  /\ WithoutSession(p, job[p])
  /\ faults' = faults + 1
  /\ UNCHANGED <<files, expired, lapsed, servers, overlap, commands>>

(* BootstrapAnonymous: with the saved credentials, or ones drawn for a new *)
(* account.  A claimed account has given up its identifier.                *)
BootstrapAnonymous(p) ==
  /\ pc[p] = "bootstrap"
  /\ LET known == job[p].held.anon
         id    == IF known = 0 THEN srv.drawn + 1 ELSE known
         bound == {u \in DOMAIN srv.users : srv.users[u] = id /\ u \notin srv.claimed}
         s1    == [srv EXCEPT !.drawn = IF known = 0 THEN id ELSE @,
                              !.users = IF bound = {} THEN Append(@, id) ELSE @]
         s2    == Issue(s1, IF bound = {} THEN Len(s1.users) ELSE First(bound), FALSE)
     IN /\ srv' = s2
        /\ Await(p, "persist", [job[p] EXCEPT !.held.anon = id, !.via = "bootstrap",
                   !.tok = [row |-> Len(s2.grants), gen |-> 1], !.human = FALSE])
  /\ UNCHANGED <<files, expired, lapsed, servers, overlap, faults, commands>>

SignIn(p) ==
  /\ At(p, "login")
  /\ srv' = Issue(srv, Human, FALSE)
  /\ Await(p, "persist", [job[p] EXCEPT !.tok = [row |-> Len(srv.grants) + 1, gen |-> 1],
                            !.via = "login", !.human = TRUE])
  /\ UNCHANGED <<files, expired, lapsed, servers, overlap, faults, commands>>

SignOut(p) ==
  /\ At(p, "logout")
  /\ disk' = [disk EXCEPT !.data = None]
  /\ Continue(p, job[p])
  /\ UNCHANGED <<cfg, saved, srv, expired, lapsed, servers, overlap, faults,
                 commands>>

(* The session goes back to the stage it is for; a repeated request keeps  *)
(* its stage.                                                              *)
Resume(p, j) ==
  LET clean == [j EXCEPT !.held = Empty, !.via = "", !.next = Empty, !.human = FALSE, !.ino = 0] IN
  IF Stage(p) \in LocalStages THEN Continue(p, clean)
  ELSE Await(p, "run", [clean EXCEPT !.again = TRUE, !.tries = 0])

(* Variant: refreshed tokens are used and not saved.                       *)
PersistNew(p) ==
  /\ pc[p] = "persist"
  /\ LET j == job[p] IN
     IF j.via = "refresh" THEN Resume(p, j)
     ELSE IF Unreadable THEN End(p)
     ELSE Await(p, "truncate", [j EXCEPT !.next =
            [Read EXCEPT !.tok = j.tok, !.anon = IF j.human THEN 0 ELSE j.held.anon]])
  /\ UNCHANGED <<files, srv, expired, lapsed, servers, overlap, faults,
                 commands>>

(* persist: read the file, put the new tokens into it.                     *)
Persist(p) ==
  /\ pc[p] = "persist"
  /\ LET j    == job[p]
         anon == IF j.human THEN 0
                 ELSE IF j.via = "bootstrap" THEN j.held.anon ELSE Read.anon
     IN IF ~Unreadable
        THEN Await(p, "truncate", [j EXCEPT !.next = [Read EXCEPT !.tok = j.tok, !.anon = anon]])
        ELSE IF j.via = "refresh" THEN WithoutSession(p, j) ELSE End(p)
  /\ UNCHANGED <<files, srv, expired, lapsed, servers, overlap, faults,
                 commands>>

(* rememberOrganization: an update of the same file, its errors ignored.   *)
RememberOrganization(p) ==
  /\ At(p, "remember")
  /\ LET j == job[p] IN
     IF Unreadable THEN Continue(p, j)
     ELSE Await(p, "truncate", [j EXCEPT !.next = [Read EXCEPT !.org = j.org]])
  /\ UNCHANGED <<files, srv, expired, lapsed, servers, overlap, faults,
                 commands>>

(* os.WriteFile opens the file, empty, and then writes.                    *)
Truncate(p) ==
  /\ pc[p] = "truncate"
  /\ disk' = [ino |-> IF disk.data = None THEN disk.ino + 1 ELSE disk.ino, data |-> Torn]
  /\ Await(p, "write", [job[p] EXCEPT !.ino = disk'.ino])
  /\ UNCHANGED <<cfg, saved, srv, expired, lapsed, servers, overlap, faults,
                 commands>>

(* A file another process has removed stays removed; over what another     *)
(* process has written, the longer content shows behind the shorter.       *)
WriteFile(p) ==
  /\ pc[p] = "write"
  /\ LET j == job[p] IN
     /\ disk' \in IF disk.ino # j.ino \/ disk.data = None THEN {disk}
                  ELSE {[disk EXCEPT !.data = j.next]} \cup
                       IF disk.data \in {Torn, j.next} THEN {} ELSE {[disk EXCEPT !.data = Torn]}
     /\ Resume(p, j)
  /\ UNCHANGED <<cfg, saved, srv, expired, lapsed, servers, overlap, faults,
                 commands>>

-----------------------------------------------------------------------------
(* The steps on the workspace's files.                                     *)
Local(p, st, j) ==
  /\ At(p, st) /\ Continue(p, j)
  /\ UNCHANGED <<srv, expired, lapsed, servers, overlap, faults, commands>>

SetMode(p) == /\ Local(p, "mode_use", job[p])
              /\ saved' = [saved EXCEPT !.mode = job[p].mode_in]
              /\ UNCHANGED <<disk, cfg>>

(* A command that needs something of the workspace ends without it.        *)
InSharedMode == saved.mode = "shared"
IsConfigured == cfg # None
HasService   == cfg # None       \* the one service of the configuration
Holds(st) == CASE st \in {"mode", "inspect"} -> InSharedMode
               [] st = "need_config" -> IsConfigured
               [] st = "has_service" -> HasService
               [] OTHER -> TRUE

(* Without a devopsellence.yml, deploy and node register first write one.  *)
Instead(todo) ==
  IF cfg # None THEN todo
  ELSE IF Head(todo) = "auth_create"
  THEN <<"auth_create">> \o initializeWorkspace \o SubSeq(todo, 4, Len(todo))
  ELSE initializeWorkspace \o SubSeq(todo, Len(resolveWorkspaceCreating) + 1, Len(todo))

Inspect(p) ==
  /\ pc[p] = "run" /\ Stage(p) \in {"mode", "need_config", "has_service", "inspect", "load"}
  /\ LET j == job[p] IN
     IF ~Holds(Stage(p)) THEN End(p)
     ELSE CASE Stage(p) \in {"mode", "has_service"} -> Continue(p, j)
            [] Stage(p) = "inspect" -> GoOn(p, [j EXCEPT !.cfg = cfg], Instead(Tail(j.todo)))
            [] OTHER -> Continue(p, [j EXCEPT !.cfg = cfg, !.created = cfg = None])
  /\ UNCHANGED <<files, srv, expired, lapsed, servers, overlap, faults,
                 commands>>

(* The file is written from what was read of it before the request.        *)
WriteConfig(p) ==
  /\ LET j == job[p]
         c == [org |-> srv.orgs[j.org].name, env |-> srv.envs[j.env].name,
               ref |-> j.cfg # None /\ j.cfg.ref]
     IN Local(p, "write_config", [j EXCEPT !.cfg = c]) /\ cfg' = c
  /\ UNCHANGED <<disk, saved>>

UseOrganization(p) ==
  /\ Local(p, "use_org", job[p])
  /\ cfg' = [job[p].cfg EXCEPT !.org = srv.orgs[job[p].org].name]
  /\ UNCHANGED <<disk, saved>>

SetEnvironment(p) ==
  /\ Local(p, "use_env", job[p])
  /\ saved' = [saved EXCEPT !.env = srv.envs[job[p].env].name]
  /\ UNCHANGED <<disk, cfg>>

UpdateSecretRef(p) ==
  /\ Local(p, "set_ref", job[p]) \/ Local(p, "drop_ref", job[p])
  /\ cfg' = IF cfg = None THEN None ELSE [cfg EXCEPT !.ref = Stage(p) = "set_ref"]
  /\ UNCHANGED <<disk, saved>>

(* node create with a provider: the server exists before its agent does.   *)
CreateProviderNode(p) ==
  /\ At(p, "server") /\ Continue(p, job[p])
  /\ servers' = servers + 1
  /\ UNCHANGED <<files, srv, expired, lapsed, overlap, faults, commands>>

-----------------------------------------------------------------------------
(* The requests.  Call is one that is answered; its effect on the tables   *)
(* is s, and the command keeps j of the answer.  A refused one ends it.    *)
Call(p, st, allowed, s, j) ==
  /\ Asks(p, st)
  /\ IF allowed THEN srv' = s /\ Continue(p, j) ELSE UNCHANGED srv /\ End(p)
  /\ UNCHANGED <<files, expired, lapsed, servers, overlap, faults, commands>>

(* resolveOrganization, and resolveOrganizationReadOnly, which settles for *)
(* the only organization whatever was asked for.  One that is found by the *)
(* file's last organization is not remembered again.                       *)
Skipping(todo, st) == IF Head(todo) = st THEN Tail(todo) ELSE todo

ResolveOrganization(p) ==
  /\ Asks(p, "org")
  /\ LET j      == job[p]
         mine   == OrgsOf(Me(p))
         name   == OrganizationInput(j)
         named  == {o \in mine : srv.orgs[o].name = name}
         create == j.todo[2] = "make_org" /\ (name # None \/ mine = {})
         last   == mine \cap {LastOrganization}
         rest   == Skipping(Tail(j.todo), "make_org")
         go(o, todo) == GoOn(p, [j EXCEPT !.org = o], todo)
     IN IF named # {} THEN go(First(named), rest)
        ELSE IF create THEN go(0, Tail(j.todo))
        ELSE IF Cardinality(mine) = 1 THEN go(First(mine), rest)
        ELSE IF last # {} THEN go(First(last), Skipping(rest, "remember"))
        ELSE End(p)
  /\ UNCHANGED <<files, srv, expired, lapsed, servers, overlap, faults,
                 commands>>

CreateOrganization(p) ==
  LET name == OrganizationInput(job[p]) IN
  Call(p, "make_org", MayCreateOrg(Me(p), name),
       AddOrg(srv, Me(p), IF name = None THEN "default" ELSE name),
       [job[p] EXCEPT !.org = Len(srv.orgs) + 1])

(* A listing; what is not found is created by the next stage, or ends the  *)
(* command.                                                                *)
Find(p, st, visible, S, make, j) ==
  /\ Asks(p, st)
  /\ LET rest == Tail(job[p].todo) IN
     IF visible /\ S # {} THEN GoOn(p, j, Skipping(rest, make))
     ELSE IF visible /\ Head(rest) = make THEN GoOn(p, job[p], rest) ELSE End(p)
  /\ UNCHANGED <<files, srv, expired, lapsed, servers, overlap, faults,
                 commands>>

FindProject(p) ==
  LET S == ProjectsIn(srv, job[p].org)
  IN Find(p, "project", srv.orgs[job[p].org].owner = Me(p), S, "make_project",
          [job[p] EXCEPT !.project = First(S)])

FindEnvironment(p) ==
  LET S == EnvsIn(srv, job[p].project, EffectiveEnvironment(job[p].env_in, job[p].cfg))
  IN Find(p, "env", OwnsProject(Me(p), job[p].project), S, "make_env",
          [job[p] EXCEPT !.env = First(S)])

CreateProject(p) ==
  LET o == job[p].org IN
  Call(p, "make_project", srv.orgs[o].owner = Me(p) /\ ProjectsIn(srv, o) = {},
       AddProject(srv, o), [job[p] EXCEPT !.project = Len(srv.projects) + 1])

CreateEnvironment(p) ==
  LET r    == job[p].project
      name == EffectiveEnvironment(job[p].env_in, job[p].cfg)
  IN Call(p, "make_env", OwnsProject(Me(p), r) /\ EnvsIn(srv, r, name) = {},
          AddEnv(srv, r, name), [job[p] EXCEPT !.env = Len(srv.envs) + 1])

(* resolveDeployTarget: one request finds or creates all three.            *)
ResolveDeployTarget(p) ==
  LET j     == job[p]
      name  == OrganizationInput(j)
      found == TargetOrgs(Me(p), name, LastOrganization)
      env   == EffectiveEnvironment(j.env_in, j.cfg)
      s1    == IF found # {} THEN srv
               ELSE AddOrg(srv, Me(p), IF name = None THEN "default" ELSE name)
      o     == IF found # {} THEN First(found) ELSE Len(s1.orgs)
      s2    == IF ProjectsIn(s1, o) # {} THEN s1 ELSE AddProject(s1, o)
      r     == First(ProjectsIn(s2, o))
      s3    == IF EnvsIn(s2, r, env) # {} THEN s2 ELSE AddEnv(s2, r, env)
  IN Call(p, "target", found # {} \/ MayCreateOrg(Me(p), name), s3,
          [j EXCEPT !.org = o, !.project = r, !.env = First(EnvsIn(s3, r, env))])

(* resolveImage: push credentials for the project, then build and push.    *)
(* The image's port may be written to a file this command has created.     *)
ResolveImage(p) ==
  /\ Asks(p, "image")
  /\ IF OwnsProject(Me(p), job[p].project)
     THEN cfg' \in {cfg} \cup (IF job[p].created THEN {job[p].cfg} ELSE {}) /\ Continue(p, job[p])
     ELSE UNCHANGED cfg /\ End(p)
  /\ UNCHANGED <<disk, saved, srv, expired, lapsed, servers, overlap, faults,
                 commands>>

CreateRelease(p) ==
  LET j == job[p] IN
  Call(p, "release", OwnsProject(Me(p), j.project),
       [srv EXCEPT !.releases = Append(@, [project |-> j.project, cmd |-> j.cmd])],
       [j EXCEPT !.item = Len(srv.releases) + 1])

(* Variants: a token is drawn for each attempt; the token stands for the   *)
(* environment that is deployed to.                                        *)
RequestTokenPerAttempt(j) == 2 * j.cmd + j.tries
RequestTokenOfTarget(j)   == j.env

(* The token of the publish request is drawn once for the command.         *)
RequestToken(j) == j.cmd

Publishable(p) ==
  LET j == job[p] IN /\ OwnsProject(Me(p), srv.releases[j.item].project)
                     /\ srv.envs[j.env].live
                     /\ srv.envs[j.env].project = srv.releases[j.item].project
Published(p) == PublishRelease(srv, job[p].item, job[p].env, RequestToken(job[p]))
Publish(p) ==
  Call(p, "publish", Publishable(p), Published(p),
       [job[p] EXCEPT !.item = First({d \in DOMAIN Published(p).deployments :
                          Published(p).deployments[d].token = RequestToken(job[p])})])

(* publishReleaseWithRetry: a timeout, after the request was served or     *)
(* before, is followed by one more attempt.                                *)
PublishTimesOut(p) ==
  /\ Asks(p, "publish") /\ Publishable(p) /\ job[p].tries = 0 /\ faults < MaxFaults
  /\ srv' \in {srv, Published(p)}
  /\ Await(p, "run", [job[p] EXCEPT !.tries = 1])
  /\ faults' = faults + 1
  /\ UNCHANGED <<files, expired, lapsed, servers, overlap, commands>>

(* pollDeploymentProgress: a poll that finds the deployment running, or is *)
(* answered 502, 503 or 504, is followed by another one, which reacts to a *)
(* 401 of its own.  The deadline ends it.                                  *)
PollDeployment(p) ==
  /\ Asks(p, "poll")
  /\ IF srv.deployments[job[p].item].status # "running" THEN End(p)
     ELSE Await(p, "run", [job[p] EXCEPT !.again = FALSE])
  /\ UNCHANGED <<files, srv, expired, lapsed, servers, overlap, faults,
                 commands>>

PollDiagnose(p) ==
  /\ Asks(p, "poll_diagnose") /\ srv.diagnoses[job[p].item] # "pending"
  /\ End(p)
  /\ UNCHANGED <<files, srv, expired, lapsed, servers, overlap, faults,
                 commands>>

Deadline(p) ==
  /\ At(p, "poll") \/ At(p, "poll_diagnose")
  /\ End(p)
  /\ UNCHANGED <<files, srv, expired, lapsed, servers, overlap, faults,
                 commands>>

(* Requests on what the workspace resolved to.                             *)
DeleteEnvironment(p) ==
  Call(p, "delete_env", OwnsEnv(Me(p), job[p].env), DropEnvs(srv, {job[p].env}), job[p])
DeleteProject(p) ==
  Call(p, "delete_project", OwnsProject(Me(p), job[p].project),
       DropProject(srv, job[p].project), job[p])
UpsertSecret(p) ==
  Call(p, "secret_set", OwnsEnv(Me(p), job[p].env),
       [srv EXCEPT !.envs[job[p].env].secret = TRUE], job[p])
DeleteSecret(p) ==
  Call(p, "secret_delete", OwnsEnv(Me(p), job[p].env) /\ srv.envs[job[p].env].secret,
       [srv EXCEPT !.envs[job[p].env].secret = FALSE], job[p])
UpdateIngress(p) ==
  Call(p, "ingress", OwnsEnv(Me(p), job[p].env),
       [srv EXCEPT !.envs[job[p].env].direct = FALSE], job[p])
SetRegistry(p) ==
  Call(p, "registry", srv.orgs[job[p].org].owner = Me(p),
       [srv EXCEPT !.orgs[job[p].org].registry = TRUE], job[p])
ReadOnly(p) == Call(p, "read", TRUE, srv, job[p])

(* Requests on the node, which is a customer's, of the organization 1.     *)
NodeIsMine(p) == srv.orgs[1].owner = Me(p) /\ ~srv.orgs[1].trial
AssignNode(p) ==
  Call(p, "assign", /\ OwnsEnv(Me(p), job[p].env) /\ srv.node.live /\ NodeIsMine(p)
                    /\ srv.projects[srv.envs[job[p].env].project].org = 1,
       [srv EXCEPT !.node.env = job[p].env], job[p])
UnassignNode(p) == Call(p, "unassign", NodeIsMine(p), [srv EXCEPT !.node.env = 0], job[p])
DeleteNode(p) ==
  Call(p, "delete_node", NodeIsMine(p) /\ srv.node.env = 0, [srv EXCEPT !.node.live = FALSE], job[p])
(* A diagnosis that is still open is joined.                               *)
DiagnoseNode(p) ==
  LET open == {d \in DOMAIN srv.diagnoses : srv.diagnoses[d] = "pending"}
      new  == Len(srv.diagnoses) + 1
  IN Call(p, "diagnose", NodeIsMine(p),
          IF open # {} THEN srv ELSE [srv EXCEPT !.diagnoses = Append(@, "pending")],
          [job[p] EXCEPT !.item = IF open # {} THEN First(open) ELSE new])

(* A new bootstrap token replaces the active one of the organization.      *)
CreateBootstrapToken(p) ==
  LET j == job[p] IN
  Call(p, "boot_token", srv.orgs[j.org].owner = Me(p) /\ ~srv.orgs[j.org].trial
                        /\ (j.env = 0 \/ srv.envs[j.env].live),
       [srv EXCEPT !.boot = [o \in DOMAIN @ \cup {j.org} |-> IF o = j.org THEN j.cmd ELSE @[o]]], j)

(* The install command runs on the new server with this command's token.   *)
InstallNode(p) ==
  /\ At(p, "install")
  /\ srv' = IF srv.boot[job[p].org] = job[p].cmd THEN [srv EXCEPT !.boot[job[p].org] = 0] ELSE srv
  /\ Continue(p, job[p])
  /\ UNCHANGED <<files, expired, lapsed, servers, overlap, faults, commands>>

(* Requests on the account.                                                *)
StartClaim(p) ==
  Call(p, "claim", ~IsHuman(Me(p)), [srv EXCEPT !.claims = @ \cup {Me(p)}], job[p])
CreateToken(p) ==
  Call(p, "token_create", ~srv.grants[job[p].tok.row].ci, Issue(srv, Me(p), TRUE), job[p])
RevokeToken(p) ==
  \E row \in DOMAIN srv.grants :
    Call(p, "token_revoke", srv.grants[row].user = Me(p),
         [srv EXCEPT !.grants[row].live = FALSE], job[p])

-----------------------------------------------------------------------------
(* Around the commands: an access token reaches its hour, a refresh token  *)
(* its 30 days, the person opens the link of a claim, a rollout settles, a *)
(* node answers a diagnosis.                                               *)
AccessExpires ==
  /\ Cardinality(expired) < MaxExpiries
  /\ \E row \in DOMAIN srv.grants :
       LET t == [row |-> row, gen |-> srv.grants[row].gen] IN
       /\ ~srv.grants[row].ci /\ t \notin expired
       /\ expired' = expired \cup {t}
  /\ UNCHANGED <<files, srv, lapsed, servers, pc, job, overlap, faults,
                 commands>>

RefreshExpires ==
  /\ \E t \in expired \ lapsed :
       srv.grants[t.row].gen = t.gen /\ lapsed' = lapsed \cup {t}
  /\ UNCHANGED <<files, srv, expired, servers, pc, job, overlap, faults,
                 commands>>

ClaimOpened ==
  /\ \E u \in srv.claims :
       srv' = [srv EXCEPT !.claims = @ \ {u}, !.claimed = @ \cup {u}]
  /\ UNCHANGED <<files, expired, lapsed, servers, pc, job, overlap, faults,
                 commands>>

RolloutSettles ==
  /\ \E d \in DOMAIN srv.deployments :
       /\ srv.deployments[d].status = "running"
       /\ srv' = [srv EXCEPT !.deployments[d].status = "ended"]
  /\ UNCHANGED <<files, expired, lapsed, servers, pc, job, overlap, faults,
                 commands>>

DiagnoseAnswered ==
  /\ \E d \in DOMAIN srv.diagnoses :
       /\ srv.diagnoses[d] = "pending"
       /\ srv' = [srv EXCEPT !.diagnoses[d] = "done"]
  /\ UNCHANGED <<files, expired, lapsed, servers, pc, job, overlap, faults,
                 commands>>

(* A process is killed, or the request or step it is at fails.             *)
Stop(p) ==
  /\ pc[p] # "idle" /\ faults < MaxFaults
  /\ End(p)
  /\ faults' = faults + 1
  /\ UNCHANGED <<files, srv, expired, lapsed, servers, overlap, commands>>

-----------------------------------------------------------------------------
(* The workspace of someone who has not signed in, of a human or of an     *)
(* anonymous account; with a devopsellence.yml or before the first init.   *)
InitialServer(users) ==
  [users |-> users, drawn |-> Len(users) - 1, claims |-> {}, claimed |-> {},
   grants |-> [u \in DOMAIN users |-> [user |-> u, gen |-> 1, live |-> TRUE, ci |-> FALSE]],
   orgs |-> [u \in DOMAIN users |-> [owner |-> u, name |-> "default", trial |-> u # Human,
                                     registry |-> FALSE]],
   projects |-> <<[org |-> Len(users), live |-> TRUE]>>,
   envs |-> <<[project |-> 1, name |-> "production", live |-> TRUE, secret |-> FALSE,
               direct |-> TRUE]>>,
   releases |-> <<>>, deployments |-> <<>>, diagnoses |-> <<>>, boot |-> << >>,
   node |-> [env |-> IF users = <<0>> THEN 1 ELSE 0, live |-> TRUE]]

Init ==
  /\ \/ srv = InitialServer(<<0>>) /\ disk = [ino |-> 0, data |-> None]
     \/ \E users \in {<<0>>, <<0, 1>>} :
          /\ srv = InitialServer(users)
          /\ disk = [ino |-> 1, data |-> [tok |-> [row |-> Len(users), gen |-> 1],
                                          anon |-> Len(users) - 1, org |-> Len(users)]]
  /\ \/ cfg = None /\ saved = [mode |-> None, env |-> None]
     \/ /\ cfg = [org |-> "default", env |-> "production", ref |-> FALSE]
        /\ saved = [mode |-> "shared", env |-> None]
  /\ expired = {} /\ lapsed = {} /\ servers = 0 /\ overlap = FALSE /\ faults = 0 /\ commands = 0
  /\ pc = [p \in Clis |-> "idle"] /\ job = [p \in Clis |-> NoJob]

Session(p) ==
  \/ Authenticate(p) \/ Unauthorized(p) \/ Refresh(p) \/ BootstrapAnonymous(p)
  \/ SignIn(p) \/ SignOut(p) \/ Persist(p) \/ RememberOrganization(p)
  \/ Truncate(p) \/ WriteFile(p)
OnWorkspace(p) ==
  \/ SetMode(p) \/ Inspect(p) \/ WriteConfig(p)
  \/ UseOrganization(p) \/ SetEnvironment(p) \/ UpdateSecretRef(p)
  \/ CreateProviderNode(p) \/ InstallNode(p)
Request(p) ==
  \/ ResolveOrganization(p) \/ CreateOrganization(p) \/ FindProject(p)
  \/ FindEnvironment(p) \/ CreateProject(p) \/ CreateEnvironment(p)
  \/ ResolveDeployTarget(p) \/ ResolveImage(p) \/ CreateRelease(p) \/ Publish(p)
  \/ PollDeployment(p) \/ PollDiagnose(p) \/ Deadline(p)
  \/ DeleteEnvironment(p) \/ DeleteProject(p) \/ UpsertSecret(p) \/ DeleteSecret(p)
  \/ UpdateIngress(p) \/ SetRegistry(p) \/ ReadOnly(p)
  \/ AssignNode(p) \/ UnassignNode(p) \/ DeleteNode(p) \/ DiagnoseNode(p)
  \/ CreateBootstrapToken(p) \/ StartClaim(p) \/ CreateToken(p) \/ RevokeToken(p)
Step(p) == Session(p) \/ OnWorkspace(p) \/ Request(p)

(* The bound on the commands is reached; a command that cannot go on is a  *)
(* deadlock.                                                               *)
Finished == (\A p \in Clis : pc[p] = "idle") /\ commands = MaxCommands /\ UNCHANGED vars

Next ==
  \/ Finished
  \/ \E p \in Clis : Start(p) \/ Step(p) \/ RefreshLost(p) \/ PublishTimesOut(p) \/ Stop(p)
  \/ AccessExpires \/ RefreshExpires \/ ClaimOpened \/ RolloutSettles \/ DiagnoseAnswered

Spec == Init /\ [][Next]_vars

-----------------------------------------------------------------------------
(* Type correctness: a session names a row of the control plane, and what  *)
(* a command has resolved exists there.                                    *)
Auths == [tok : [row : 0..Len(srv.grants), gen : Nat], anon : 0..srv.drawn,
          org : 0..Len(srv.orgs)]
TypeOK ==
  /\ disk.data \in {None, Torn} \cup Auths
  /\ \A p \in Clis : pc[p] # "idle" =>
       /\ job[p].tok.row \in 0..Len(srv.grants) /\ job[p].org \in 0..Len(srv.orgs)
       /\ job[p].project \in 0..Len(srv.projects) /\ job[p].env \in 0..Len(srv.envs)
       /\ job[p].held \in Auths /\ job[p].todo # <<>>
  /\ \A d \in DOMAIN srv.deployments : srv.deployments[d].release \in DOMAIN srv.releases

(* A deploy creates one release and one deployment at the most, whatever   *)
(* of its requests is repeated: after a 401 with another session           *)
(* (authSession.Call), or after a timeout of a publish that was served.    *)
NothingTwice ==
  \A c \in 1..commands :
    LET R == {r \in DOMAIN srv.releases : srv.releases[r].cmd = c}
        D == {d \in DOMAIN srv.deployments : srv.deployments[d].release \in R}
    IN Cardinality(R) <= 1 /\ Cardinality(D) <= 1

(* A deploy waits for the deployment of its own release, in the            *)
(* environment it has resolved (pollDeploymentProgress): never for an      *)
(* earlier one that the control plane takes for a repetition of this       *)
(* request, whatever was repeated, timed out after it was served or sent   *)
(* with another session.                                                   *)
OwnOutcome ==
  \A p \in Clis :
    pc[p] # "idle" /\ Stage(p) = "poll" =>
      LET d == srv.deployments[job[p].item]
      IN srv.releases[d.release].cmd = job[p].cmd /\ d.env = job[p].env

Quiet == ~overlap /\ faults = 0
Idle  == \A p \in Clis : pc[p] = "idle"

(* One command at a time and without a failure, the file is left readable  *)
(* and with the tokens that the control plane expects next: no rotation of *)
(* a refresh token is forgotten (auth.Manager.Refresh, persist).           *)
SessionKept ==
  Quiet /\ Idle => /\ disk.data # Torn
                   /\ disk.data # None /\ Read.tok # NoPair =>
                        Read.tok.gen = srv.grants[Read.tok.row].gen

(* One command at a time and without a failure, what a command writes over *)
(* a session that is neither revoked nor older than the 30 days of its     *)
(* refresh token belongs to the same account, unless it is auth login: an  *)
(* access token that expires costs nobody the account.  Past the 30 days a *)
(* deploy does replace the account, by a new anonymous one                 *)
(* (EnsureAuthenticated).                                                  *)
AccountKept ==
  \A p \in Clis :
    /\ Quiet /\ pc[p] = "truncate" /\ Stage(p) # "login"
    /\ Read.tok # NoPair /\ srv.grants[Read.tok.row].live /\ Read.tok \notin lapsed
    => UserOf(job[p].next.tok) = UserOf(Read.tok)

(* A file that a killed process has left half written is not taken for     *)
(* that of a user without a session: no account is created over it.        *)
TornFailsClosed ==
  [][ ~overlap /\ Unreadable => Len(srv'.users) = Len(srv.users) ]_vars
=============================================================================
