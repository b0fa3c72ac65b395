------------------------- MODULE SoloDocumentProofs -------------------------
(***************************************************************************)
(* The documents of the nodes in SoloWorkflow: on every node that no       *)
(* command is working on, or left unfinished, there is the document that   *)
(* the state file stands for.                                              *)
(*                                                                         *)
(* To the invariant of SoloWorkflowProofs on the holder of the lock and    *)
(* the state file this one adds the third party, the hosts: of which file  *)
(* the plan of the holder is (the one of now, or the one it is about to    *)
(* write), that its nodes are all behind, and that a node it is done with  *)
(* has what was planned for it.                                            *)
(***************************************************************************)
EXTENDS SoloWorkflowProofs

-----------------------------------------------------------------------------
(* The inductive invariant *)

\* What the state file st stands for on node n; Document adds the TLS mode,
\* which devopsellence.yml has a say in.
EnvsOf(st, n)  == [e \in Released(st, n) |-> Environment(st, n, e)]
PeersOf(st, n) == [m \in Peers(st, n) |-> st.labels[m]]

Shows(d, st, n) == d # None => d.envs = EnvsOf(st, n) /\ d.peers = PeersOf(st, n)

\* The plan w is of st, for the nodes S.
Drawn(w, st, S) == DOMAIN w = S /\ \A n \in S : Shows(w[n], st, n)

DeployDocs(j, f, b) ==
  /\ f.attached[j.env] \subseteq b
  /\ Drawn(j.plan, j.next, f.attached[j.env])

\* The rollback's documents are those of the release, on its targets alone.
RollbackDocs(j, f, b) ==
  LET S == j.next.attached[j.env]
  IN /\ S \subseteq f.attached[j.env] /\ S \subseteq b
     /\ j.next.attached = Update(f.attached, j.env, S)
     /\ j.next.current = Update(f.current, j.env, j.rel)
     /\ j.next.labels = f.labels /\ j.next.releases = f.releases /\ j.next.secrets = f.secrets

\* The nodes that stay have, after the first publication, what the file is to
\* say.
DetachDocs(j, f, b, h) ==
  LET S == f.attached[j.env] \ {j.node}
  IN /\ f.attached[j.env] \subseteq b
     /\ Drawn(j.plan, j.next, IF j.op = "detach" THEN S ELSE {j.node})
     /\ j.op = "clear" => \A n \in S : Shows(h[n].override, j.next, n)

\* next is the file from before the attachment.
CreateDocs(j, f, b) ==
  /\ CreateTargets(j) \subseteq b
  /\ j.env \in Envs =>
       /\ j.next.attached = Update(f.attached, j.env, f.attached[j.env] \ {j.node})
       /\ j.next.labels = f.labels /\ j.next.releases = f.releases
       /\ j.next.current = f.current /\ j.next.secrets = f.secrets

\* What was written so far is what was planned, unless it was uninstalled.
WrittenOK(j, h) ==
  /\ DOMAIN j.plan \subseteq Nodes /\ j.todo \subseteq DOMAIN j.plan
  /\ \A n \in DOMAIN j.plan \ (j.todo \cup j.bad) : h[n].override \in {j.plan[n], None}

\* The holder of the lock, with the nodes b that are behind the file and the
\* hosts h.
DocsOK(at, j, f, b, h) ==
  /\ at \in {"server", "install"} => j.plan = << >> /\ j.todo = {} /\ j.bad = {}
  /\ at \in {"baseline", "publish", "wait"} => WrittenOK(j, h)
  /\ at \in {"baseline", "publish"} => DOMAIN j.plan \subseteq b
  /\ at = "wait" => j.todo = {} /\ j.bad = {}
  /\ at \in {"baseline", "publish"} /\ j.op = "deploy" => DeployDocs(j, f, b)
  /\ at \in {"baseline", "publish", "wait"} /\ j.op = "rollback" => RollbackDocs(j, f, b)
  /\ at \in {"publish", "wait"} /\ j.op = "rollback" =>
       Drawn(j.plan, j.next, j.next.attached[j.env])
  /\ at = "publish" /\ j.op \in {"attach", "label"} => Drawn(j.plan, f, DOMAIN j.plan)
  /\ at = "publish" /\ j.op \in {"detach", "clear"} => DetachDocs(j, f, b, h)
  /\ at = "install" \/ (at = "publish" /\ j.op \in {"create", "undo"}) => CreateDocs(j, f, b)
  /\ at = "publish" /\ j.op \in {"create", "undo"} =>
       /\ HasRelease(f, j.env)
       /\ j.bad = {} => Drawn(j.plan, IF j.op = "create" THEN f ELSE j.next, f.attached[j.env])

HostsOK ==
  /\ host = [n \in Nodes |-> host[n]]
  /\ \A n \in Nodes : "override" \in DOMAIN host[n]

PublishedOK == \A n \in Nodes \ behind : Shows(host[n].override, file, n)

HolderDocsOK == lock # NoCli => DocsOK(pc[lock], job[lock], file, behind, host)

DInv == HostsOK /\ behind \subseteq Nodes /\ PublishedOK /\ HolderDocsOK

IInv == FInv /\ DInv

-----------------------------------------------------------------------------
(* When two files stand for the same document *)

SameDoc(s, t, n) == EnvsOf(s, n) = EnvsOf(t, n) /\ PeersOf(s, n) = PeersOf(t, n)

LEMMA ShowsSame ==
  ASSUME NEW d, NEW s, NEW t, NEW n, Shows(d, s, n), SameDoc(s, t, n)
  PROVE  Shows(d, t, n)
BY DEF Shows, SameDoc

LEMMA ShowsWritten ==
  ASSUME NEW d, NEW s, NEW n, Shows(d, s, n), NEW x \in {d, None}
  PROVE  Shows(x, s, n)
BY DEF Shows

\* A document is made of the releases on its node, their secrets, and their
\* nodes with their labels.
LEMMA SameParts ==
  ASSUME NEW s, NEW t, NEW n, Released(s, n) = Released(t, n),
         \A e \in Released(s, n) :
           /\ s.attached[e] = t.attached[e] /\ Current(s, e) = Current(t, e)
           /\ s.secrets[e] = t.secrets[e]
           /\ \A m \in s.attached[e] : s.labels[m] = t.labels[m]
  PROVE  SameDoc(s, t, n)
<1>1. ASSUME NEW e \in Released(s, n) PROVE Environment(s, n, e) = Environment(t, n, e)
  <2>1. n \in s.attached[e] /\ s.labels[n] = t.labels[n]
    BY DEF Released, AttachedTo
  <2>2. TaskNodes(s, s.attached[e]) = TaskNodes(t, t.attached[e])
    BY DEF TaskNodes, Runs
  <2>3. Current(s, e) = Current(t, e) /\ s.secrets[e] = t.secrets[e]
    OBVIOUS
  <2>4. QED
    BY <2>1, <2>2, <2>3 DEF Environment, Runs
<1>2. EnvsOf(s, n) = EnvsOf(t, n)
  BY <1>1 DEF EnvsOf
<1>3. Peers(s, n) = Peers(t, n)
  BY DEF Peers
<1>4. \A m \in Peers(s, n) : s.labels[m] = t.labels[m]
  BY DEF Peers
<1>5. PeersOf(s, n) = PeersOf(t, n)
  BY <1>3, <1>4 DEF PeersOf
<1>6. QED
  BY <1>2, <1>5 DEF SameDoc

\* Of environment e the node has no document, before and after.
LEMMA SameButEnv ==
  ASSUME NEW s, NEW t, NEW n, NEW e, s.labels = t.labels,
         e \notin Released(s, n), e \notin Released(t, n),
         \A f \in Envs \ {e} :
           /\ s.attached[f] = t.attached[f] /\ s.current[f] = t.current[f]
           /\ HasRelease(s, f) => Current(s, f) = Current(t, f)
           /\ s.secrets[f] = t.secrets[f]
  PROVE  SameDoc(s, t, n)
<1>1. Released(s, n) = Released(t, n)
  BY DEF Released, AttachedTo, HasRelease
<1>2. \A f \in Released(s, n) : f \in Envs \ {e} /\ HasRelease(s, f)
  BY DEF Released, AttachedTo
<1>3. QED
  BY <1>1, <1>2, SameParts

\* The files differ in their deployments, or in the nodes that are registered.
Alike(s, t) ==
  /\ s.attached = t.attached /\ s.labels = t.labels /\ s.releases = t.releases
  /\ s.current = t.current /\ s.secrets = t.secrets

LEMMA SameAlike ==
  ASSUME NEW s, NEW t, NEW n, Alike(s, t)
  PROVE  SameDoc(s, t, n)
<1>1. Released(s, n) = Released(t, n)
  BY DEF Released, AttachedTo, HasRelease, Alike
<1>2. QED
  BY <1>1, SameParts DEF Alike, Current

\* Node x has other labels, and shares no release with n.
LEMMA SameButLabels ==
  ASSUME NEW s, NEW t, NEW n, NEW x, NEW v, x \in DOMAIN s.labels,
         t.labels = Update(s.labels, x, v),
         s.attached = t.attached, s.releases = t.releases, s.current = t.current,
         s.secrets = t.secrets, n \notin Affected(t, x),
         \A e \in Envs : s.attached[e] \subseteq DOMAIN s.labels
  PROVE  SameDoc(s, t, n)
<1>1. Released(s, n) = Released(t, n)
  BY DEF Released, AttachedTo, HasRelease
<1>2. \A e \in Released(s, n) : x \notin s.attached[e]
  BY DEF Released, AttachedTo, HasRelease, Affected
<1>3. \A m \in DOMAIN s.labels : m # x => t.labels[m] = s.labels[m]
  BY DEF Update
<1>4. \A e \in Released(s, n) : \A m \in s.attached[e] : t.labels[m] = s.labels[m]
  BY <1>2, <1>3 DEF Released, AttachedTo
<1>5. QED
  BY <1>1, <1>4, SameParts DEF Current

LEMMA PlanDrawn ==
  ASSUME NEW st, NEW S
  PROVE  Drawn(Plan(st, S), st, S)
BY DEF Drawn, Plan, Shows, Document, EnvsOf, PeersOf

LEMMA NoPlan == DOMAIN << >> = {}
OBVIOUS

-----------------------------------------------------------------------------
(* Steps that leave the documents alone *)

\* Every override file is the one it was, or gone.
Keeps(h, g) == \A n \in Nodes : g[n].override \in {h[n].override, None}

\* What DocsOK says does not depend on the rest of the command's variables.
SameDocs(j, k) ==
  /\ k.op = j.op /\ k.env = j.env /\ k.node = j.node /\ k.st = j.st /\ k.next = j.next
  /\ k.rel = j.rel /\ k.plan = j.plan /\ k.todo = j.todo /\ k.bad = j.bad

LEMMA DocsKept ==
  ASSUME NEW at, NEW j, NEW k, NEW f, NEW b, NEW c, NEW h, NEW g,
         DocsOK(at, j, f, b, h), SameDocs(j, k), Keeps(h, g), b \subseteq c, c \subseteq Nodes
  PROVE  DocsOK(at, k, f, c, g)
<1>1. WrittenOK(j, h) => WrittenOK(k, g)
  BY DEF WrittenOK, SameDocs, Keeps
<1>2. DeployDocs(j, f, b) => DeployDocs(k, f, c)
  BY DEF DeployDocs, SameDocs
<1>3. RollbackDocs(j, f, b) => RollbackDocs(k, f, c)
  BY DEF RollbackDocs, SameDocs
<1>4. ASSUME DetachDocs(j, f, b, h) PROVE DetachDocs(k, f, c, g)
  <2>1. f.attached[j.env] \subseteq Nodes
    BY <1>4 DEF DetachDocs
  <2>2. \A n \in Nodes : Shows(h[n].override, j.next, n) => Shows(g[n].override, j.next, n)
    BY ShowsWritten DEF Keeps
  <2>3. QED
    BY <1>4, <2>1, <2>2 DEF DetachDocs, SameDocs
<1>5. CreateDocs(j, f, b) => CreateDocs(k, f, c)
  BY DEF CreateDocs, SameDocs, CreateTargets
<1>6. QED
  BY <1>1, <1>2, <1>3, <1>4, <1>5 DEF DocsOK, SameDocs

LEMMA PublishedKept ==
  ASSUME PublishedOK, file' = file, Keeps(host, host'), behind \subseteq behind'
  PROVE  PublishedOK'
BY ShowsWritten DEF PublishedOK, Keeps

LEMMA HostsSame ==
  ASSUME HostsOK, host' = host
  PROVE  HostsOK' /\ Keeps(host, host')
BY DEF HostsOK, Keeps

\* Neither the file nor a document changes; whoever holds the lock goes on.
LEMMA DocUntouched ==
  ASSUME IInv, file' = file, lock' = lock, HostsOK', Keeps(host, host'),
         behind \subseteq behind', behind' \subseteq Nodes,
         lock # NoCli => pc'[lock] = pc[lock] /\ SameDocs(job[lock], job'[lock])
  PROVE  DInv'
<1>1. PublishedOK'
  BY PublishedKept DEF IInv, DInv
<1>2. HolderDocsOK'
  <2>1. CASE lock = NoCli
    BY <2>1 DEF HolderDocsOK
  <2>2. CASE lock # NoCli
    <3>1. DocsOK(pc[lock], job[lock], file, behind, host)
      BY <2>2 DEF IInv, DInv, HolderDocsOK
    <3>2. DocsOK(pc[lock], job'[lock], file, behind', host')
      BY <2>2, <3>1, DocsKept
    <3>3. QED
      BY <2>2, <3>2 DEF HolderDocsOK
  <2>3. QED
    BY <2>1, <2>2
<1>3. QED
  BY <1>1, <1>2 DEF DInv

\* Nobody holds the lock.
LEMMA DocIdle ==
  ASSUME lock' = NoCli, HostsOK', behind' \subseteq Nodes, PublishedOK'
  PROVE  DInv'
BY DEF DInv, HolderDocsOK

\* The holder goes on.
LEMMA DocMoves ==
  ASSUME FInv, NEW p \in Clis, pc[p] \in Locked, NEW at \in Locked, NEW j,
         pc' = [pc EXCEPT ![p] = at], job' = [job EXCEPT ![p] = j], lock' = lock,
         HostsOK', behind' \subseteq Nodes, PublishedOK', DocsOK(at, j, file', behind', host')
  PROVE  DInv'
<1>1. lock' = p /\ pc'[lock'] = at /\ job'[lock'] = j
  BY GoInLock DEF FInv
<1>2. QED
  BY <1>1 DEF DInv, HolderDocsOK

\* A command starts and takes the lock.
LEMMA DocTakes ==
  ASSUME FInv, NEW p \in Clis, NEW at \in Locked, NEW j, Hold(p, at, j),
         HostsOK', behind' \subseteq Nodes, PublishedOK', DocsOK(at, j, file', behind', host')
  PROVE  DInv'
<1>1. lock' = p /\ pc'[lock'] = at /\ job'[lock'] = j
  BY HoldLock DEF FInv
<1>2. QED
  BY <1>1 DEF DInv, HolderDocsOK

\* The holder changes only what DocsOK does not depend on.
LEMMA DocWorks ==
  ASSUME IInv, NEW p \in Clis, pc[p] \in Locked, NEW k, SameDocs(job[p], k),
         file' = file, lock' = lock, pc' = pc, job' = [job EXCEPT ![p] = k],
         HostsOK', Keeps(host, host'), behind' = behind
  PROVE  DInv'
<1>1. lock = p /\ LockOK
  BY Holder DEF IInv
<1>2. job'[p] = k
  BY <1>1 DEF LockOK
<1>3. behind \subseteq Nodes
  BY DEF IInv, DInv
<1>4. QED
  BY <1>1, <1>2, <1>3, DocUntouched

\* A process returns and leaves the file and the documents as they are.
LEMMA DocReturns ==
  ASSUME IInv, NEW p \in Clis, Return(p), file' = file, HostsOK', Keeps(host, host'),
         behind' = behind
  PROVE  DInv'
<1>1. /\ FInv /\ LockOK /\ behind \subseteq Nodes /\ PublishedOK
  BY DEF IInv, DInv, FInv
<1>2. CASE pc[p] \in Locked
  <2>1. lock' = NoCli
    BY <1>1, <1>2, ReturnLock
  <2>2. QED
    BY <1>1, <2>1, DocIdle, PublishedKept
<1>3. CASE pc[p] \notin Locked
  <2>1. lock # p /\ lock' = lock
    BY <1>1, <1>3 DEF LockOK, Return
  <2>2. lock # NoCli => pc'[lock] = pc[lock] /\ job'[lock] = job[lock]
    BY <1>1, <2>1 DEF LockOK, Return
  <2>3. QED
    BY <1>1, <2>1, <2>2, DocUntouched DEF SameDocs
<1>4. QED
  BY <1>2, <1>3

\* The holder writes the file and returns.
LEMMA DocWritesAndReturns ==
  ASSUME IInv, NEW p \in Clis, pc[p] \in Locked, Return(p), host' = host,
         behind' \subseteq Nodes, PublishedOK'
  PROVE  DInv'
<1>1. LockOK /\ HostsOK
  BY DEF IInv, FInv, DInv
<1>2. lock' = NoCli
  BY <1>1, ReturnLock
<1>3. QED
  BY <1>1, <1>2, DocIdle, HostsSame

-----------------------------------------------------------------------------
(* Agents, and commands without the lock *)

\* What an agent, or a command about an agent, does to its host.
HostStep(n, g) ==
  /\ host' = [host EXCEPT ![n] = g]
  /\ "override" \in DOMAIN g /\ g.override \in {host[n].override, None}

LEMMA HostKeeps ==
  ASSUME HostsOK, NEW n \in Nodes, NEW g, HostStep(n, g)
  PROVE  HostsOK' /\ Keeps(host, host')
BY DEF HostsOK, Keeps, HostStep

LEMMA ExceptSince ==
  ASSUME NEW j, IsJob(j), NEW T
  PROVE  SameDocs(j, [j EXCEPT !.since = T])
BY DEF SameDocs, IsJob

LEMMA LaterSame ==
  ASSUME NEW n, NEW p \in Clis, IsJob(job[p])
  PROVE  SameDocs(job[p], Later(n)[p])
BY ExceptSince DEF Later, SameDocs

LEMMA DocAgentStep ==
  ASSUME IInv, NEW n \in Nodes, NEW g, HostStep(n, g),
         job' = job \/ job' = Later(n), file' = file, lock' = lock, pc' = pc, behind' = behind
  PROVE  DInv'
<1>1. LockOK /\ HostsOK /\ behind \subseteq Nodes
  BY DEF IInv, FInv, DInv
<1>2. lock # NoCli => lock \in Clis /\ IsJob(job[lock])
  BY <1>1 DEF LockOK, IInv, FInv, HolderOK
<1>3. lock # NoCli => SameDocs(job[lock], job'[lock])
  BY <1>2, LaterSame DEF SameDocs
<1>4. HostsOK' /\ Keeps(host, host')
  BY <1>1, HostKeeps
<1>5. QED
  BY <1>1, <1>3, <1>4, DocUntouched

\* An agent's report goes with whatever it did to the host.
LEMMA DocReport ==
  ASSUME IInv, NEW n \in Nodes, NEW s, NEW h, Reported(n, s, h),
         "override" \in DOMAIN h, h.override = host[n].override
  PROVE  DInv'
<1> DEFINE g == [h EXCEPT !.status = s, !.last = s]
<1>1. /\ host' = [host EXCEPT ![n] = g]
      /\ job' = Later(n) /\ file' = file /\ lock' = lock /\ pc' = pc /\ behind' = behind
  BY DEF Reported
<1>2. "override" \in DOMAIN g /\ g.override = h.override
  OBVIOUS
<1> HIDE DEF g
<1>3. HostStep(n, g)
  BY <1>1, <1>2 DEF HostStep
<1>4. QED
  BY <1>1, <1>3, DocAgentStep

\* Disk care leaves the override file alone.
LEMMA CareKeeps ==
  ASSUME NEW h, "override" \in DOMAIN h
  PROVE  /\ "override" \in DOMAIN Care(h) /\ Care(h).override = h.override
         /\ \A g \in CareFailing(h) : "override" \in DOMAIN g /\ g.override = h.override
<1>1. ASSUME NEW g, "override" \in DOMAIN g, NEW R
      PROVE  "override" \in DOMAIN RemoveImages(g, R) /\ RemoveImages(g, R).override = g.override
  BY <1>1 DEF RemoveImages
<1>2. ASSUME NEW R
      PROVE  "override" \in DOMAIN SaveStore(h, R) /\ SaveStore(h, R).override = h.override
  BY DEF SaveStore
<1>3. QED
  BY <1>1, <1>2 DEF Care, CareFailing

LEMMA DocAgent ==
  ASSUME IInv, NEW n \in Nodes,
         \/ AgentLoads(n) \/ AgentTaskEnds(n) \/ AgentSettles(n) \/ AgentTaskRuns(n)
         \/ AgentTaskFails(n) \/ AgentSick(n) \/ AgentFails(n) \/ AgentLacksImage(n)
         \/ AgentCareFails(n) \/ AgentCaresAgain(n)
  PROVE  DInv'
<1> DEFINE h == host[n]
<1>0. HostsOK /\ "override" \in DOMAIN h
  BY DEF IInv, DInv, HostsOK
<1>1. CASE AgentLoads(n)
  <2> DEFINE d == h.override
             T == {e \in DOMAIN d.envs : d.envs[e].task}
             g == [h EXCEPT !.loaded = d, !.last = None, !.tasks = T]
  <2>1. host' = [host EXCEPT ![n] = g]
    BY <1>0, <1>1 DEF AgentLoads, HostsOK
  <2>2. UNCHANGED <<job, file, lock, pc, behind>>
    BY <1>1 DEF AgentLoads, cliVars
  <2>3. HostStep(n, g)
    BY <1>0, <2>1 DEF HostStep
  <2> HIDE DEF g
  <2>4. QED
    BY <2>2, <2>3, DocAgentStep
<1>2. CASE AgentTaskEnds(n)
  <2>1. PICK e : host' = [host EXCEPT ![n].tasks = @ \ {e}]
    BY <1>2 DEF AgentTaskEnds
  <2> DEFINE g == [h EXCEPT !.tasks = @ \ {e}]
  <2>2. host' = [host EXCEPT ![n] = g]
    BY <1>0, <2>1 DEF HostsOK
  <2>3. UNCHANGED <<job, file, lock, pc, behind>>
    BY <1>2 DEF AgentTaskEnds, cliVars
  <2>4. HostStep(n, g)
    BY <1>0, <2>2 DEF HostStep
  <2> HIDE DEF g
  <2>5. QED
    BY <2>3, <2>4, DocAgentStep
<1>3. CASE AgentSettles(n) \/ AgentSick(n)
  <2>1. \E s : Reported(n, s, Care(h))
    BY <1>3 DEF AgentSettles, AgentSick, Report
  <2>2. QED
    BY <1>0, <2>1, CareKeeps, DocReport
<1>4. CASE AgentTaskRuns(n) \/ AgentTaskFails(n) \/ AgentFails(n) \/ AgentLacksImage(n)
  <2>1. \E s : Reported(n, s, h)
    BY <1>4 DEF AgentTaskRuns, AgentTaskFails, AgentFails, AgentLacksImage, Report
  <2>2. QED
    BY <1>0, <2>1, DocReport
<1>5. CASE AgentCareFails(n)
  <2>1. \E s : \E g \in CareFailing(h) : Reported(n, s, g)
    BY <1>5 DEF AgentCareFails
  <2>2. QED
    BY <1>0, <2>1, CareKeeps, DocReport
<1>6. CASE AgentCaresAgain(n)
  <2>1. /\ host' = [host EXCEPT ![n] = Care(h)] /\ (job' = job \/ job' = Later(n))
        /\ UNCHANGED <<file, lock, pc, behind>>
    BY <1>6 DEF AgentCaresAgain
  <2>2. HostStep(n, Care(h))
    BY <1>0, <2>1, CareKeeps DEF HostStep
  <2>3. QED
    BY <2>1, <2>2, DocAgentStep
<1>7. QED
  BY <1>1, <1>2, <1>3, <1>4, <1>5, <1>6

\* agent install and uninstall.
LEMMA DocAgentCommands ==
  ASSUME IInv, NEW p, NEW n \in Nodes,
         AgentInstall(p, n) \/ \E keep \in BOOLEAN : AgentUninstall(p, n, keep)
  PROVE  DInv'
<1>0. HostsOK /\ "override" \in DOMAIN host[n]
  BY DEF IInv, DInv, HostsOK
<1>1. UNCHANGED <<job, file, lock, pc, behind>>
  BY DEF AgentInstall, AgentUninstall, cliVars
<1>2. CASE AgentInstall(p, n)
  <2>1. HostStep(n, Installed(host[n]))
    BY <1>0, <1>2 DEF AgentInstall, HostStep, Installed
  <2>2. QED
    BY <1>1, <2>1, DocAgentStep
<1>3. ASSUME NEW keep \in BOOLEAN, AgentUninstall(p, n, keep) PROVE DInv'
  <2>1. HostStep(n, Uninstalled(host[n], keep))
    BY <1>0, <1>3 DEF AgentUninstall, HostStep, Uninstalled, Bare
  <2>2. QED
    BY <1>1, <2>1, DocAgentStep
<1>4. QED
  BY <1>2, <1>3

-----------------------------------------------------------------------------
(* The publication *)

LEMMA DocSendImage ==
  ASSUME IInv, NEW p \in Clis, NEW n \in Nodes, NEW c, SendImage(p, n, c)
  PROVE  DInv'
<1> DEFINE k == [job[p] EXCEPT !.sent = @ \cup {<<n, c, Safe(host[n], c)>>}]
<1>1. /\ pc[p] \in Locked /\ file' = file /\ lock' = lock /\ pc' = pc /\ behind' = behind
      /\ job' = [job EXCEPT ![p] = k] /\ host' = [host EXCEPT ![n] = Transferred(host[n], c)]
  BY DEF SendImage, Locked
<1>2. IsJob(job[p]) /\ HostsOK /\ "override" \in DOMAIN host[n]
  BY <1>1, Holder DEF IInv, DInv, HostsOK
<1>3. SameDocs(job[p], k)
  BY <1>2 DEF IsJob, SameDocs
<1>4. HostStep(n, Transferred(host[n], c))
  BY <1>1, <1>2 DEF HostStep, Transferred
<1> HIDE DEF k
<1>5. QED
  BY <1>1, <1>2, <1>3, <1>4, HostKeeps, DocWorks

\* The node is behind, and is written what was planned for it.
LEMMA DocPublishNode ==
  ASSUME IInv, NEW p \in Clis, NEW n \in Nodes, PublishNode(p, n)
  PROVE  DInv'
<1> DEFINE j == job[p]
           k == [j EXCEPT !.todo = @ \ {n}]
           g == SetOverride(host[n], j.plan[n])
<1>1. /\ pc[p] = "publish" /\ pc[p] \in Locked /\ n \in j.todo
      /\ file' = file /\ lock' = lock /\ pc' = pc /\ behind' = behind
      /\ job' = [job EXCEPT ![p] = k] /\ host' = [host EXCEPT ![n] = g]
  BY DEF PublishNode, Locked
<1>2. /\ FInv /\ HostsOK /\ behind \subseteq Nodes /\ PublishedOK /\ LockOK /\ lock = p
      /\ DocsOK("publish", j, file, behind, host) /\ HolderOK("publish", j, file) /\ IsJob(j)
  BY <1>1, Holder, NameAssumption DEF IInv, DInv, HolderDocsOK
<1>3. "override" \in DOMAIN host[n] /\ "override" \in DOMAIN g /\ g.override = j.plan[n]
  BY <1>2 DEF HostsOK, SetOverride
<1>4. /\ k.op = j.op /\ k.env = j.env /\ k.node = j.node /\ k.st = j.st /\ k.next = j.next
      /\ k.rel = j.rel /\ k.plan = j.plan /\ k.bad = j.bad /\ k.todo = j.todo \ {n}
  BY <1>2 DEF IsJob
<1> HIDE DEF k, g, j
<1>5. /\ HostsOK' /\ host'[n].override = j.plan[n]
      /\ \A m \in Nodes : m # n => host'[m] = host[m]
  BY <1>1, <1>2, <1>3 DEF HostsOK
<1>6. n \in behind /\ n \in DOMAIN j.plan
  BY <1>1, <1>2 DEF DocsOK, WrittenOK
<1>7. PublishedOK'
  BY <1>1, <1>2, <1>5, <1>6 DEF PublishedOK
<1>8. WrittenOK(k, host')
  BY <1>2, <1>4, <1>5 DEF DocsOK, WrittenOK
<1>9. ASSUME j.op \in {"detach", "clear"} PROVE DetachDocs(k, file, behind, host')
  <2>1. DetachDocs(j, file, behind, host)
    BY <1>2, <1>9 DEF DocsOK
  <2>2. ASSUME j.op = "clear", NEW m \in file.attached[j.env] \ {j.node}
        PROVE  m # n /\ m \in Nodes /\ Shows(host[m].override, j.next, m)
    <3>1. DOMAIN j.plan = {j.node}
      BY <2>1, <2>2 DEF DetachDocs, Drawn
    <3>2. QED
      BY <1>2, <1>6, <2>1, <2>2, <3>1 DEF DetachDocs
  <2>3. QED
    BY <1>4, <1>5, <2>1, <2>2 DEF DetachDocs
<1>10. DocsOK("publish", k, file, behind, host')
  BY <1>2, <1>4, <1>8, <1>9 DEF DocsOK, DeployDocs, RollbackDocs, CreateDocs, CreateTargets
<1>11. pc' = [pc EXCEPT ![p] = "publish"]
  BY <1>1, <1>2 DEF LockOK
<1>12. QED
  BY <1>1, <1>2, <1>5, <1>7, <1>10, <1>11, DocMoves

\* The node counts as bad, and is behind.
LEMMA DocPublishFails ==
  ASSUME IInv, NEW p \in Clis, NEW n \in Nodes, PublishFails(p, n)
  PROVE  DInv'
<1> DEFINE j == job[p]
           k == IF host[n].agent THEN [j EXCEPT !.todo = @ \ {n}, !.bad = @ \cup {n}]
                ELSE [j EXCEPT !.todo = @ \ {n}, !.bad = @ \cup {n}, !.gone = @ \cup {n}]
<1>1. /\ pc[p] = "publish" /\ pc[p] \in Locked /\ n \in j.todo
      /\ file' = file /\ lock' = lock /\ pc' = pc /\ behind' = behind /\ host' = host
  BY DEF PublishFails, Locked
<1>2. /\ FInv /\ HostsOK /\ behind \subseteq Nodes /\ PublishedOK /\ LockOK /\ lock = p
      /\ DocsOK("publish", j, file, behind, host) /\ HolderOK("publish", j, file) /\ IsJob(j)
  BY <1>1, Holder, NameAssumption DEF IInv, DInv, HolderDocsOK
<1>3. job' = [job EXCEPT ![p] = k]
  BY <1>2 DEF PublishFails, LockOK
<1>4. /\ k.op = j.op /\ k.env = j.env /\ k.node = j.node /\ k.st = j.st /\ k.next = j.next
      /\ k.rel = j.rel /\ k.plan = j.plan /\ k.bad = j.bad \cup {n} /\ k.todo = j.todo \ {n}
  BY <1>2 DEF IsJob
<1> HIDE DEF k, j
<1>5. HostsOK' /\ PublishedOK'
  BY <1>1, <1>2, HostsSame, PublishedKept
<1>6. WrittenOK(k, host)
  BY <1>2, <1>4 DEF DocsOK, WrittenOK
<1>7. DocsOK("publish", k, file, behind, host)
  BY <1>2, <1>4, <1>6 DEF DocsOK, DeployDocs, RollbackDocs, DetachDocs, CreateDocs, CreateTargets
<1>8. pc' = [pc EXCEPT ![p] = "publish"]
  BY <1>1, <1>2 DEF LockOK
<1>9. QED
  BY <1>1, <1>2, <1>3, <1>5, <1>7, <1>8, DocMoves

\* The documents that a finished publication wrote are those of the file.
LEMMA WrittenShows ==
  ASSUME NEW j, NEW f, WrittenOK(j, host), j.todo = {}, j.bad = {},
         Drawn(j.plan, f, DOMAIN j.plan), NEW n \in DOMAIN j.plan
  PROVE  Shows(host[n].override, f, n)
BY ShowsWritten DEF WrittenOK, Drawn

\* attach, label and create.
LEMMA DocPublishEnds ==
  ASSUME IInv, NEW p \in Clis, PublishEnds(p) \/ NodeCreated(p)
  PROVE  DInv'
<1> DEFINE j == job[p]
<1>1. /\ pc[p] = "publish" /\ pc[p] \in Locked /\ j.op \in {"attach", "label", "create"}
      /\ j.todo = {} /\ j.bad = {} /\ behind' = behind \ DOMAIN j.plan
      /\ Return(p) /\ file' = file /\ host' = host
  BY DEF PublishEnds, NodeCreated, Published, Locked
<1>2. /\ behind \subseteq Nodes /\ PublishedOK /\ lock = p
      /\ DocsOK("publish", j, file, behind, host)
  BY <1>1, Holder, NameAssumption DEF IInv, DInv, HolderDocsOK
<1>3. WrittenOK(j, host) /\ Drawn(j.plan, file, DOMAIN j.plan)
  BY <1>1, <1>2 DEF DocsOK, Drawn
<1> HIDE DEF j
<1>4. PublishedOK'
  BY <1>1, <1>2, <1>3, WrittenShows DEF PublishedOK
<1>5. QED
  BY <1>1, <1>2, <1>4, DocWritesAndReturns

-----------------------------------------------------------------------------
(* deploy and release rollback *)

\* What a holder of the lock knows.
LEMMA DocHolder ==
  ASSUME IInv, NEW p \in Clis, pc[p] \in Locked
  PROVE  /\ FInv /\ LockOK /\ lock = p /\ FileOK(file) /\ HolderOK(pc[p], job[p], file)
         /\ IsJob(job[p]) /\ HostsOK /\ behind \subseteq Nodes /\ PublishedOK
         /\ DocsOK(pc[p], job[p], file, behind, host)
BY Holder, NameAssumption DEF IInv, DInv, HolderDocsOK

LEMMA AttachedNodes ==
  ASSUME NEW st, FileOK(st), NEW e \in Envs
  PROVE  /\ st.attached[e] \subseteq st.nodes /\ st.attached[e] \subseteq Nodes
         /\ DOMAIN st.labels = Nodes
BY DEF FileOK, NodesOK

LEMMA DocDeployBegin ==
  ASSUME IInv, NEW p \in Clis, NEW e \in Envs, NEW c, DeployBegin(p, e, c)
  PROVE  DInv'
<1> DEFINE S   == file.attached[e]
           r   == NewRelease(Snapshot(e, c), S)
           new == SaveRelease(file, r)
           j   == [Planned(Job("deploy", e, 0), new, S) EXCEPT
                     !.next = new, !.sweep = S, !.rel = new.current[e]]
<1>1. /\ Hold(p, "baseline", j) /\ behind' = behind \cup S /\ file' = file /\ host' = host
  BY DEF DeployBegin
<1>2. /\ FInv /\ FileOK(file) /\ HostsOK /\ behind \subseteq Nodes /\ PublishedOK
  BY DEF IInv, FInv, DInv
<1>3. S \subseteq Nodes
  BY <1>2, AttachedNodes
<1> HIDE DEF r, new
<1>4. /\ j.op = "deploy" /\ j.env = e /\ j.next = new /\ j.plan = Plan(new, S)
      /\ j.todo = S /\ j.bad = {}
  BY DEF Planned, Job
<1>5. Drawn(j.plan, new, S)
  BY <1>4, PlanDrawn
<1> HIDE DEF j
<1>6. WrittenOK(j, host) /\ DOMAIN j.plan = S
  BY <1>3, <1>4, <1>5 DEF WrittenOK, Drawn
<1>7. DocsOK("baseline", j, file', behind', host')
  BY <1>1, <1>4, <1>5, <1>6 DEF DocsOK, DeployDocs
<1>8. HostsOK' /\ PublishedOK' /\ behind' \subseteq Nodes
  BY <1>1, <1>2, <1>3, HostsSame, PublishedKept
<1>9. QED
  BY <1>1, <1>2, <1>7, <1>8, DocTakes DEF Locked

LEMMA DocBaselineRead ==
  ASSUME IInv, NEW p \in Clis, BaselineRead(p)
  PROVE  DInv'
<1> DEFINE n == Min(job[p].sweep)
<1>1. PICK T : job' = [job EXCEPT ![p].sweep = @ \ {n}, ![p].since = T]
  BY DEF BaselineRead
<1> DEFINE k == [job[p] EXCEPT !.sweep = @ \ {n}, !.since = T]
<1>2. pc[p] \in Locked /\ UNCHANGED <<file, lock, pc, host, behind>>
  BY DEF BaselineRead, Locked
<1>3. IsJob(job[p]) /\ LockOK /\ HostsOK
  BY <1>2, DocHolder
<1>4. job' = [job EXCEPT ![p] = k]
  BY <1>1, <1>3 DEF LockOK
<1>5. SameDocs(job[p], k)
  BY <1>3 DEF IsJob, SameDocs
<1> HIDE DEF k
<1>6. QED
  BY <1>2, <1>3, <1>4, <1>5, HostsSame, DocWorks

LEMMA DocDeployPublish ==
  ASSUME IInv, NEW p \in Clis, DeployPublish(p)
  PROVE  DInv'
<1>1. /\ pc[p] = "baseline" /\ pc[p] \in Locked /\ "publish" \in Locked /\ job[p].op = "deploy"
      /\ pc' = [pc EXCEPT ![p] = "publish"] /\ job' = [job EXCEPT ![p] = job[p]]
      /\ UNCHANGED <<file, lock, host, behind>>
  BY DEF DeployPublish, Go, Locked
<1>2. /\ FInv /\ HostsOK /\ behind \subseteq Nodes /\ PublishedOK
      /\ DocsOK("baseline", job[p], file, behind, host)
  BY <1>1, DocHolder
<1>3. DocsOK("publish", job[p], file, behind, host)
  BY <1>1, <1>2 DEF DocsOK
<1>4. HostsOK' /\ PublishedOK'
  BY <1>1, <1>2, HostsSame, PublishedKept
<1>5. QED
  BY <1>1, <1>2, <1>3, <1>4, DocMoves

\* A deployment starts.
LEMMA StartsAlike ==
  ASSUME NEW st, IsFile(st), NEW e, NEW r, NEW kind, NEW targets
  PROVE  Alike(st, StartDeployment(st, e, r, kind, targets))
<1> DEFINE d   == [env |-> e, rel |-> r, kind |-> kind, targets |-> targets,
                   seq |-> NextSequence(st, e), status |-> "running", pub |-> None]
           new == [st EXCEPT !.deployments = Append(@, d)]
<1>1. StartDeployment(st, e, r, kind, targets) = new
  BY DEF StartDeployment
<1> HIDE DEF d
<1>2. Alike(st, new)
  BY DEF IsFile, Alike
<1> HIDE DEF new
<1>3. QED
  BY <1>1, <1>2

\* The file says now what was written; the nodes of no other environment see
\* a change.
LEMMA DocDeployRecord ==
  ASSUME IInv, NEW p \in Clis, DeployRecord(p)
  PROVE  DInv'
<1> DEFINE j  == job[p]
           S  == DOMAIN j.plan
           st == StartDeployment(j.next, j.env, j.rel, "deploy", S)
           r  == j.next.releases[j.rel]
           k  == [j EXCEPT !.st = st, !.sweep = S, !.clean = TRUE, !.dep = Len(st.deployments)]
<1>1. /\ pc[p] = "publish" /\ pc[p] \in Locked /\ "wait" \in Locked
      /\ j.op = "deploy" /\ j.todo = {} /\ j.bad = {}
      /\ file' = st /\ lock' = lock /\ behind' = behind \ S /\ host' = host
      /\ pc' = [pc EXCEPT ![p] = "wait"] /\ job' = [job EXCEPT ![p] = k]
  BY DEF DeployRecord, Published, Write, Go, Locked
<1>2. /\ FInv /\ FileOK(file) /\ HolderOK("publish", j, file) /\ IsJob(j)
      /\ HostsOK /\ behind \subseteq Nodes /\ PublishedOK
      /\ DocsOK("publish", j, file, behind, host)
  BY <1>1, DocHolder
<1>3. /\ j.env \in Envs /\ r.env = j.env /\ j.next = SaveRelease(file, r)
  BY <1>1, <1>2 DEF HolderOK, DeployOK
<1>4. /\ WrittenOK(j, host) /\ S = file.attached[j.env] /\ S \subseteq behind
      /\ Drawn(j.plan, j.next, S)
  BY <1>1, <1>2 DEF DocsOK, DeployDocs, Drawn
<1> HIDE DEF r
<1>5. /\ IsFile(j.next) /\ j.next.releases = Append(file.releases, r)
      /\ j.next.current = [file.current EXCEPT ![j.env] = Len(file.releases) + 1]
      /\ j.next.labels = file.labels /\ j.next.attached = file.attached
      /\ j.next.secrets = file.secrets
  <2>1. DOMAIN file.current = Envs /\ IsFile(file) /\ r.env \in Envs
    BY <1>2, <1>3 DEF FileOK, ReleasesOK
  <2>2. QED
    BY <1>3, <2>1, SaveReleaseFields
<1>6. Alike(j.next, st)
  BY <1>5, StartsAlike
<1> HIDE DEF st
<1>7. /\ k.op = "deploy" /\ k.plan = j.plan /\ k.todo = {} /\ k.bad = {}
  BY <1>1, <1>2 DEF IsJob
<1> HIDE DEF k
<1>8. ASSUME NEW n \in Nodes \ behind' PROVE Shows(host'[n].override, file', n)
  <2>1. CASE n \in S
    BY <1>1, <1>4, <1>6, <2>1, WrittenShows, SameAlike, ShowsSame
  <2>2. CASE n \notin S
    <3>1. n \in Nodes \ behind /\ Shows(host[n].override, file, n)
      BY <1>1, <1>2, <1>8, <2>2 DEF PublishedOK
    <3>2. j.env \notin Released(file, n) /\ j.env \notin Released(st, n)
      BY <1>4, <1>5, <1>6, <2>2 DEF Released, AttachedTo, Alike
    <3>3. ASSUME NEW f \in Envs \ {j.env}
          PROVE  /\ file.current[f] = st.current[f]
                 /\ HasRelease(file, f) => Current(file, f) = Current(st, f)
      <4>1. file.current \in [Envs -> Nat] /\ file.releases \in Seq(Range(file.releases))
        BY <1>2 DEF FileOK, ReleasesOK
      <4>2. st.current[f] = file.current[f]
        BY <1>5, <1>6, <4>1, <3>3 DEF Alike
      <4>3. HasRelease(file, f) => file.current[f] \in 1..Len(file.releases)
        BY <1>2, <3>3 DEF FileOK, ReleasesOK, CurrentReadable, Releases
      <4>4. \A i \in 1..Len(file.releases) : Append(file.releases, r)[i] = file.releases[i]
        BY <4>1, Appended
      <4>5. st.releases = Append(file.releases, r)
        BY <1>5, <1>6 DEF Alike
      <4>6. QED
        BY <4>2, <4>3, <4>4, <4>5 DEF Current
    <3>4. SameDoc(file, st, n)
      BY <1>5, <1>6, <3>2, <3>3, SameButEnv DEF Alike
    <3>5. QED
      BY <1>1, <3>1, <3>4, ShowsSame
  <2>3. QED
    BY <2>1, <2>2
<1>9. PublishedOK' /\ HostsOK' /\ behind' \subseteq Nodes
  BY <1>1, <1>2, <1>8, HostsSame DEF PublishedOK
<1>10. DocsOK("wait", k, file', behind', host')
  BY <1>1, <1>4, <1>7 DEF DocsOK, WrittenOK
<1>11. QED
  BY <1>1, <1>2, <1>9, <1>10, DocMoves

\* A deployment ends, and what is current stays.
LEMMA EndsAlike ==
  ASSUME NEW st, FileOK(st), NEW i \in 1..Len(st.deployments), NEW status, NEW pub,
         st.deployments[i].kind = "deploy" \/ status = "failed"
  PROVE  Alike(st, EndDeployment(st, i, status, pub))
<1>1. CurrentAfter(st, i, status) = st.current
  BY DEF CurrentAfter
<1>2. QED
  BY <1>1, EndDeploymentFields DEF Alike

\* The documents of the nodes that are not behind outlive such a change.
LEMMA PublishedAlike ==
  ASSUME PublishedOK, Alike(file, file'), host' = host, behind \subseteq behind'
  PROVE  PublishedOK'
BY SameAlike, ShowsSame DEF PublishedOK

\* A rollback settles: other nodes than the environment's see no change.
LEMMA SettlesElsewhere ==
  ASSUME NEW st, FileOK(st), NEW i \in 1..Len(st.deployments), NEW pub, NEW n,
         n \notin st.attached[st.deployments[i].env]
  PROVE  SameDoc(st, EndDeployment(st, i, "settled", pub), n)
<1> DEFINE e   == st.deployments[i].env
           new == EndDeployment(st, i, "settled", pub)
<1>1. /\ new.current = CurrentAfter(st, i, "settled") /\ new.labels = st.labels
      /\ new.attached = st.attached /\ new.releases = st.releases /\ new.secrets = st.secrets
  BY EndDeploymentFields
<1>2. \A f \in Envs \ {e} : new.current[f] = st.current[f]
  BY <1>1 DEF CurrentAfter, FileOK, ReleasesOK
<1> HIDE DEF new
<1>3. e \notin Released(st, n) /\ e \notin Released(new, n)
  BY <1>1 DEF Released, AttachedTo
<1>4. SameDoc(st, new, n)
  BY <1>1, <1>2, <1>3, SameButEnv DEF Current
<1>5. QED
  BY <1>4 DEF new

\* A rollback settles.  Its nodes have the documents of its release; if they are
\* all nodes of the environment, these are the documents of the file.
LEMMA DocFinish ==
  ASSUME IInv, NEW p \in Clis, pc[p] = "wait", NEW status \in {"settled", "failed"},
         Finish(p, status), host' = host
  PROVE  DInv'
<1> DEFINE j  == job[p]
           e  == j.env
           S  == DOMAIN j.plan
           st == EndDeployment(file, j.dep, status, j.plan)
<1>1. pc[p] \in Locked
  BY DEF Locked
<1>2. /\ FileOK(file) /\ HolderOK("wait", j, file) /\ IsJob(j) /\ HostsOK
      /\ behind \subseteq Nodes /\ PublishedOK /\ DocsOK("wait", j, file, behind, host)
  BY <1>1, DocHolder
<1>3. /\ j.op \in {"deploy", "rollback"} /\ j.st = file
      /\ RunningAt(file, j.dep, j.op) /\ j.dep \in 1..Len(file.deployments)
  BY <1>2 DEF HolderOK, RollbackOK, RunningAt
<1>4. /\ file' = st /\ Return(p)
      /\ behind' = IF j.op = "rollback" /\ status = "settled"
                   THEN IF S = st.attached[e] THEN behind \ S ELSE behind \cup st.attached[e]
                   ELSE behind
  BY <1>3 DEF Finish, Write
<1> HIDE DEF j
<1>5. CASE j.op = "deploy" \/ status = "failed"
  <2>1. Alike(file, file')
    BY <1>2, <1>3, <1>4, <1>5, EndsAlike DEF RunningAt
  <2>2. behind' = behind
    BY <1>4, <1>5
  <2>3. PublishedOK'
    BY <1>2, <2>1, <2>2, PublishedAlike
  <2>4. QED
    BY <1>1, <1>2, <1>4, <2>2, <2>3, DocWritesAndReturns
<1>6. CASE j.op = "rollback" /\ status = "settled"
  <2>1. /\ e \in Envs /\ file.deployments[j.dep].env = e /\ file.deployments[j.dep].rel = j.rel
        /\ file.deployments[j.dep].kind = "rollback"
    BY <1>2, <1>3, <1>6 DEF HolderOK, RollbackOK, RunningAt
  <2>2. /\ WrittenOK(j, host) /\ j.todo = {} /\ j.bad = {} /\ RollbackDocs(j, file, behind)
        /\ Drawn(j.plan, j.next, j.next.attached[e]) /\ S = j.next.attached[e]
    BY <1>2, <1>6 DEF DocsOK, Drawn
  <2>3. /\ st.current = CurrentAfter(file, j.dep, status) /\ st.attached = file.attached
        /\ st.labels = file.labels /\ st.releases = file.releases /\ st.secrets = file.secrets
    BY <1>2, <1>3, EndDeploymentFields
  <2>4. st.current = Update(file.current, e, j.rel)
    BY <1>6, <2>1, <2>3 DEF CurrentAfter, Update
  <2>5. \A n : n \notin file.attached[e] => SameDoc(file, st, n)
    BY <1>2, <1>3, <1>6, <2>1, SettlesElsewhere
  <2> HIDE DEF st
  <2>6. file.attached[e] \subseteq Nodes
    BY <1>2, <2>1, AttachedNodes
  <2>7. S = file.attached[e] => Alike(j.next, st)
    <3>1. S = file.attached[e] => Update(file.attached, e, S) = file.attached
      BY <1>2, <2>1 DEF Update, FileOK, NodesOK
    <3>2. QED
      BY <2>2, <2>3, <2>4, <3>1 DEF RollbackDocs, Alike
  <2>8. ASSUME NEW n \in Nodes \ behind' PROVE Shows(host'[n].override, file', n)
    <3>1. CASE n \in S /\ S = file.attached[e]
      <4>1. Shows(host[n].override, j.next, n)
        BY <2>2, <3>1, WrittenShows
      <4>2. QED
        BY <1>4, <2>7, <3>1, <4>1, SameAlike, ShowsSame
    <3>2. CASE ~(n \in S /\ S = file.attached[e])
      <4>1. n \notin behind /\ n \notin file.attached[e]
        BY <1>4, <1>6, <2>2, <2>3, <2>8, <3>2 DEF RollbackDocs
      <4>2. QED
        BY <1>2, <1>4, <2>5, <2>8, <4>1, ShowsSame DEF PublishedOK
    <3>3. QED
      BY <3>1, <3>2
  <2>9. PublishedOK'
    BY <2>8 DEF PublishedOK
  <2>10. behind' \subseteq Nodes
    BY <1>2, <1>4, <2>3, <2>6
  <2>11. QED
    BY <1>1, <1>4, <2>9, <2>10, DocWritesAndReturns
<1>7. QED
  BY <1>3, <1>5, <1>6

LEMMA DocWaits ==
  ASSUME IInv, NEW p \in Clis,
         \/ WaitRead(p) \/ WaitReadFails(p) \/ WaitAgain(p) \/ WaitTimeout(p) \/ WaitSettled(p)
  PROVE  DInv'
<1>0. pc[p] = "wait" /\ pc[p] \in Locked /\ host' = host
  BY DEF WaitRead, WaitReadFails, WaitAgain, WaitTimeout, WaitSettled, Locked
<1>1. IsJob(job[p]) /\ LockOK /\ HostsOK
  BY <1>0, DocHolder
<1>2. CASE Finish(p, "failed") \/ Finish(p, "settled")
  BY <1>0, <1>2, DocFinish
<1>3. CASE WaitRead(p) /\ ~Finish(p, "failed")
  <2> DEFINE n == Min(job[p].sweep)
             v == Verdict(p, n)
             k == [job[p] EXCEPT !.sweep = @ \ {n}, !.clean = @ /\ v = "settled"]
  <2>1. /\ job' = [job EXCEPT ![p].sweep = @ \ {n}, ![p].clean = @ /\ v = "settled"]
        /\ UNCHANGED <<file, lock, pc, behind>>
    BY <1>3 DEF WaitRead
  <2> HIDE DEF v
  <2>2. job' = [job EXCEPT ![p] = k]
    BY <1>1, <2>1 DEF LockOK
  <2>3. SameDocs(job[p], k)
    BY <1>1 DEF IsJob, SameDocs
  <2> HIDE DEF k
  <2>4. QED
    BY <1>0, <1>1, <2>1, <2>2, <2>3, HostsSame, DocWorks
<1>4. CASE WaitAgain(p)
  <2> DEFINE k == [job[p] EXCEPT !.sweep = DOMAIN job[p].plan, !.clean = TRUE]
  <2>1. UNCHANGED <<file, lock, pc, behind>>
    BY <1>4 DEF WaitAgain
  <2>2. job' = [job EXCEPT ![p] = k]
    BY <1>1, <1>4 DEF LockOK, WaitAgain
  <2>3. SameDocs(job[p], k)
    BY <1>1 DEF IsJob, SameDocs
  <2> HIDE DEF k
  <2>4. QED
    BY <1>0, <1>1, <2>1, <2>2, <2>3, HostsSame, DocWorks
<1>5. QED
  BY <1>2, <1>3, <1>4 DEF WaitReadFails, WaitTimeout, WaitSettled

LEMMA ScopedFields ==
  ASSUME NEW st, FileOK(st), NEW e \in Envs, NEW r, NEW S
  PROVE  LET x == ScopedToTargets([st EXCEPT !.current[e] = r], e, S)
         IN /\ x.attached = Update(st.attached, e, S) /\ x.current = Update(st.current, e, r)
            /\ x.labels = st.labels /\ x.releases = st.releases /\ x.secrets = st.secrets
            /\ x.attached[e] = S
<1> DEFINE y == [st EXCEPT !.current = [@ EXCEPT ![e] = r]]
           x == [y EXCEPT !.attached = [@ EXCEPT ![e] = S]]
<1>1. IsFile(st) /\ DOMAIN st.attached = Envs
  BY DEF FileOK, NodesOK
<1>2. /\ IsFile(y) /\ y.current = Update(st.current, e, r) /\ y.attached = st.attached
      /\ y.labels = st.labels /\ y.releases = st.releases /\ y.secrets = st.secrets
  BY <1>1 DEF IsFile, Update
<1>3. y = [st EXCEPT !.current[e] = r]
  BY <1>1 DEF IsFile
<1> HIDE DEF y
<1>4. /\ x.attached = Update(st.attached, e, S) /\ x.current = y.current
      /\ x.labels = y.labels /\ x.releases = y.releases /\ x.secrets = y.secrets
  BY <1>2 DEF IsFile, Update
<1>5. ScopedToTargets(y, e, S) = x
  BY <1>2 DEF ScopedToTargets, IsFile
<1> HIDE DEF x
<1>6. x.attached[e] = S
  BY <1>1, <1>4 DEF Update
<1>7. QED
  BY <1>2, <1>3, <1>4, <1>5, <1>6

LEMMA DocRollbackBegin ==
  ASSUME IInv, NEW p \in Clis, NEW e \in Envs, NEW r \in Selectable(file, e),
         RollbackBegin(p, e, r)
  PROVE  DInv'
<1> DEFINE S  == RollbackTargets(file, e, r)
           st == StartDeployment(file, e, r, "rollback", S)
           x  == ScopedToTargets([st EXCEPT !.current[e] = r], e, S)
           j  == [Job("rollback", e, 0) EXCEPT
                    !.st = st, !.sweep = S, !.rel = r, !.dep = Len(st.deployments), !.next = x]
<1>1. /\ file' = st /\ Hold(p, "baseline", j) /\ behind' = behind \cup S /\ host' = host
  BY DEF RollbackBegin, Write
<1>2. /\ FInv /\ FileOK(file) /\ IsFile(file) /\ HostsOK /\ behind \subseteq Nodes /\ PublishedOK
  BY DEF IInv, FInv, DInv, FileOK
<1>3. r \in Releases(file, e)
  BY DEF Selectable
<1>4. S \subseteq file.attached[e] /\ S \subseteq Nodes
  BY <1>2, AttachedNodes DEF RollbackTargets
<1> HIDE DEF S
<1>5. FileOK(st)
  BY <1>2, <1>3, StartDeploymentOK
<1>6. Alike(file, st)
  BY <1>2, StartsAlike
<1> HIDE DEF st
<1>7. /\ x.attached = Update(st.attached, e, S) /\ x.current = Update(st.current, e, r)
      /\ x.labels = st.labels /\ x.releases = st.releases /\ x.secrets = st.secrets
      /\ x.attached[e] = S
  BY <1>5, ScopedFields
<1> HIDE DEF x
<1>8. /\ j.op = "rollback" /\ j.env = e /\ j.rel = r /\ j.next = x
      /\ j.plan = << >> /\ j.todo = {} /\ j.bad = {}
  BY DEF Job
<1> HIDE DEF j
<1>9. RollbackDocs(j, file', behind')
  BY <1>1, <1>4, <1>6, <1>7, <1>8 DEF RollbackDocs, Alike
<1>10. DocsOK("baseline", j, file', behind', host')
  BY <1>8, <1>9, NoPlan DEF DocsOK, WrittenOK
<1>11. HostsOK' /\ PublishedOK' /\ behind' \subseteq Nodes
  BY <1>1, <1>2, <1>4, <1>6, HostsSame, PublishedAlike
<1>12. QED
  BY <1>1, <1>2, <1>10, <1>11, DocTakes DEF Locked

LEMMA DocRollbackFails ==
  ASSUME IInv, NEW p \in Clis, pc[p] \in {"baseline", "publish"}, job[p].op = "rollback",
         Write(EndDeployment(job[p].st, job[p].dep, "failed", << >>)), Return(p),
         host' = host, behind' = behind
  PROVE  DInv'
<1> DEFINE j == job[p]
<1>1. pc[p] \in Locked
  BY DEF Locked
<1>2. FileOK(file) /\ HolderOK(pc[p], j, file) /\ behind \subseteq Nodes /\ PublishedOK
  BY <1>1, DocHolder
<1>3. j.st = file /\ j.dep \in 1..Len(file.deployments)
  BY <1>2 DEF HolderOK, RollbackOK, RunningAt
<1>4. file' = EndDeployment(file, j.dep, "failed", << >>)
  BY <1>3 DEF Write
<1> HIDE DEF j
<1>5. Alike(file, file')
  BY <1>2, <1>3, <1>4, EndsAlike
<1>6. PublishedOK'
  BY <1>2, <1>5, PublishedAlike
<1>7. QED
  BY <1>1, <1>2, <1>6, DocWritesAndReturns

LEMMA DocRollbackPublish ==
  ASSUME IInv, NEW p \in Clis, RollbackPublish(p)
  PROVE  DInv'
<1> DEFINE j == job[p]
           S == j.next.attached[j.env]
           k == Planned(j, j.next, S)
<1>1. /\ pc[p] = "baseline" /\ j.op = "rollback" /\ pc[p] \in Locked /\ "publish" \in Locked
      /\ host' = host /\ behind' = behind
  BY DEF RollbackPublish, Locked
<1>2. /\ FInv /\ IsJob(j) /\ HostsOK /\ behind \subseteq Nodes /\ PublishedOK
      /\ DocsOK("baseline", j, file, behind, host)
  BY <1>1, DocHolder
<1>3. CASE Plannable(j.next, S)
  <2>1. /\ file' = file /\ lock' = lock
        /\ pc' = [pc EXCEPT ![p] = "publish"] /\ job' = [job EXCEPT ![p] = k]
    BY <1>3 DEF RollbackPublish, Go
  <2>2. RollbackDocs(j, file, behind) /\ S \subseteq behind
    BY <1>1, <1>2 DEF DocsOK, RollbackDocs
  <2>3. /\ k.op = "rollback" /\ k.env = j.env /\ k.rel = j.rel /\ k.next = j.next
        /\ k.plan = Plan(j.next, S) /\ k.todo = S /\ k.bad = {}
    BY <1>1, <1>2 DEF Planned, IsJob
  <2> HIDE DEF k
  <2>4. Drawn(k.plan, k.next, S) /\ DOMAIN k.plan = S
    BY <2>3, PlanDrawn DEF Drawn
  <2>5. WrittenOK(k, host) /\ DOMAIN k.plan \subseteq behind
    BY <1>2, <2>2, <2>3, <2>4 DEF WrittenOK
  <2>6. RollbackDocs(k, file, behind)
    BY <2>2, <2>3 DEF RollbackDocs
  <2>7. DocsOK("publish", k, file', behind', host')
    BY <1>1, <2>1, <2>3, <2>4, <2>5, <2>6 DEF DocsOK
  <2>8. HostsOK' /\ PublishedOK'
    BY <1>1, <1>2, <2>1, HostsSame, PublishedKept
  <2>9. QED
    BY <1>1, <1>2, <2>1, <2>7, <2>8, DocMoves
<1>4. CASE ~Plannable(j.next, S)
  <2>1. Write(EndDeployment(j.st, j.dep, "failed", << >>)) /\ Return(p)
    BY <1>4 DEF RollbackPublish
  <2>2. QED
    BY <1>1, <2>1, DocRollbackFails
<1>5. QED
  BY <1>3, <1>4

LEMMA DocRollbackPublished ==
  ASSUME IInv, NEW p \in Clis, RollbackPublished(p)
  PROVE  DInv'
<1> DEFINE j == job[p]
           k == [j EXCEPT !.sweep = DOMAIN j.plan, !.clean = TRUE]
<1>1. /\ pc[p] = "publish" /\ j.op = "rollback" /\ pc[p] \in Locked /\ "wait" \in Locked
      /\ host' = host /\ behind' = behind /\ j.todo = {}
  BY DEF RollbackPublished, Published, Locked
<1>2. /\ FInv /\ IsJob(j) /\ HostsOK /\ behind \subseteq Nodes /\ PublishedOK
      /\ DocsOK("publish", j, file, behind, host)
  BY <1>1, DocHolder
<1>3. CASE j.bad = {}
  <2>1. /\ file' = file /\ lock' = lock
        /\ pc' = [pc EXCEPT ![p] = "wait"] /\ job' = [job EXCEPT ![p] = k]
    BY <1>3 DEF RollbackPublished, Go
  <2>2. SameDocs(j, k)
    BY <1>2 DEF SameDocs, IsJob
  <2> HIDE DEF k
  <2>3. DocsOK("wait", j, file, behind, host)
    BY <1>1, <1>2, <1>3 DEF DocsOK
  <2>4. HostsOK' /\ PublishedOK' /\ Keeps(host, host')
    BY <1>1, <1>2, <2>1, HostsSame, PublishedKept
  <2>5. DocsOK("wait", k, file', behind', host')
    BY <1>1, <1>2, <2>1, <2>2, <2>3, <2>4, DocsKept
  <2>6. QED
    BY <1>1, <1>2, <2>1, <2>4, <2>5, DocMoves
<1>4. CASE j.bad # {}
  <2>1. Write(EndDeployment(j.st, j.dep, "failed", << >>)) /\ Return(p)
    BY <1>4 DEF RollbackPublished
  <2>2. QED
    BY <1>1, <2>1, DocRollbackFails
<1>5. QED
  BY <1>3, <1>4

-----------------------------------------------------------------------------
(* status *)

LEMMA DocStatus ==
  ASSUME IInv, NEW p \in Clis, StatusRead(p) \/ \E e \in Envs : StatusBegin(p, e)
  PROVE  DInv'
<1>1. /\ pc[p] \notin Locked /\ file' = file /\ host' = host /\ behind' = behind
  BY DEF StatusRead, StatusBegin, Begin, Locked
<1>2. LockOK /\ HostsOK /\ behind \subseteq Nodes /\ lock # p
  BY <1>1 DEF IInv, FInv, DInv, LockOK
<1>3. CASE Return(p)
  BY <1>1, <1>2, <1>3, HostsSame, DocReturns
<1>4. CASE ~Return(p)
  <2>1. lock' = lock /\ \A q \in Clis \ {p} : pc'[q] = pc[q] /\ job'[q] = job[q]
    <3>1. CASE \E e \in Envs : StatusBegin(p, e)
      <4>1. PICK j : Go(p, "status", j)
        BY <3>1 DEF StatusBegin
      <4>2. QED
        BY <1>2, <3>1, <4>1 DEF StatusBegin, Go, LockOK
    <3>2. CASE StatusRead(p)
      <4>1. PICK n \in job[p].sweep :
              LET j    == job[p]
                  s    == host[n].status
                  exp  == ExpectedRevision(j.st, j.env, j.rel, n)
                  good == s # None /\ s.phase = "settled" /\ (Matches(j, n, s) \/ exp = None)
                  chk  == n \in j.st.deployments[j.dep].targets /\ Matches(j, n, s)
              IN IF ~good THEN Return(p)
                 ELSE /\ job' = [job EXCEPT ![p].sweep = @ \ {n},
                          ![p].checked = IF chk THEN @ \cup {n} ELSE @,
                          ![p].plan = IF chk /\ CohostedRevisions(j.st, j.env, n) = {}
                                      THEN [m \in DOMAIN @ \cup {n} |->
                                              IF m = n THEN s.rev ELSE @[m]] ELSE @]
                      /\ UNCHANGED <<pc, lock>>
        BY <3>2, Zenon DEF StatusRead
      <4>2. QED
        BY <1>2, <1>4, <4>1 DEF LockOK
    <3>3. QED
      BY <3>1, <3>2
  <2>2. lock # NoCli => lock \in Clis \ {p}
    BY <1>2 DEF LockOK
  <2>3. lock # NoCli => pc'[lock] = pc[lock] /\ SameDocs(job[lock], job'[lock])
    BY <2>1, <2>2 DEF SameDocs
  <2>4. QED
    BY <1>1, <1>2, <2>1, <2>3, HostsSame, DocUntouched
<1>5. QED
  BY <1>3, <1>4

\* A rollback that is recovered makes its release the current one, also of the
\* nodes it was not published to: they are behind.
LEMMA DocStatusRecover ==
  ASSUME IInv, NEW p \in Clis, StatusRecover(p)
  PROVE  DInv'
<1>1. /\ Return(p) /\ lock = NoCli /\ lock' = NoCli /\ host' = host
      /\ FileOK(file) /\ HostsOK /\ behind \subseteq Nodes /\ PublishedOK /\ HostsOK'
  BY HostsSame, NameAssumption DEF StatusRecover, Return, IInv, FInv, DInv
<1>2. CASE UNCHANGED <<file, behind>>
  BY <1>1, <1>2, HostsSame, PublishedKept, DocIdle
<1>3. CASE ~UNCHANGED <<file, behind>>
  <2> DEFINE j == job[p]
             i == CHOOSE k \in Recovered(j) : TRUE
  <2>1. /\ Recovered(j) # {} /\ \E pub : file' = EndDeployment(file, i, "settled", pub)
        /\ behind' = IF file.deployments[i].kind = "rollback"
                     THEN behind \cup file.attached[j.env] ELSE behind
    BY <1>3 DEF StatusRecover, Write
  <2>2. PICK pub : file' = EndDeployment(file, i, "settled", pub)
    BY <2>1
  <2>3. i \in Recovered(j)
    BY <2>1
  <2> HIDE DEF i
  <2>4. i \in 1..Len(file.deployments) /\ file.deployments[i].env = j.env
    BY <2>3 DEF Recovered, Running, Deployed
  <2>5. /\ file.deployments[i].env \in Envs /\ file.deployments[i].kind \in {"deploy", "rollback"}
    BY <1>1, <2>4 DEF FileOK, DeploymentsOK, DeploymentOK
  <2> HIDE DEF j
  <2>6. CASE file.deployments[i].kind = "deploy"
    <3>1. Alike(file, file') /\ behind' = behind
      BY <1>1, <2>1, <2>2, <2>4, <2>6, EndsAlike
    <3>2. QED
      BY <1>1, <3>1, PublishedAlike, DocIdle
  <2>7. CASE file.deployments[i].kind = "rollback"
    <3>1. behind' = behind \cup file.attached[j.env] /\ file.attached[j.env] \subseteq Nodes
      BY <1>1, <2>1, <2>4, <2>5, <2>7, AttachedNodes
    <3>2. \A n : n \notin file.attached[j.env] => SameDoc(file, file', n)
      BY <1>1, <2>2, <2>4, SettlesElsewhere
    <3>3. PublishedOK'
      BY <1>1, <3>1, <3>2, ShowsSame DEF PublishedOK
    <3>4. QED
      BY <1>1, <3>1, <3>3, DocIdle
  <2>8. QED
    BY <2>5, <2>6, <2>7
<1>4. QED
  BY <1>2, <1>3

-----------------------------------------------------------------------------
(* node attach, node label, node detach, secret *)

\* The files differ in environment e alone.
OneEnv(s, t, e) ==
  /\ s.labels = t.labels /\ s.releases = t.releases
  /\ \A f \in Envs \ {e} : /\ s.attached[f] = t.attached[f] /\ s.current[f] = t.current[f]
                           /\ s.secrets[f] = t.secrets[f]

LEMMA SameOneEnv ==
  ASSUME NEW s, NEW t, NEW e, OneEnv(s, t, e), NEW n,
         e \notin Released(s, n), e \notin Released(t, n)
  PROVE  SameDoc(s, t, n)
BY SameButEnv DEF OneEnv, Current

\* The nodes where the change of e shows are behind.
LEMMA PublishedOneEnv ==
  ASSUME PublishedOK, NEW e, OneEnv(file, file', e), host' = host, behind \subseteq behind',
         \A n \in Nodes \ behind' : e \notin Released(file, n) /\ e \notin Released(file', n)
  PROVE  PublishedOK'
BY SameOneEnv, ShowsSame DEF PublishedOK

\* The nodes S are the ones on which the new file shows a change.
LEMMA DocWriteThenPublish ==
  ASSUME IInv, NEW p \in Clis, NEW op \in {"attach", "label"}, NEW st, NEW S,
         WriteThenPublish(p, op, st, S), S \subseteq Nodes,
         \A n \in Nodes \ S : SameDoc(file, st, n)
  PROVE  DInv'
<1> DEFINE j == [Planned(Job(op, NoEnv, 0), st, S) EXCEPT !.st = st]
<1>1. file' = st /\ behind' = behind \cup S /\ host' = host
  BY DEF WriteThenPublish, Write
<1>2. FInv /\ HostsOK /\ behind \subseteq Nodes /\ PublishedOK
  BY DEF IInv, DInv
<1>3. PublishedOK'
  BY <1>1, <1>2, ShowsSame DEF PublishedOK
<1>4. HostsOK' /\ behind' \subseteq Nodes
  BY <1>1, <1>2, HostsSame
<1>5. CASE Hold(p, "publish", j)
  <2>1. j.op = op /\ j.plan = Plan(st, S) /\ j.todo = S /\ j.bad = {}
    BY DEF Planned, Job
  <2> HIDE DEF j
  <2>2. Drawn(j.plan, st, S) /\ DOMAIN j.plan = S
    BY <2>1, PlanDrawn DEF Drawn
  <2>3. WrittenOK(j, host')
    BY <2>1, <2>2 DEF WrittenOK
  <2>4. DocsOK("publish", j, file', behind', host')
    BY <1>1, <2>1, <2>2, <2>3 DEF DocsOK
  <2>5. QED
    BY <1>2, <1>3, <1>4, <1>5, <2>4, DocTakes DEF Locked
<1>6. CASE AtOnce
  <2>1. lock' = NoCli
    BY <1>6 DEF AtOnce, cliVars
  <2>2. QED
    BY <1>3, <1>4, <2>1, DocIdle
<1>7. QED
  BY <1>5, <1>6 DEF WriteThenPublish

LEMMA DocAttach ==
  ASSUME IInv, NEW p \in Clis, NEW e \in Envs, NEW n, Attach(p, e, n)
  PROVE  DInv'
<1> DEFINE st == WithNode(file, e, n)
           S  == IF HasRelease(st, e) THEN st.attached[e] ELSE {}
<1>1. FileOK(file) /\ n \in file.nodes /\ WriteThenPublish(p, "attach", st, S)
  BY DEF IInv, FInv, Attach
<1>2. /\ FileOK(st) /\ st.releases = file.releases /\ st.current = file.current
      /\ st.labels = file.labels /\ st.secrets = file.secrets
      /\ st.attached = Update(file.attached, e, file.attached[e] \cup {n})
  BY <1>1, WithNodeOK
<1> HIDE DEF st
<1>3. st.attached[e] = file.attached[e] \cup {n} /\ st.attached[e] \subseteq Nodes
  BY <1>1, <1>2, AttachedNodes DEF FileOK, NodesOK, Update
<1>4. OneEnv(file, st, e)
  BY <1>1, <1>2 DEF OneEnv, FileOK, NodesOK, Update
<1>5. ASSUME NEW m \in Nodes \ S PROVE SameDoc(file, st, m)
  <2>1. e \notin Released(file, m) /\ e \notin Released(st, m)
    BY <1>2, <1>3, <1>5 DEF Released, AttachedTo, HasRelease
  <2>2. QED
    BY <1>4, <2>1, SameOneEnv
<1>6. S \subseteq Nodes
  BY <1>3
<1> HIDE DEF S
<1>7. QED
  BY <1>1, <1>5, <1>6, DocWriteThenPublish

LEMMA DocLabel ==
  ASSUME IInv, NEW p \in Clis, NEW n, NEW labels \in (SUBSET Kinds) \ {{}}, Label(p, n, labels)
  PROVE  DInv'
<1> DEFINE st == [file EXCEPT !.labels[n] = labels]
           S  == Affected(st, n)
<1>1. FileOK(file) /\ n \in file.nodes /\ WriteThenPublish(p, "label", st, S)
  BY DEF IInv, FInv, Label
<1>2. n \in Nodes
  BY <1>1 DEF FileOK, NodesOK
<1>3. /\ FileOK(st) /\ st.releases = file.releases /\ st.current = file.current
      /\ st.attached = file.attached /\ st.secrets = file.secrets
      /\ st.labels = Update(file.labels, n, labels)
  BY <1>1, <1>2, LabelOK
<1> HIDE DEF st
<1>4. /\ \A e \in Envs : file.attached[e] \subseteq Nodes
      /\ n \in DOMAIN file.labels /\ DOMAIN file.labels = Nodes
  BY <1>1, <1>2 DEF FileOK, NodesOK
<1>5. S \subseteq Nodes
  BY <1>3, <1>4 DEF Affected, Released, AttachedTo
<1>6. \A m \in Nodes \ S : SameDoc(file, st, m)
  BY <1>3, <1>4, SameButLabels
<1> HIDE DEF S
<1>7. QED
  BY <1>1, <1>5, <1>6, DocWriteThenPublish

LEMMA DocLabels ==
  ASSUME IInv, NEW p \in Clis, NEW n, NEW labels \in (SUBSET Kinds) \ {{}},
         LabelSet(p, n, labels) \/ LabelRemove(p, n, labels)
  PROVE  DInv'
<1>1. CASE LabelSet(p, n, labels)
  BY <1>1, DocLabel DEF LabelSet
<1>2. CASE LabelRemove(p, n, labels)
  <2> DEFINE l == NormalLabels(file.labels[n] \ labels)
  <2>1. Label(p, n, l)
    BY <1>2 DEF LabelRemove
  <2>2. n \in file.nodes /\ FileOK(file)
    BY <2>1 DEF Label, IInv, FInv
  <2>3. file.labels[n] \in SUBSET Kinds
    BY <2>2 DEF FileOK, NodesOK
  <2>4. l \in (SUBSET Kinds) \ {{}}
    BY <2>3, DefaultLabels DEF NormalLabels
  <2> HIDE DEF l
  <2>5. QED
    BY <2>1, <2>4, DocLabel
<1>3. QED
  BY <1>1, <1>2

\* Taking a node out of an environment.
LEMMA WithoutNodeFields ==
  ASSUME NEW st, FileOK(st), NEW e \in Envs, NEW n
  PROVE  LET new == WithoutNode(st, e, n)
         IN /\ OneEnv(st, new, e) /\ new.attached[e] = st.attached[e] \ {n}
            /\ st.attached[e] \subseteq Nodes
            /\ \A m : m \notin st.attached[e] => e \notin Released(st, m) /\ e \notin Released(new, m)
<1> DEFINE new == WithoutNode(st, e, n)
<1>1. /\ new.releases = st.releases /\ new.current = st.current
      /\ new.labels = st.labels /\ new.secrets = st.secrets
      /\ new.attached = Update(st.attached, e, st.attached[e] \ {n})
  BY WithoutNodeOK
<1> HIDE DEF new
<1>2. OneEnv(st, new, e) /\ new.attached[e] = st.attached[e] \ {n}
  BY <1>1 DEF OneEnv, FileOK, NodesOK, Update
<1>3. \A m : m \notin st.attached[e] => e \notin Released(st, m) /\ e \notin Released(new, m)
  BY <1>2 DEF Released, AttachedTo
<1>4. st.attached[e] \subseteq Nodes
  BY AttachedNodes
<1>5. QED
  BY <1>2, <1>3, <1>4 DEF new

LEMMA DocDetachBegin ==
  ASSUME IInv, NEW p \in Clis, NEW e \in Envs, NEW n, DetachBegin(p, e, n)
  PROVE  DInv'
<1> DEFINE next == WithoutNode(file, e, n)
           S    == next.attached[e]
           j    == [Planned(Job("detach", e, n), next, S) EXCEPT !.next = next]
<1>1. /\ file' = file /\ host' = host /\ behind' = behind \cup S \cup {n}
      /\ Hold(p, "publish", j) /\ n \in file.attached[e]
  BY DEF DetachBegin
<1>2. FInv /\ FileOK(file) /\ HostsOK /\ behind \subseteq Nodes /\ PublishedOK
  BY DEF IInv, FInv, DInv
<1>3. S = file.attached[e] \ {n} /\ file.attached[e] \subseteq Nodes
  BY <1>2, WithoutNodeFields
<1> HIDE DEF next
<1>4. /\ j.op = "detach" /\ j.env = e /\ j.node = n /\ j.next = next
      /\ j.plan = Plan(next, S) /\ j.todo = S /\ j.bad = {}
  BY DEF Planned, Job
<1> HIDE DEF j
<1>5. Drawn(j.plan, next, S) /\ DOMAIN j.plan = S
  BY <1>4, PlanDrawn DEF Drawn
<1> HIDE DEF S
<1>6. WrittenOK(j, host')
  BY <1>3, <1>4, <1>5 DEF WrittenOK
<1>7. DetachDocs(j, file', behind', host')
  BY <1>1, <1>3, <1>4, <1>5 DEF DetachDocs
<1>8. DocsOK("publish", j, file', behind', host')
  BY <1>1, <1>4, <1>5, <1>6, <1>7 DEF DocsOK
<1>9. HostsOK' /\ PublishedOK' /\ behind' \subseteq Nodes
  BY <1>1, <1>2, <1>3, HostsSame, PublishedKept
<1>10. QED
  BY <1>1, <1>2, <1>8, <1>9, DocTakes DEF Locked

\* The nodes that stay have their new documents; the node that goes is next.
LEMMA DocDetachNode ==
  ASSUME IInv, NEW p \in Clis, DetachNode(p)
  PROVE  DInv'
<1> DEFINE j == job[p]
           k == [Planned(j, j.next, {j.node}) EXCEPT !.op = "clear"]
<1>1. /\ pc[p] = "publish" /\ j.op = "detach" /\ pc[p] \in Locked /\ j.todo = {} /\ j.bad = {}
      /\ UNCHANGED <<file, host, behind>>
  BY DEF DetachNode, Published, Locked
<1>2. /\ FInv /\ FileOK(file) /\ IsJob(j) /\ HostsOK /\ behind \subseteq Nodes /\ PublishedOK
      /\ HolderOK("publish", j, file) /\ DocsOK("publish", j, file, behind, host)
  BY <1>1, DocHolder
<1>3. CASE Plannable(j.next, {j.node})
  <2>1. /\ lock' = lock
        /\ pc' = [pc EXCEPT ![p] = "publish"] /\ job' = [job EXCEPT ![p] = k]
    BY <1>3 DEF DetachNode, Go
  <2>2. /\ WrittenOK(j, host) /\ DetachDocs(j, file, behind, host)
        /\ j.node \in file.attached[j.env]
    BY <1>1, <1>2 DEF DocsOK, HolderOK, DetachOK
  <2>3. /\ k.op = "clear" /\ k.env = j.env /\ k.node = j.node /\ k.next = j.next
        /\ k.plan = Plan(j.next, {j.node}) /\ k.todo = {j.node} /\ k.bad = {}
    BY <1>2 DEF Planned, IsJob
  <2> HIDE DEF k
  <2>4. Drawn(k.plan, j.next, {j.node}) /\ DOMAIN k.plan = {j.node}
    BY <2>3, PlanDrawn DEF Drawn
  <2>5. file.attached[j.env] \subseteq behind /\ j.node \in behind
    BY <2>2 DEF DetachDocs
  <2>6. WrittenOK(k, host)
    BY <1>2, <2>3, <2>4, <2>5 DEF WrittenOK
  <2>7. ASSUME NEW n \in file.attached[j.env] \ {j.node} PROVE Shows(host[n].override, j.next, n)
    <3>1. DOMAIN j.plan = file.attached[j.env] \ {j.node} /\ Drawn(j.plan, j.next, DOMAIN j.plan)
      BY <1>1, <2>2 DEF DetachDocs, Drawn
    <3>2. QED
      BY <1>1, <2>2, <2>7, <3>1, WrittenShows
  <2>8. DetachDocs(k, file, behind, host)
    BY <2>3, <2>4, <2>5, <2>7 DEF DetachDocs
  <2>9. DocsOK("publish", k, file, behind, host)
    BY <2>3, <2>4, <2>5, <2>6, <2>8 DEF DocsOK
  <2>10. HostsOK' /\ PublishedOK'
    BY <1>1, <1>2, HostsSame, PublishedKept
  <2>11. QED
    BY <1>1, <1>2, <2>1, <2>9, <2>10, DocMoves
<1>4. CASE ~Plannable(j.next, {j.node})
  BY <1>1, <1>2, <1>4, HostsSame, DocReturns DEF DetachNode
<1>5. QED
  BY <1>3, <1>4

LEMMA DocDetachEnds ==
  ASSUME IInv, NEW p \in Clis, DetachEnds(p)
  PROVE  DInv'
<1> DEFINE j == job[p]
           S == file.attached[j.env] \ {j.node}
<1>1. /\ pc[p] = "publish" /\ j.op = "clear" /\ pc[p] \in Locked /\ j.todo = {}
      /\ host' = host /\ Return(p)
  BY DEF DetachEnds, Published, Locked
<1>2. /\ FInv /\ FileOK(file) /\ HostsOK /\ behind \subseteq Nodes /\ PublishedOK
      /\ HolderOK("publish", j, file) /\ DocsOK("publish", j, file, behind, host)
  BY <1>1, DocHolder
<1>3. /\ WrittenOK(j, host) /\ DetachDocs(j, file, behind, host)
      /\ j.env \in Envs /\ j.node \in file.attached[j.env]
      /\ j.next = WithoutNode(file, j.env, j.node)
  BY <1>1, <1>2 DEF DocsOK, HolderOK, DetachOK
<1> DEFINE w == WithoutNode(file, j.env, j.node)
<1> HIDE DEF j
<1>4. /\ OneEnv(file, w, j.env) /\ w.attached[j.env] = S
      /\ \A m : m \notin file.attached[j.env] =>
                  j.env \notin Released(file, m) /\ j.env \notin Released(w, m)
  <2>1. FileOK(file) /\ j.env \in Envs
    BY <1>2, <1>3
  <2>2. ASSUME NEW e \in Envs, NEW n
        PROVE  LET v == WithoutNode(file, e, n)
               IN /\ OneEnv(file, v, e) /\ v.attached[e] = file.attached[e] \ {n}
                  /\ \A m : m \notin file.attached[e] =>
                              e \notin Released(file, m) /\ e \notin Released(v, m)
    BY <2>1, WithoutNodeFields
  <2>3. QED
    BY <2>1, <2>2
<1>5. w = j.next
  BY <1>3
<1> HIDE DEF w
<1>6. /\ \A n \in S : Shows(host[n].override, w, n)
      /\ DOMAIN j.plan = {j.node} /\ Drawn(j.plan, w, DOMAIN j.plan)
      /\ file.attached[j.env] \subseteq behind
  BY <1>1, <1>3, <1>5 DEF DetachDocs, Drawn
<1>7. \A n \in Nodes \ behind : Shows(host[n].override, w, n)
  BY <1>2, <1>4, <1>6, SameOneEnv, ShowsSame DEF PublishedOK
<1>8. j.bad = {} => Shows(host[j.node].override, w, j.node)
  BY <1>1, <1>3, <1>6, WrittenShows
<1>9. CASE UNCHANGED <<file, behind>>
  BY <1>1, <1>2, <1>9, HostsSame, DocReturns
<1>10. CASE /\ file' = w /\ behind' \subseteq behind
            /\ \A n \in behind \ behind' : n \in S \/ (n = j.node /\ j.bad = {})
  <2>1. PublishedOK'
    BY <1>1, <1>6, <1>7, <1>8, <1>10 DEF PublishedOK
  <2>2. QED
    BY <1>1, <1>2, <1>10, <2>1, DocWritesAndReturns
<1>11. QED
  <2>1. \/ UNCHANGED <<file, behind>>
        \/ file' = j.next /\ j.bad = {} /\ behind' = behind \ (j.next.attached[j.env] \cup {j.node})
        \/ file' = j.next /\ behind' = behind \ j.next.attached[j.env]
    BY DEF DetachEnds, Write, j
  <2>2. QED
    BY <1>4, <1>5, <1>9, <1>10, <2>1

LEMMA DocSecret ==
  ASSUME IInv, NEW p \in Clis, NEW e \in Envs, NEW op, NEW v \in Nat, Secret(p, op, e, v)
  PROVE  DInv'
<1> DEFINE j == [Job(op, e, 0) EXCEPT !.st = file', !.cfg = cfg[e]]
           w == WithSecret(file, e, v)
<1>1. file' = w /\ Hold(p, "config", j) /\ behind' = behind \cup file.attached[e] /\ host' = host
  BY DEF Secret, Write
<1>2. FInv /\ FileOK(file) /\ HostsOK /\ behind \subseteq Nodes /\ PublishedOK
  BY DEF IInv, FInv, DInv
<1>3. /\ w.releases = file.releases /\ w.current = file.current
      /\ w.attached = file.attached /\ w.labels = file.labels
      /\ w.secrets = Update(file.secrets, e, v)
  BY <1>2, SecretOK
<1> HIDE DEF w
<1>4. OneEnv(file, w, e)
  BY <1>2, <1>3 DEF OneEnv, Update, FileOK, NodesOK
<1>5. \A n : n \notin file.attached[e] => e \notin Released(file, n) /\ e \notin Released(w, n)
  BY <1>3 DEF Released, AttachedTo
<1>6. PublishedOK'
  BY <1>1, <1>2, <1>4, <1>5, PublishedOneEnv
<1>7. HostsOK' /\ behind' \subseteq Nodes
  BY <1>1, <1>2, HostsSame, AttachedNodes
<1>8. DocsOK("config", j, file', behind', host')
  BY DEF DocsOK
<1> HIDE DEF j
<1>9. QED
  BY <1>1, <1>2, <1>6, <1>7, <1>8, DocTakes DEF Locked

LEMMA DocSecrets ==
  ASSUME IInv, NEW p \in Clis, NEW e \in Envs, SecretSet(p, e) \/ SecretDelete(p, e)
  PROVE  DInv'
<1>1. CASE SecretSet(p, e)
  BY <1>1, DocSecret DEF SecretSet
<1>2. CASE SecretDelete(p, e)
  BY <1>2, DocSecret DEF SecretDelete
<1>3. QED
  BY <1>1, <1>2

-----------------------------------------------------------------------------
(* node create and node remove *)

LEMMA DocNodeCreate ==
  ASSUME IInv, NEW p \in Clis, NEW n \in Nodes, NEW hosted, NEW e, NEW install,
         NodeCreate(p, n, hosted, e, install)
  PROVE  DInv'
<1> DEFINE j == [Job("create", e, n) EXCEPT !.hosted = hosted, !.install = install]
<1>1. Hold(p, "server", j) /\ UNCHANGED <<file, host, behind>>
  BY DEF NodeCreate
<1>2. FInv /\ HostsOK /\ behind \subseteq Nodes /\ PublishedOK
  BY DEF IInv, DInv
<1>3. j.plan = << >> /\ j.todo = {} /\ j.bad = {}
  BY DEF Job
<1> HIDE DEF j
<1>4. DocsOK("server", j, file', behind', host')
  BY <1>3 DEF DocsOK
<1>5. HostsOK' /\ PublishedOK'
  BY <1>1, <1>2, HostsSame, PublishedKept
<1>6. QED
  BY <1>1, <1>2, <1>4, <1>5, DocTakes DEF Locked

\* Other labels of a node that is attached to nothing.
LEMMA SameUnattached ==
  ASSUME NEW s, FileOK(s), NEW t, NEW x \in Nodes, NEW v, t.labels = Update(s.labels, x, v),
         s.attached = t.attached, s.releases = t.releases, s.current = t.current,
         s.secrets = t.secrets, \A e \in Envs : x \notin s.attached[e], NEW n
  PROVE  SameDoc(s, t, n)
<1>1. n \notin Affected(t, x)
  BY DEF Affected, Released, AttachedTo
<1>2. x \in DOMAIN s.labels /\ \A e \in Envs : s.attached[e] \subseteq DOMAIN s.labels
  BY DEF FileOK, NodesOK
<1>3. QED
  BY <1>1, <1>2, SameButLabels

\* The node is registered, then attached; its peers are behind from then on.
LEMMA DocNodeSaved ==
  ASSUME IInv, NEW p \in Clis, NodeSaved(p)
  PROVE  DInv'
<1> DEFINE j   == job[p]
           reg == SetNode(file, j.node, j.hosted)
           st  == IF j.env = NoEnv THEN reg ELSE WithNode(reg, j.env, j.node)
           k   == [j EXCEPT !.st = st, !.next = reg]
<1>1. /\ pc[p] = "server" /\ pc[p] \in Locked /\ "install" \in Locked /\ file' = st
      /\ behind' = behind \cup CreateTargets(k) /\ host' = host
      /\ lock' = lock /\ pc' = [pc EXCEPT ![p] = "install"] /\ job' = [job EXCEPT ![p] = k]
  BY DEF NodeSaved, Write, Go, Locked
<1>2. /\ FInv /\ FileOK(file) /\ HolderOK("server", j, file) /\ IsJob(j)
      /\ HostsOK /\ behind \subseteq Nodes /\ PublishedOK
      /\ DocsOK("server", j, file, behind, host)
  BY <1>1, DocHolder
<1>3. /\ j.op = "create" /\ j.node \in Nodes \ file.nodes /\ j.env \in Envs \cup {NoEnv}
      /\ j.plan = << >> /\ j.todo = {} /\ j.bad = {}
  BY <1>2 DEF HolderOK, DocsOK
<1> HIDE DEF j
<1>4. /\ FileOK(reg) /\ reg.nodes = file.nodes \cup {j.node} /\ reg.attached = file.attached
      /\ reg.releases = file.releases /\ reg.current = file.current
      /\ reg.secrets = file.secrets /\ reg.labels = Update(file.labels, j.node, Default)
  <2>1. FileOK(file) /\ j.node \in Nodes
    BY <1>2, <1>3
  <2>2. QED
    BY <2>1, SetNodeOK
<1> HIDE DEF reg
<1>5. \A e \in Envs : j.node \notin file.attached[e]
  BY <1>2, <1>3 DEF FileOK, NodesOK
<1>6. \A n : SameDoc(file, reg, n)
  <2>1. j.node \in Nodes
    BY <1>3
  <2>2. QED
    BY <1>2, <1>4, <1>5, <2>1, SameUnattached
<1>7. j.env \in Envs =>
        /\ st.attached = Update(reg.attached, j.env, reg.attached[j.env] \cup {j.node})
        /\ st.labels = reg.labels /\ st.releases = reg.releases
        /\ st.current = reg.current /\ st.secrets = reg.secrets
  <2> SUFFICES ASSUME j.env \in Envs
               PROVE  /\ st.attached = Update(reg.attached, j.env, reg.attached[j.env] \cup {j.node})
                      /\ st.labels = reg.labels /\ st.releases = reg.releases
                      /\ st.current = reg.current /\ st.secrets = reg.secrets
    OBVIOUS
  <2>1. FileOK(reg) /\ j.node \in reg.nodes /\ j.env # NoEnv
    BY <1>4, NameAssumption
  <2>2. ASSUME NEW e \in Envs, NEW n \in reg.nodes
        PROVE  LET v == WithNode(reg, e, n)
               IN /\ v.attached = Update(reg.attached, e, reg.attached[e] \cup {n})
                  /\ v.labels = reg.labels /\ v.releases = reg.releases
                  /\ v.current = reg.current /\ v.secrets = reg.secrets
    BY <2>1, WithNodeOK
  <2>3. st = WithNode(reg, j.env, j.node)
    BY <2>1
  <2> HIDE DEF st
  <2>4. QED
    BY <2>1, <2>2, <2>3
<1>8. j.env \notin Envs => st = reg
  BY <1>3
<1>9. j.env = NoEnv => st = reg
  OBVIOUS
<1> HIDE DEF st
<1>10. j.env \in Envs =>
         /\ st.attached[j.env] = file.attached[j.env] \cup {j.node}
         /\ st.attached[j.env] \subseteq Nodes
         /\ OneEnv(reg, st, j.env)
         /\ reg.attached = Update(st.attached, j.env, st.attached[j.env] \ {j.node})
  <2> SUFFICES ASSUME j.env \in Envs
               PROVE  /\ st.attached[j.env] = file.attached[j.env] \cup {j.node}
                      /\ st.attached[j.env] \subseteq Nodes
                      /\ OneEnv(reg, st, j.env)
                      /\ reg.attached = Update(st.attached, j.env, st.attached[j.env] \ {j.node})
    OBVIOUS
  <2>1. file.attached[j.env] \subseteq Nodes /\ j.node \notin file.attached[j.env]
    BY <1>2, <1>5, AttachedNodes
  <2>2. DOMAIN reg.attached = Envs /\ reg.attached = [e \in Envs |-> reg.attached[e]]
    BY <1>4 DEF FileOK, NodesOK
  <2>3. st.attached[j.env] = file.attached[j.env] \cup {j.node}
    BY <1>4, <1>7, <2>2 DEF Update
  <2>4. OneEnv(reg, st, j.env)
    BY <1>7, <2>2 DEF OneEnv, Update
  <2>5. st.attached[j.env] \ {j.node} = reg.attached[j.env]
    BY <1>4, <2>1, <2>3
  <2>6. reg.attached = Update(st.attached, j.env, st.attached[j.env] \ {j.node})
    BY <1>7, <2>2, <2>5 DEF Update
  <2>7. QED
    BY <1>3, <2>1, <2>3, <2>4, <2>6
<1>11. /\ k.op = "create" /\ k.env = j.env /\ k.node = j.node /\ k.st = st /\ k.next = reg
       /\ k.plan = << >> /\ k.todo = {} /\ k.bad = {}
  BY <1>2, <1>3 DEF IsJob
<1> HIDE DEF k
<1>12. CreateTargets(k) \subseteq Nodes
  BY <1>3, <1>10, <1>11 DEF CreateTargets
<1>13. ASSUME NEW n \in Nodes \ CreateTargets(k) PROVE SameDoc(file, st, n)
  <2>1. CASE j.env = NoEnv
    BY <1>6, <1>9, <2>1
  <2>2. CASE j.env \in Envs
    <3>1. n \notin st.attached[j.env] \/ ~HasRelease(st, j.env)
      BY <1>11, <1>13, <2>2, NameAssumption DEF CreateTargets
    <3>2. j.env \notin Released(st, n) /\ j.env \notin Released(reg, n)
      BY <1>4, <1>7, <1>10, <2>2, <3>1 DEF Released, AttachedTo, HasRelease
    <3>3. SameDoc(reg, st, n)
      BY <1>10, <2>2, <3>2, SameOneEnv
    <3>4. QED
      BY <1>6, <3>3 DEF SameDoc
  <2>3. QED
    BY <1>3, <2>1, <2>2
<1>14. PublishedOK'
  BY <1>1, <1>2, <1>13, ShowsSame DEF PublishedOK
<1>15. CreateDocs(k, file', behind')
  BY <1>1, <1>7, <1>10, <1>11 DEF CreateDocs
<1>16. DocsOK("install", k, file', behind', host')
  BY <1>11, <1>15 DEF DocsOK
<1>17. HostsOK' /\ behind' \subseteq Nodes
  BY <1>1, <1>2, <1>12, HostsSame
<1>18. QED
  BY <1>1, <1>2, <1>14, <1>16, <1>17, DocMoves

LEMMA DocNodeInstall ==
  ASSUME IInv, NEW p \in Clis, NodeInstall(p)
  PROVE  DInv'
<1> DEFINE j == job[p]
           S == CreateTargets(j)
           k == IF Plannable(j.st, S) THEN Planned(j, j.st, S) ELSE [j EXCEPT !.bad = {j.node}]
<1>1. /\ pc[p] = "install" /\ pc[p] \in Locked /\ "publish" \in Locked
      /\ UNCHANGED <<file, behind>>
      /\ host' = host \/ host' = [host EXCEPT ![j.node] = Installed(host[j.node])]
  BY DEF NodeInstall, Locked
<1>2. /\ FInv /\ FileOK(file) /\ IsJob(j) /\ HostsOK /\ behind \subseteq Nodes /\ PublishedOK
      /\ HolderOK("install", j, file) /\ DocsOK("install", j, file, behind, host)
  BY <1>1, DocHolder
<1>3. /\ j.op = "create" /\ j.st = file /\ j.node \in file.nodes /\ j.env \in Envs \cup {NoEnv}
      /\ j.plan = << >> /\ j.todo = {} /\ j.bad = {} /\ CreateDocs(j, file, behind)
  BY <1>2 DEF HolderOK, CreateOK, DocsOK
<1>4. HostsOK' /\ Keeps(host, host')
  <2>1. j.node \in Nodes
    BY <1>2, <1>3 DEF FileOK, NodesOK
  <2>2. "override" \in DOMAIN host[j.node]
    BY <1>2, <2>1 DEF HostsOK
  <2>3. "override" \in DOMAIN Installed(host[j.node])
        /\ Installed(host[j.node]).override = host[j.node].override
    BY <2>2 DEF Installed
  <2>4. CASE host' = host
    BY <1>2, <2>4, HostsSame
  <2>5. CASE host' = [host EXCEPT ![j.node] = Installed(host[j.node])]
    <3>1. HostStep(j.node, Installed(host[j.node]))
      BY <2>3, <2>5 DEF HostStep
    <3>2. QED
      BY <1>2, <2>1, <3>1, HostKeeps
  <2>6. QED
    BY <1>1, <2>4, <2>5
<1>5. PublishedOK'
  BY <1>1, <1>2, <1>4, PublishedKept
<1>6. CASE S = {}
  <2>1. Return(p)
    BY <1>6 DEF NodeInstall
  <2>2. QED
    BY <1>1, <1>4, <2>1, DocReturns
<1>7. CASE S # {}
  <2>1. lock' = lock /\ pc' = [pc EXCEPT ![p] = "publish"] /\ job' = [job EXCEPT ![p] = k]
    BY <1>7 DEF NodeInstall, Go
  <2>2. /\ j.env \in Envs /\ HasRelease(file, j.env) /\ S = file.attached[j.env]
        /\ S \subseteq behind
    BY <1>3, <1>7 DEF CreateTargets, CreateDocs
  <2>3. /\ k.op = "create" /\ k.env = j.env /\ k.node = j.node /\ k.st = j.st /\ k.next = j.next
        /\ \/ k.plan = Plan(file, S) /\ k.todo = S /\ k.bad = {}
           \/ k.plan = << >> /\ k.todo = {} /\ k.bad = {j.node}
    BY <1>2, <1>3 DEF Planned, IsJob
  <2> HIDE DEF k, j
  <2>4. CreateDocs(k, file, behind)
    BY <1>3, <2>3 DEF CreateDocs, CreateTargets
  <2> HIDE DEF S
  <2>5. /\ WrittenOK(k, host') /\ DOMAIN k.plan \subseteq behind
        /\ k.bad = {} => Drawn(k.plan, file, S)
    <3>1. CASE k.plan = Plan(file, S) /\ k.todo = S /\ k.bad = {}
      <4>1. Drawn(k.plan, file, S) /\ DOMAIN k.plan = S
        BY <3>1, PlanDrawn DEF Drawn
      <4>2. QED
        BY <1>2, <2>2, <3>1, <4>1 DEF WrittenOK
    <3>2. CASE k.plan = << >> /\ k.todo = {} /\ k.bad = {j.node}
      BY <3>2, NoPlan DEF WrittenOK
    <3>3. QED
      BY <2>3, <3>1, <3>2
  <2>6. DocsOK("publish", k, file', behind', host')
    BY <1>1, <2>2, <2>3, <2>4, <2>5 DEF DocsOK
  <2>7. QED
    BY <1>1, <1>2, <1>4, <1>5, <2>1, <2>6, DocMoves
<1>8. QED
  BY <1>6, <1>7

\* The nodes are to get back the documents of the file without the attachment.
LEMMA DocNodeUndo ==
  ASSUME IInv, NEW p \in Clis, NodeUndo(p)
  PROVE  DInv'
<1> DEFINE j == job[p]
           S == CreateTargets(j)
           k == IF Plannable(j.next, S) THEN [Planned(j, j.next, S) EXCEPT !.op = "undo"]
                ELSE [j EXCEPT !.op = "undo"]
<1>1. /\ pc[p] = "publish" /\ j.op = "create" /\ j.todo = {} /\ j.bad # {} /\ pc[p] \in Locked
      /\ UNCHANGED <<file, lock, pc, host, behind>> /\ job' = [job EXCEPT ![p] = k]
  BY DEF NodeUndo, Published, Locked
<1>2. /\ FInv /\ LockOK /\ FileOK(file) /\ IsJob(j) /\ HostsOK /\ behind \subseteq Nodes
      /\ PublishedOK /\ HolderOK("publish", j, file)
      /\ DocsOK("publish", j, file, behind, host)
  BY <1>1, DocHolder
<1>3. /\ j.st = file /\ j.env \in Envs /\ CreateDocs(j, file, behind) /\ HasRelease(file, j.env)
      /\ WrittenOK(j, host) /\ DOMAIN j.plan \subseteq behind
  BY <1>1, <1>2 DEF HolderOK, CreateOK, DocsOK
<1>4. S = file.attached[j.env] /\ S \subseteq behind
  BY <1>3, NameAssumption DEF CreateTargets, CreateDocs
<1>5. /\ k.op = "undo" /\ k.env = j.env /\ k.node = j.node /\ k.st = j.st /\ k.next = j.next
      /\ \/ k.plan = Plan(j.next, S) /\ k.todo = S /\ k.bad = {}
         \/ k.plan = j.plan /\ k.todo = j.todo /\ k.bad = j.bad
  BY <1>2 DEF Planned, IsJob
<1> HIDE DEF k, j
<1>6. CreateDocs(k, file, behind)
  BY <1>3, <1>5 DEF CreateDocs, CreateTargets
<1> HIDE DEF S
<1>7. /\ WrittenOK(k, host) /\ DOMAIN k.plan \subseteq behind
      /\ k.bad = {} => Drawn(k.plan, j.next, S)
  <2>1. CASE k.plan = Plan(j.next, S) /\ k.todo = S /\ k.bad = {}
    <3>1. Drawn(k.plan, j.next, S) /\ DOMAIN k.plan = S
      BY <2>1, PlanDrawn DEF Drawn
    <3>2. QED
      BY <1>2, <1>4, <2>1, <3>1 DEF WrittenOK
  <2>2. CASE k.plan = j.plan /\ k.todo = j.todo /\ k.bad = j.bad
    BY <1>1, <1>3, <2>2 DEF WrittenOK
  <2>3. QED
    BY <1>5, <2>1, <2>2
<1>8. DocsOK("publish", k, file, behind, host)
  BY <1>3, <1>4, <1>5, <1>6, <1>7 DEF DocsOK
<1>9. HostsOK' /\ PublishedOK' /\ pc' = [pc EXCEPT ![p] = "publish"]
  BY <1>1, <1>2, HostsSame, PublishedKept DEF LockOK
<1>10. QED
  BY <1>1, <1>2, <1>8, <1>9, DocMoves

\* The attachment is taken back; the node, then attached to nothing, may go.
LEMMA DocNodeUndone ==
  ASSUME IInv, NEW p \in Clis, NodeUndone(p)
  PROVE  DInv'
<1> DEFINE j  == job[p]
           S  == file.attached[j.env]
           st == WithoutNode(file, j.env, j.node)
<1>1. /\ pc[p] = "publish" /\ pc[p] \in Locked /\ j.op = "undo" /\ j.todo = {}
      /\ Return(p) /\ host' = host
      /\ behind' = IF j.bad = {} THEN behind \ DOMAIN j.plan ELSE behind
  BY DEF NodeUndone, Published, Locked
<1>2. /\ FileOK(file) /\ HostsOK /\ behind \subseteq Nodes /\ PublishedOK
      /\ HolderOK("publish", j, file) /\ DocsOK("publish", j, file, behind, host)
  BY <1>1, DocHolder
<1>3. /\ j.st = file /\ j.env \in Envs /\ j.node \in file.nodes
      /\ \A e \in Envs : j.node \in file.attached[e] => e = j.env
      /\ WrittenOK(j, host) /\ CreateDocs(j, file, behind) /\ HasRelease(file, j.env)
      /\ j.bad = {} => Drawn(j.plan, j.next, S)
  BY <1>1, <1>2 DEF HolderOK, CreateOK, DocsOK
<1>4. file' = st \/ file' = RemoveNode(st, j.node)
  BY <1>3 DEF NodeUndone, Write
<1>5. /\ j.node \in Nodes /\ DOMAIN file.attached = Envs /\ S \subseteq behind
  BY <1>2, <1>3, NameAssumption DEF FileOK, NodesOK, CreateDocs, CreateTargets
<1> HIDE DEF j
<1>6. /\ FileOK(st) /\ st.releases = file.releases /\ st.current = file.current
      /\ st.labels = file.labels /\ st.secrets = file.secrets
      /\ st.attached = Update(file.attached, j.env, S \ {j.node})
      /\ OneEnv(file, st, j.env)
      /\ \A m : m \notin S => j.env \notin Released(file, m) /\ j.env \notin Released(st, m)
  <2>1. FileOK(file) /\ j.env \in Envs
    BY <1>2, <1>3
  <2>2. ASSUME NEW e \in Envs, NEW n PROVE
          LET w == WithoutNode(file, e, n)
          IN /\ FileOK(w) /\ w.releases = file.releases /\ w.current = file.current
             /\ w.labels = file.labels /\ w.secrets = file.secrets
             /\ w.attached = Update(file.attached, e, file.attached[e] \ {n})
    BY <2>1, WithoutNodeOK
  <2>3. ASSUME NEW e \in Envs, NEW n PROVE
          LET w == WithoutNode(file, e, n)
          IN /\ OneEnv(file, w, e)
             /\ \A m : m \notin file.attached[e] =>
                         e \notin Released(file, m) /\ e \notin Released(w, m)
    BY <2>1, WithoutNodeFields
  <2>4. QED
    BY <2>1, <2>2, <2>3
<1> HIDE DEF st
<1>7. \A e \in Envs : j.node \notin st.attached[e]
  BY <1>3, <1>5, <1>6 DEF Update
<1>8. Alike(j.next, st)
  BY <1>3, <1>6 DEF Alike, CreateDocs
<1>9. \A n : SameDoc(st, file', n)
  <2>1. CASE file' = st
    BY <2>1 DEF SameDoc
  <2>2. CASE file' = RemoveNode(st, j.node)
    <3>1. AttachedTo(st, j.node) = {}
      BY <1>7 DEF AttachedTo
    <3>2. /\ file'.labels = Update(st.labels, j.node, Default) /\ file'.attached = st.attached
          /\ file'.releases = st.releases /\ file'.current = st.current
          /\ file'.secrets = st.secrets
      BY <1>5, <1>6, <2>2, <3>1, RemoveNodeOK
    <3>3. QED
      BY <1>5, <1>6, <1>7, <3>2, SameUnattached
  <2>3. QED
    BY <1>4, <2>1, <2>2
<1>10. ASSUME NEW n \in Nodes \ behind' PROVE Shows(host'[n].override, file', n)
  <2>1. CASE n \in behind
    <3>1. j.bad = {} /\ n \in DOMAIN j.plan /\ Drawn(j.plan, j.next, DOMAIN j.plan)
      BY <1>1, <1>3, <1>10, <2>1 DEF Drawn
    <3>2. Shows(host[n].override, j.next, n)
      BY <1>1, <1>3, <3>1, WrittenShows
    <3>3. QED
      BY <1>1, <1>8, <1>9, <3>2, SameAlike, ShowsSame
  <2>2. CASE n \notin behind
    <3>1. Shows(host[n].override, file, n) /\ n \notin S
      BY <1>2, <1>5, <1>10, <2>2 DEF PublishedOK
    <3>2. SameDoc(file, st, n)
      BY <1>6, <3>1, SameOneEnv
    <3>3. QED
      BY <1>1, <1>9, <3>1, <3>2, ShowsSame
  <2>3. QED
    BY <2>1, <2>2
<1>11. PublishedOK' /\ behind' \subseteq Nodes
  BY <1>1, <1>2, <1>10 DEF PublishedOK
<1>12. QED
  BY <1>1, <1>11, DocWritesAndReturns

\* A node that is attached to nothing shows on no other.
LEMMA RemovedSame ==
  ASSUME NEW st, FileOK(st), NEW x \in Nodes, AttachedTo(st, x) = {}, NEW n
  PROVE  SameDoc(st, RemoveNode(st, x), n)
<1> DEFINE new == RemoveNode(st, x)
<1>1. /\ new.labels = Update(st.labels, x, Default) /\ new.attached = st.attached
      /\ new.releases = st.releases /\ new.current = st.current /\ new.secrets = st.secrets
  BY RemoveNodeOK
<1> HIDE DEF new
<1>2. \A e \in Envs : x \notin st.attached[e]
  BY DEF AttachedTo
<1>3. SameDoc(st, new, n)
  BY <1>1, <1>2, SameUnattached
<1>4. QED
  BY <1>3 DEF new

LEMMA DocNodeRemove ==
  ASSUME IInv, NEW p \in Clis, NEW n \in Nodes, NodeRemove(p, n)
  PROVE  DInv'
<1>1. /\ FInv /\ FileOK(file) /\ AttachedTo(file, n) = {} /\ behind' = behind
      /\ HostsOK /\ behind \subseteq Nodes /\ PublishedOK
  BY DEF IInv, FInv, DInv, NodeRemove
<1>2. CASE n \in file.hosted
  <2> DEFINE j == Job("remove", NoEnv, n)
  <2>1. Hold(p, "remove", j) /\ file' = file /\ host' = [host EXCEPT ![n] = Bare]
    BY <1>2 DEF NodeRemove
  <2>2. HostStep(n, Bare)
    BY <2>1 DEF HostStep, Bare
  <2>3. HostsOK' /\ Keeps(host, host')
    BY <1>1, <2>2, HostKeeps
  <2>4. PublishedOK'
    BY <1>1, <2>1, <2>3, PublishedKept
  <2>5. DocsOK("remove", j, file', behind', host')
    BY DEF DocsOK
  <2> HIDE DEF j
  <2>6. QED
    BY <1>1, <2>1, <2>3, <2>4, <2>5, DocTakes DEF Locked
<1>3. CASE n \notin file.hosted
  <2>1. file' = RemoveNode(file, n) /\ lock' = NoCli /\ host' = host
    BY <1>3 DEF NodeRemove, Write, AtOnce, cliVars
  <2>2. PublishedOK'
    BY <1>1, <2>1, RemovedSame, ShowsSame DEF PublishedOK
  <2>3. QED
    BY <1>1, <2>1, <2>2, HostsSame, DocIdle
<1>4. QED
  BY <1>2, <1>3

LEMMA DocNodeRemoved ==
  ASSUME IInv, NEW p \in Clis, NodeRemoved(p)
  PROVE  DInv'
<1> DEFINE n == job[p].node
<1>1. /\ pc[p] = "remove" /\ pc[p] \in Locked /\ Return(p) /\ file' = RemoveNode(file, n)
      /\ host' = host /\ behind' = behind
  BY DEF NodeRemoved, Write, Locked
<1>2. FileOK(file) /\ HolderOK("remove", job[p], file) /\ behind \subseteq Nodes /\ PublishedOK
  BY <1>1, DocHolder
<1>3. n \in Nodes /\ AttachedTo(file, n) = {}
  BY <1>2 DEF HolderOK
<1> HIDE DEF n
<1>4. PublishedOK'
  BY <1>1, <1>2, <1>3, RemovedSame, ShowsSame DEF PublishedOK
<1>5. QED
  BY <1>1, <1>2, <1>4, DocWritesAndReturns

-----------------------------------------------------------------------------
(* The theorems *)

LEMMA DocReturning ==
  ASSUME IInv, NEW p \in Clis,
         \/ Crash(p) \/ PublishAborts(p) \/ ConfigWrite(p) \/ ServerNotReady(p)
         \/ NodeInstallFails(p)
  PROVE  DInv'
<1>1. Return(p) /\ file' = file /\ host' = host /\ behind' = behind /\ HostsOK
  BY DEF Crash, PublishAborts, ConfigWrite, ServerNotReady, NodeInstallFails, IInv, DInv
<1>2. QED
  BY <1>1, HostsSame, DocReturns

LEMMA DocOutside ==
  ASSUME IInv, UNCHANGED <<file, cliVars, host, behind>>
  PROVE  DInv'
<1>1. /\ file' = file /\ lock' = lock /\ pc' = pc /\ job' = job /\ host' = host
      /\ behind' = behind /\ HostsOK /\ behind \subseteq Nodes
  BY DEF cliVars, IInv, DInv
<1>2. QED
  BY <1>1, HostsSame, DocUntouched DEF SameDocs

LEMMA DocCommand ==
  ASSUME IInv, NEW p \in Clis, Command(p)
  PROVE  DInv'
<1>1. ASSUME NEW e \in Envs, NEW c \in Commits, DeployBegin(p, e, c) PROVE DInv'
  BY <1>1, DocDeployBegin
<1>2. ASSUME NEW e \in Envs, NEW r \in Selectable(file, e), RollbackBegin(p, e, r) PROVE DInv'
  BY <1>2, DocRollbackBegin
<1>3. ASSUME NEW e \in Envs, StatusBegin(p, e) PROVE DInv'
  BY <1>3, DocStatus
<1>4. ASSUME NEW e \in Envs, SecretSet(p, e) \/ SecretDelete(p, e) PROVE DInv'
  BY <1>4, DocSecrets
<1>5. ASSUME NEW e \in Envs, IngressSet(p, e) PROVE DInv'
  BY <1>5, DocOutside DEF IngressSet
<1>6. ASSUME NEW e \in Envs, NEW n \in Nodes, Attach(p, e, n) PROVE DInv'
  BY <1>6, DocAttach
<1>7. ASSUME NEW e \in Envs, NEW n \in Nodes, DetachBegin(p, e, n) PROVE DInv'
  BY <1>7, DocDetachBegin
<1>8. ASSUME NEW n \in Nodes, NEW labels \in (SUBSET Kinds) \ {{}},
             LabelSet(p, n, labels) \/ LabelRemove(p, n, labels)
      PROVE  DInv'
  BY <1>8, DocLabels
<1>9. ASSUME NEW n \in Nodes, NEW e \in Envs \cup {NoEnv}, NEW h \in BOOLEAN, NEW i \in BOOLEAN,
             NodeCreate(p, n, h, e, i)
      PROVE  DInv'
  BY <1>9, DocNodeCreate
<1>10. ASSUME NEW n \in Nodes, NodeRemove(p, n) PROVE DInv'
  BY <1>10, DocNodeRemove
<1>11. ASSUME NEW n \in Nodes, AgentInstall(p, n) PROVE DInv'
  BY <1>11, DocAgentCommands
<1>12. ASSUME NEW n \in Nodes, NEW keep \in BOOLEAN, AgentUninstall(p, n, keep) PROVE DInv'
  BY <1>12, DocAgentCommands
<1>13. QED
  BY <1>1, <1>2, <1>3, <1>4, <1>5, <1>6, <1>7, <1>8, <1>9, <1>10, <1>11, <1>12 DEF Command

LEMMA DocProceed ==
  ASSUME IInv, NEW p \in Clis, Proceed(p)
  PROVE  DInv'
<1>1. ASSUME NEW n \in Nodes, PublishNode(p, n) \/ PublishFails(p, n) PROVE DInv'
  BY <1>1, DocPublishNode, DocPublishFails
<1>2. ASSUME NEW n \in Nodes, NEW c \in Commits, SendImage(p, n, c) PROVE DInv'
  BY <1>2, DocSendImage
<1>3. CASE BaselineRead(p) \/ DeployPublish(p) \/ DeployRecord(p)
  BY <1>3, DocBaselineRead, DocDeployPublish, DocDeployRecord
<1>4. CASE WaitRead(p) \/ WaitReadFails(p) \/ WaitSettled(p)
  BY <1>4, DocWaits
<1>5. CASE RollbackPublish(p) \/ RollbackPublished(p)
  BY <1>5, DocRollbackPublish, DocRollbackPublished
<1>6. CASE StatusRead(p) \/ StatusRecover(p)
  BY <1>6, DocStatus, DocStatusRecover
<1>7. CASE PublishEnds(p) \/ NodeCreated(p) \/ DetachNode(p) \/ DetachEnds(p)
  BY <1>7, DocPublishEnds, DocDetachNode, DocDetachEnds
<1>8. CASE PublishAborts(p) \/ ConfigWrite(p) \/ ServerNotReady(p) \/ NodeInstallFails(p)
  BY <1>8, DocReturning
<1>9. CASE NodeSaved(p) \/ NodeInstall(p) \/ NodeUndo(p) \/ NodeUndone(p) \/ NodeRemoved(p)
  BY <1>9, DocNodeSaved, DocNodeInstall, DocNodeUndo, DocNodeUndone, DocNodeRemoved
<1>10. QED
  BY <1>1, <1>2, <1>3, <1>4, <1>5, <1>6, <1>7, <1>8, <1>9 DEF Proceed

LEMMA DocStep ==
  ASSUME IInv, [Next]_vars
  PROVE  DInv'
<1>1. ASSUME NEW p \in Clis, Command(p) PROVE DInv'
  BY <1>1, DocCommand
<1>2. ASSUME NEW p \in Clis, Proceed(p) PROVE DInv'
  BY <1>2, DocProceed
<1>3. ASSUME NEW p \in Clis, WaitAgain(p) \/ WaitTimeout(p) PROVE DInv'
  BY <1>3, DocWaits
<1>4. ASSUME NEW p \in Clis, Crash(p) PROVE DInv'
  BY <1>4, DocReturning
<1>5. ASSUME NEW n \in Nodes,
             \/ AgentPass(n) \/ AgentTaskRuns(n) \/ AgentTaskFails(n) \/ AgentSick(n)
             \/ AgentFails(n) \/ AgentLacksImage(n) \/ AgentCareFails(n) \/ AgentCaresAgain(n)
      PROVE  DInv'
  BY <1>5, DocAgent DEF AgentPass
<1>6. CASE UNCHANGED vars
  BY <1>6, DocOutside DEF vars
<1>7. QED
  BY <1>1, <1>2, <1>3, <1>4, <1>5, <1>6 DEF Next

LEMMA DocInit ==
  ASSUME Init
  PROVE  DInv
<1>1. lock = NoCli /\ behind = {}
  BY DEF Init
<1>2. host = [n \in Nodes |-> IF n \in InitialNodes THEN [Bare EXCEPT !.agent = TRUE] ELSE Bare]
  BY DEF Init
<1>3. /\ "override" \in DOMAIN Bare /\ Bare.override = None
      /\ "override" \in DOMAIN [Bare EXCEPT !.agent = TRUE]
      /\ [Bare EXCEPT !.agent = TRUE].override = None
  BY DEF Bare
<1>4. \A n \in Nodes : "override" \in DOMAIN host[n] /\ host[n].override = None
  BY <1>2, <1>3
<1>5. HostsOK
  BY <1>2, <1>4 DEF HostsOK
<1>6. PublishedOK
  BY <1>4 DEF PublishedOK, Shows
<1>7. QED
  BY <1>1, <1>5, <1>6 DEF DInv, HolderDocsOK

\* A holder of the lock has planned documents of the file of now or of the one
\* it is about to write, for nodes that are behind, and the nodes it is done
\* with have them.
THEOREM DocumentInvariance == Spec => []IInv
<1>1. Init => IInv
  BY FileInit, DocInit DEF IInv
<1>2. IInv /\ [Next]_vars => IInv'
  BY FileStep, DocStep DEF IInv
<1>3. QED
  BY <1>1, <1>2, PTL DEF Spec

\* PublishedMatchesState: on every node that no command is working on or left
\* unfinished there is the document of the state file, however deploys,
\* rollbacks, recoveries, attachments, labels, secrets, creations, removals,
\* crashes and agents overlap.
THEOREM DocumentsMatch == Spec => []PublishedMatchesState
<1>1. IInv => PublishedMatchesState
  BY DEF IInv, DInv, PublishedOK, Shows, PublishedMatchesState, Document, EnvsOf, PeersOf
<1>2. QED
  BY <1>1, DocumentInvariance, PTL

\* SettlesWhatIsPublished: when waitForSoloRolloutForRuntime ends, the documents
\* the command wrote are the ones on its nodes.
THEOREM SettlesItsOwn == Spec => SettlesWhatIsPublished
<1> DEFINE Settles ==
      \A p \in Clis :
        (/\ pc[p] = "wait" /\ pc'[p] = "idle" /\ job[p].dep \in DOMAIN file'.deployments
         /\ file'.deployments[job[p].dep].status = "settled")
          => \A n \in DOMAIN job[p].plan : host[n].override \in {job[p].plan[n], None}
<1>1. IInv /\ [Next]_vars => [Settles]_vars
  <2> SUFFICES ASSUME IInv, NEW p \in Clis, pc[p] = "wait"
               PROVE  \A n \in DOMAIN job[p].plan : host[n].override \in {job[p].plan[n], None}
    OBVIOUS
  <2>1. DocsOK("wait", job[p], file, behind, host)
    BY DocHolder DEF Locked
  <2>2. QED
    BY <2>1 DEF DocsOK, WrittenOK
<1>2. SettlesWhatIsPublished <=> [][Settles]_vars
  BY DEF SettlesWhatIsPublished
<1> HIDE DEF Settles
<1>3. QED
  BY <1>1, <1>2, DocumentInvariance, PTL DEF Spec
=============================================================================
