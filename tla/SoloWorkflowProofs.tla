------------------------- MODULE SoloWorkflowProofs -------------------------
(***************************************************************************)
(* Theorems about SoloWorkflow, for every number of nodes, environments,   *)
(* processes, commits, releases, commands and faults.                      *)
(*                                                                         *)
(* The state file is read and written as a whole, and most commands write  *)
(* what they computed from a copy that they read many steps before.  The   *)
(* inductive invariant says, for each place the holder of the lock can be  *)
(* at, how its copies relate to the file of now.  Of the processes without *)
(* the lock nothing is needed: status, the only one of several steps,      *)
(* reads the file again before it writes.                                  *)
(***************************************************************************)
EXTENDS SoloWorkflow, TLAPS, SequenceTheorems, WellFoundedInduction

-----------------------------------------------------------------------------
(* The inductive invariant: the file and the lock *)

\* A deployment of the file: what normalizeState accepts, numbered at most by
\* its position.
DeploymentOK(st, i) ==
  LET d == st.deployments[i]
  IN /\ d = [env |-> d.env, rel |-> d.rel, kind |-> d.kind, targets |-> d.targets,
             seq |-> d.seq, status |-> d.status, pub |-> d.pub]
     /\ d.env \in Envs /\ d.rel \in Releases(st, d.env) /\ d.seq \in 1..i
     /\ d.kind \in {"deploy", "rollback"} /\ d.status \in {"running", "settled", "failed"}

IsFile(st) ==
  st = [nodes |-> st.nodes, labels |-> st.labels, hosted |-> st.hosted,
        attached |-> st.attached, releases |-> st.releases, current |-> st.current,
        deployments |-> st.deployments, secrets |-> st.secrets]

NodesOK(st) ==
  /\ st.nodes \subseteq Nodes /\ st.hosted \subseteq st.nodes
  /\ st.labels \in [Nodes -> (SUBSET Kinds) \ {{}}]
  /\ st.attached \in [Envs -> SUBSET st.nodes]
  /\ st.secrets \in [Envs -> Nat]

ReleasesOK(st) ==
  /\ st.releases \in Seq(Range(st.releases))
  /\ \A i \in 1..Len(st.releases) : st.releases[i].env \in Envs
  /\ st.current \in [Envs -> Nat] /\ CurrentReadable(st)

DeploymentsOK(st) ==
  /\ st.deployments \in Seq(Range(st.deployments))
  /\ \A i \in 1..Len(st.deployments) : DeploymentOK(st, i)

FileOK(st) == IsFile(st) /\ NodesOK(st) /\ ReleasesOK(st) /\ DeploymentsOK(st)

\* The variables of a command.
IsJob(j) ==
  DOMAIN j = {"op", "env", "node", "st", "next", "cfg", "plan", "todo", "bad", "gone", "sweep",
              "clean", "rel", "dep", "checked", "install", "hosted", "sent", "since"}

\* Deployment i of file f is still to be ended.
RunningAt(f, i, kind) ==
  i \in 1..Len(f.deployments) /\ f.deployments[i].status = "running" /\ f.deployments[i].kind = kind

\* deploy, until its release is recorded.
DeployOK(j, f) ==
  /\ j.env \in Envs
  /\ j.rel = Len(f.releases) + 1
  /\ LET r == j.next.releases[j.rel] IN r.env = j.env /\ j.next = SaveRelease(f, r)

\* release rollback, which records its deployment first.
RollbackOK(j, f) ==
  /\ j.env \in Envs /\ j.st = f /\ RunningAt(f, j.dep, "rollback")
  /\ f.deployments[j.dep].env = j.env /\ f.deployments[j.dep].rel = j.rel

\* node detach, until the file is written.
DetachOK(j, f) ==
  /\ j.env \in Envs /\ j.node \in f.attached[j.env]
  /\ j.next = WithoutNode(f, j.env, j.node)

\* node create, once the node is registered.
CreateOK(j, f) ==
  /\ j.st = f /\ j.node \in f.nodes /\ j.env \in Envs \cup {NoEnv}
  /\ \A e \in Envs : j.node \in f.attached[e] => e = j.env

\* Its command at "publish".
PublishOps == {"deploy", "rollback", "attach", "label", "detach", "clear", "create", "undo"}

\* The holder of the lock, at step at, with variables j, beside the file f.
HolderOK(at, j, f) ==
  /\ IsJob(j)
  /\ at \in {"baseline", "wait"} => j.op \in {"deploy", "rollback"}
  /\ at = "publish" => j.op \in PublishOps
  /\ at \in {"baseline", "publish"} /\ j.op = "deploy" => DeployOK(j, f)
  /\ at = "wait" /\ j.op = "deploy" => j.st = f /\ RunningAt(f, j.dep, "deploy")
  /\ at \in {"baseline", "publish", "wait"} /\ j.op = "rollback" => RollbackOK(j, f)
  /\ at = "publish" /\ j.op \in {"detach", "clear"} => DetachOK(j, f)
  /\ at = "server" => j.op = "create" /\ j.node \in Nodes \ f.nodes /\ j.env \in Envs \cup {NoEnv}
  /\ at = "install" => j.op = "create" /\ CreateOK(j, f)
  /\ at = "publish" /\ j.op \in {"create", "undo"} => CreateOK(j, f) /\ j.env \in Envs
  /\ at = "remove" => j.node \in Nodes /\ AttachedTo(f, j.node) = {}

Locked == {"baseline", "publish", "wait", "config", "server", "install", "remove"}

LockOK ==
  /\ lock \in Clis \cup {NoCli}
  /\ pc = [p \in Clis |-> pc[p]] /\ job = [p \in Clis |-> job[p]]
  /\ \A p \in Clis : pc[p] \in Locked <=> lock = p

FInv ==
  /\ FileOK(file) /\ LockOK
  /\ lock # NoCli => HolderOK(pc[lock], job[lock], file)

-----------------------------------------------------------------------------
(* Sequences and maxima *)

\* A sequence is one over its own entries.
LEMMA OverItsRange ==
  ASSUME NEW S, NEW s \in Seq(S)
  PROVE  s \in Seq(Range(s))
<1>1. /\ Len(s) \in Nat /\ s \in [1..Len(s) -> S] /\ DOMAIN s = 1..Len(s)
  BY LenProperties
<1>2. s \in [1..Len(s) -> Range(s)]
  BY <1>1 DEF Range
<1>3. QED
  BY <1>1, <1>2, SeqDef

\* What Append does to a sequence of whatever entries.
LEMMA Appended ==
  ASSUME NEW s, s \in Seq(Range(s)), NEW x
  PROVE  /\ Append(s, x) \in Seq(Range(Append(s, x)))
         /\ Len(s) \in Nat /\ Len(Append(s, x)) = Len(s) + 1
         /\ \A i \in 1..Len(s) : Append(s, x)[i] = s[i]
         /\ Append(s, x)[Len(s) + 1] = x
         /\ SubSeq(Append(s, x), 1, Len(s)) = s
<1> DEFINE S == Range(s) \cup {x}
           t == Append(s, x)
<1>1. s \in Seq(S) /\ x \in S
  BY SeqMonotonic
<1> HIDE DEF S
<1>2. t \in Seq(S) /\ Len(s) \in Nat
  BY <1>1
<1>3. Len(t) = Len(s) + 1 /\ \A i \in 1..Len(s) : t[i] = s[i]
  BY <1>1
<1>4. t[Len(s) + 1] = x
  BY <1>1
<1>5. SubSeq(t, 1, Len(s)) = s
  <2>1. \A i \in 1..Len(s) : t[i] \in S
    BY <1>1, <1>3, ElementOfSeq
  <2>2. /\ SubSeq(t, 1, Len(s)) \in Seq(S)
        /\ Len(SubSeq(t, 1, Len(s))) = IF 1 <= Len(s) THEN Len(s) - 1 + 1 ELSE 0
        /\ \A i \in 1..(Len(s) - 1 + 1) : SubSeq(t, 1, Len(s))[i] = t[1 + i - 1]
    BY <1>2, <2>1, SubSeqProperties
  <2>3. Len(SubSeq(t, 1, Len(s))) = Len(s)
    BY <1>2, <2>2
  <2>4. \A i \in 1..Len(s) : SubSeq(t, 1, Len(s))[i] = s[i]
    BY <1>2, <1>3, <2>2
  <2>5. QED
    BY <1>1, <2>2, <2>3, <2>4, SeqEqual
<1>6. QED
  BY <1>2, <1>3, <1>4, <1>5, OverItsRange

\* What replacing one entry does.
LEMMA Replaced ==
  ASSUME NEW s, s \in Seq(Range(s)), NEW i \in 1..Len(s), NEW x
  PROVE  /\ [s EXCEPT ![i] = x] \in Seq(Range([s EXCEPT ![i] = x]))
         /\ Len(s) \in Nat /\ Len([s EXCEPT ![i] = x]) = Len(s)
         /\ DOMAIN s = 1..Len(s)
         /\ \A k \in 1..Len(s) : [s EXCEPT ![i] = x][k] = IF k = i THEN x ELSE s[k]
<1> DEFINE S == Range(s) \cup {x}
<1>1. s \in Seq(S) /\ x \in S
  BY SeqMonotonic
<1> HIDE DEF S
<1>2. /\ [s EXCEPT ![i] = x] \in Seq(S)
      /\ Len([s EXCEPT ![i] = x]) = Len(s)
      /\ \A k \in 1..Len(s) : [s EXCEPT ![i] = x][k] = IF k = i THEN x ELSE s[k]
  BY <1>1, ExceptSeq
<1>3. Len(s) \in Nat /\ DOMAIN s = 1..Len(s)
  BY <1>1, LenProperties
<1>4. QED
  BY <1>2, <1>3, OverItsRange

\* A bounded set of numbers has a maximum, and Max is it.
LEMMA MaxIsGreatest ==
  ASSUME NEW N \in Nat, NEW T, T \subseteq 0..N, T # {}
  PROVE  Max(T) \in T /\ \A y \in T : y <= Max(T)
<1> DEFINE U == {x \in 0..N : N - x \in T}
<1>1. U \subseteq Nat /\ U # {}
  <2>1. PICK t \in T : TRUE
    OBVIOUS
  <2>2. t \in 0..N /\ N - t \in 0..N /\ N - (N - t) = t
    BY <2>1
  <2>3. QED
    BY <2>1, <2>2
<1>2. PICK x \in U : \A y \in U : ~(<<y, x>> \in OpToRel(<, Nat))
  BY <1>1, WFMin, NatLessThanWellFounded, Zenon
<1>3. \A y \in U : ~(y < x)
  BY <1>1, <1>2, Zenon DEF OpToRel
<1> DEFINE m == N - x
<1>4. m \in T /\ x \in 0..N
  OBVIOUS
<1>5. \A y \in T : m >= y
  <2> SUFFICES ASSUME NEW y \in T PROVE m >= y
    OBVIOUS
  <2>1. y \in 0..N /\ N - y \in 0..N /\ N - (N - y) = y
    OBVIOUS
  <2>2. ~(N - y < x)
    BY <1>3, <2>1
  <2>3. QED
    BY <1>4, <2>1, <2>2
<1>6. \E m2 \in T : \A y \in T : m2 >= y
  BY <1>4, <1>5
<1>7. Max(T) \in T /\ \A y \in T : Max(T) >= y
  BY <1>6 DEF Max
<1>8. QED
  <2> HIDE DEF m, U
  <2>1. \A y \in T : y \in Nat
    OBVIOUS
  <2>2. Max(T) \in Nat
    BY <1>7, <2>1
  <2>3. QED
    BY <1>7, <2>1, <2>2

-----------------------------------------------------------------------------
(* What the commands make of a state file is a state file *)

\* NextSequence is greater than every sequence of the environment.
LEMMA Numbers ==
  ASSUME NEW st, DeploymentsOK(st), NEW e
  PROVE  /\ NextSequence(st, e) \in 1..(Len(st.deployments) + 1)
         /\ \A i \in Deployed(st, e) : st.deployments[i].seq < NextSequence(st, e)
<1> DEFINE N == Len(st.deployments)
           T == {0} \cup {st.deployments[i].seq : i \in Deployed(st, e)}
<1>1. N \in Nat
  BY LenProperties DEF DeploymentsOK
<1>2. \A i \in Deployed(st, e) : i \in 1..N /\ st.deployments[i].seq \in 1..i
  BY DEF Deployed, DeploymentsOK, DeploymentOK
<1>3. \A i \in Deployed(st, e) : st.deployments[i].seq \in 0..N
  BY <1>1, <1>2
<1>4. T \subseteq 0..N /\ T # {}
  BY <1>1, <1>3
<1>5. Max(T) \in T /\ \A y \in T : y <= Max(T)
  BY <1>1, <1>4, MaxIsGreatest
<1>6. NextSequence(st, e) = 1 + Max(T)
  BY DEF NextSequence
<1>7. \A i \in Deployed(st, e) : st.deployments[i].seq \in T
  OBVIOUS
<1> HIDE DEF N, T
<1>8. Max(T) \in 0..N
  BY <1>4, <1>5
<1>9. QED
  BY <1>1, <1>3, <1>5, <1>6, <1>7, <1>8 DEF N

\* f with another value at x.  The lemmas about changes of a file name it, so
\* that it is expanded only where it matters.
Update(f, x, v) == [f EXCEPT ![x] = v]

\* The fields of a file after each change.
LEMMA SaveReleaseFields ==
  ASSUME NEW st, IsFile(st), NEW r, r.env \in Envs, DOMAIN st.current = Envs
  PROVE  LET new == SaveRelease(st, r)
         IN /\ IsFile(new)
            /\ new.releases = Append(st.releases, r)
            /\ new.current = [st.current EXCEPT ![r.env] = Len(st.releases) + 1]
            /\ new.nodes = st.nodes /\ new.labels = st.labels /\ new.hosted = st.hosted
            /\ new.attached = st.attached /\ new.deployments = st.deployments
            /\ new.secrets = st.secrets
<1>1. IsFile(SaveRelease(st, r))
  <2> DEFINE t == [st EXCEPT !.releases = Append(@, r)]
             u == [t EXCEPT !.current = [@ EXCEPT ![r.env] = Len(st.releases) + 1]]
  <2>1. IsFile(t)
    BY DEF IsFile
  <2>2. IsFile(u)
    <3> HIDE DEF t
    <3>1. QED
      BY <2>1 DEF IsFile
  <2>3. SaveRelease(st, r) = u
    BY DEF SaveRelease, IsFile
  <2>4. QED
    BY <2>2, <2>3
<1>2. /\ SaveRelease(st, r).releases = Append(st.releases, r)
      /\ SaveRelease(st, r).current = [st.current EXCEPT ![r.env] = Len(st.releases) + 1]
  BY DEF SaveRelease, IsFile
<1>3. LET new == SaveRelease(st, r)
      IN /\ new.nodes = st.nodes /\ new.labels = st.labels /\ new.hosted = st.hosted
         /\ new.attached = st.attached /\ new.deployments = st.deployments
         /\ new.secrets = st.secrets
  BY DEF SaveRelease, IsFile
<1>4. QED
  BY <1>1, <1>2, <1>3

LEMMA StartDeploymentFields ==
  ASSUME NEW st, IsFile(st), NEW e, NEW r, NEW kind, NEW targets
  PROVE  LET new == StartDeployment(st, e, r, kind, targets)
         IN /\ IsFile(new)
            /\ new.deployments = Append(st.deployments,
                 [env |-> e, rel |-> r, kind |-> kind, targets |-> targets,
                  seq |-> NextSequence(st, e), status |-> "running", pub |-> None])
            /\ new.nodes = st.nodes /\ new.labels = st.labels /\ new.hosted = st.hosted
            /\ new.attached = st.attached /\ new.releases = st.releases
            /\ new.current = st.current /\ new.secrets = st.secrets
<1> DEFINE d == [env |-> e, rel |-> r, kind |-> kind, targets |-> targets,
                 seq |-> NextSequence(st, e), status |-> "running", pub |-> None]
           new == [st EXCEPT !.deployments = Append(@, d)]
<1>1. StartDeployment(st, e, r, kind, targets) = new
  BY DEF StartDeployment
<1> HIDE DEF d
<1>2. IsFile(new)
  BY DEF IsFile
<1>3. new.deployments = Append(st.deployments, d)
  BY DEF IsFile
<1>4. /\ new.nodes = st.nodes /\ new.labels = st.labels /\ new.hosted = st.hosted
      /\ new.attached = st.attached /\ new.releases = st.releases
      /\ new.current = st.current /\ new.secrets = st.secrets
  BY DEF IsFile
<1> HIDE DEF new
<1>5. QED
  BY <1>1, <1>2, <1>3, <1>4 DEF d

\* A deployment that ended, the deployments of a file with it, and what is
\* current then.
Ended(d, status, pub) == [d EXCEPT !.status = status, !.pub = pub]

DeploymentsAfter(st, i, status, pub) ==
  [st.deployments EXCEPT ![i] = Ended(st.deployments[i], status, pub)]

CurrentAfter(st, i, status) ==
  LET d == st.deployments[i]
  IN IF d.kind = "rollback" /\ status = "settled"
     THEN [st.current EXCEPT ![d.env] = d.rel] ELSE st.current

LEMMA EndedFields ==
  ASSUME NEW a1, NEW a2, NEW a3, NEW a4, NEW a5, NEW a6, NEW a7, NEW status, NEW pub
  PROVE  Ended([env |-> a1, rel |-> a2, kind |-> a3, targets |-> a4, seq |-> a5,
                status |-> a6, pub |-> a7], status, pub)
         = [env |-> a1, rel |-> a2, kind |-> a3, targets |-> a4, seq |-> a5,
            status |-> status, pub |-> pub]
<1> DEFINE d == [env |-> a1, rel |-> a2, kind |-> a3, targets |-> a4, seq |-> a5,
                 status |-> a6, pub |-> a7]
           c == [env |-> a1, rel |-> a2, kind |-> a3, targets |-> a4, seq |-> a5,
                 status |-> status, pub |-> a7]
<1>1. [d EXCEPT !.status = status] = c
  OBVIOUS
<1>2. [c EXCEPT !.pub = pub] = [env |-> a1, rel |-> a2, kind |-> a3, targets |-> a4, seq |-> a5,
                                status |-> status, pub |-> pub]
  OBVIOUS
<1> HIDE DEF c, d
<1>3. Ended(d, status, pub) = [c EXCEPT !.pub = pub]
  BY <1>1 DEF Ended
<1>4. QED
  BY <1>2, <1>3 DEF d

LEMMA EndDeploymentFields ==
  ASSUME NEW st, FileOK(st), NEW i \in 1..Len(st.deployments), NEW status, NEW pub
  PROVE  LET new == EndDeployment(st, i, status, pub)
         IN /\ IsFile(new)
            /\ new.deployments = DeploymentsAfter(st, i, status, pub)
            /\ new.current = CurrentAfter(st, i, status)
            /\ new.nodes = st.nodes /\ new.labels = st.labels /\ new.hosted = st.hosted
            /\ new.attached = st.attached /\ new.releases = st.releases
            /\ new.secrets = st.secrets
<1> DEFINE d == st.deployments[i]
           s == [st EXCEPT !.deployments[i].status = status, !.deployments[i].pub = pub]
<1>1. IsFile(st) /\ st.deployments \in Seq(Range(st.deployments))
  BY DEF FileOK, DeploymentsOK
<1>2. DOMAIN st.deployments = 1..Len(st.deployments)
  BY <1>1, Replaced
<1>3. s.deployments = [st.deployments EXCEPT ![i] = Ended(d, status, pub)]
  BY <1>1, <1>2 DEF IsFile, Ended
<1>4. /\ IsFile(s) /\ s.current = st.current
      /\ s.nodes = st.nodes /\ s.labels = st.labels /\ s.hosted = st.hosted
      /\ s.attached = st.attached /\ s.releases = st.releases /\ s.secrets = st.secrets
  <2> DEFINE t == [st EXCEPT !.deployments = [@ EXCEPT ![i] = Ended(d, status, pub)]]
  <2>1. s = t
    BY <1>1, <1>2 DEF IsFile, Ended
  <2>2. IsFile(t)
    BY <1>1 DEF IsFile
  <2>3. /\ t.current = st.current
        /\ t.nodes = st.nodes /\ t.labels = st.labels /\ t.hosted = st.hosted
        /\ t.attached = st.attached /\ t.releases = st.releases /\ t.secrets = st.secrets
    BY <1>1 DEF IsFile
  <2> HIDE DEF s, t
  <2>4. QED
    BY <2>1, <2>2, <2>3
<1> HIDE DEF s
<1>5. EndDeployment(st, i, status, pub) =
        IF d.kind = "rollback" /\ status = "settled" THEN [s EXCEPT !.current[d.env] = d.rel] ELSE s
  BY DEF EndDeployment, s
<1>6. CASE d.kind = "rollback" /\ status = "settled"
  <2> DEFINE t == [s EXCEPT !.current[d.env] = d.rel]
  <2>1. IsFile(t)
    BY <1>4 DEF IsFile
  <2>2. t.current = [s.current EXCEPT ![d.env] = d.rel]
    BY <1>4 DEF IsFile
  <2>3. /\ t.deployments = s.deployments /\ t.nodes = s.nodes /\ t.labels = s.labels
        /\ t.hosted = s.hosted /\ t.attached = s.attached /\ t.releases = s.releases
        /\ t.secrets = s.secrets
    BY <1>4 DEF IsFile
  <2> HIDE DEF t
  <2>4. EndDeployment(st, i, status, pub) = t
    BY <1>5, <1>6 DEF t
  <2>5. QED
    BY <1>3, <1>4, <1>6, <2>1, <2>2, <2>3, <2>4 DEF DeploymentsAfter, CurrentAfter
<1>7. CASE ~(d.kind = "rollback" /\ status = "settled")
  <2>1. EndDeployment(st, i, status, pub) = s
    BY <1>5, <1>7
  <2>2. QED
    BY <1>3, <1>4, <1>7, <2>1 DEF DeploymentsAfter, CurrentAfter
<1>8. QED
  BY <1>6, <1>7

\* Releases and deployments stay as they are.
LEMMA NodesChange ==
  ASSUME NEW st, FileOK(st), NEW new, IsFile(new), NodesOK(new),
         new.releases = st.releases, new.current = st.current, new.deployments = st.deployments
  PROVE  FileOK(new)
<1>1. ReleasesOK(new)
  BY DEF FileOK, ReleasesOK, CurrentReadable, HasRelease, Releases
<1>2. \A i \in 1..Len(st.deployments) : DeploymentOK(new, i)
  BY DEF FileOK, DeploymentsOK, DeploymentOK, Releases
<1>3. QED
  BY <1>1, <1>2 DEF FileOK, DeploymentsOK

LEMMA SaveReleaseOK ==
  ASSUME NEW st, FileOK(st), NEW r, r.env \in Envs
  PROVE  /\ FileOK(SaveRelease(st, r))
         /\ Len(st.releases) + 1 \in Releases(SaveRelease(st, r), r.env)
<1> DEFINE new == SaveRelease(st, r)
           N   == Len(st.releases)
<1>1. /\ IsFile(st) /\ NodesOK(st) /\ ReleasesOK(st) /\ DeploymentsOK(st)
      /\ st.releases \in Seq(Range(st.releases)) /\ st.current \in [Envs -> Nat]
  BY DEF FileOK, ReleasesOK
<1>2. /\ IsFile(new)
      /\ new.releases = Append(st.releases, r)
      /\ new.current = [st.current EXCEPT ![r.env] = Len(st.releases) + 1]
      /\ new.nodes = st.nodes /\ new.labels = st.labels /\ new.hosted = st.hosted
      /\ new.attached = st.attached /\ new.deployments = st.deployments
      /\ new.secrets = st.secrets
  BY <1>1, SaveReleaseFields
<1>3. /\ new.releases \in Seq(Range(new.releases)) /\ N \in Nat /\ Len(new.releases) = N + 1
      /\ \A i \in 1..N : new.releases[i] = st.releases[i]
      /\ new.releases[N + 1] = r
  BY <1>1, <1>2, Appended
<1> HIDE DEF new
<1>4. \A i \in 1..N : i \in 1..Len(new.releases)
  BY <1>3
<1>5. \A e : Releases(st, e) \subseteq Releases(new, e)
  BY <1>3, <1>4 DEF Releases
<1>6. N + 1 \in Releases(new, r.env)
  BY <1>3 DEF Releases
<1>7. ReleasesOK(new)
  <2>1. \A i \in 1..Len(new.releases) : new.releases[i].env \in Envs
    BY <1>1, <1>3 DEF ReleasesOK
  <2>2. new.current \in [Envs -> Nat]
    BY <1>1, <1>2, <1>3
  <2>3. ASSUME NEW e \in Envs, HasRelease(new, e) PROVE new.current[e] \in Releases(new, e)
    <3>1. CASE e = r.env
      BY <1>1, <1>2, <1>6, <3>1
    <3>2. CASE e # r.env
      <4>1. new.current[e] = st.current[e]
        BY <1>1, <1>2, <3>2
      <4>2. st.current[e] \in Releases(st, e)
        BY <1>1, <2>3, <4>1 DEF ReleasesOK, CurrentReadable, HasRelease
      <4>3. QED
        BY <1>5, <4>1, <4>2
    <3>3. QED
      BY <3>1, <3>2
  <2>4. QED
    BY <1>3, <2>1, <2>2, <2>3 DEF ReleasesOK, CurrentReadable
<1>8. DeploymentsOK(new)
  BY <1>1, <1>2, <1>5 DEF DeploymentsOK, DeploymentOK
<1>9. NodesOK(new)
  BY <1>1, <1>2 DEF NodesOK
<1>10. QED
  BY <1>2, <1>6, <1>7, <1>8, <1>9 DEF FileOK, new

LEMMA StartDeploymentOK ==
  ASSUME NEW st, FileOK(st), NEW e \in Envs, NEW r \in Releases(st, e),
         NEW kind \in {"deploy", "rollback"}, NEW targets
  PROVE  LET new == StartDeployment(st, e, r, kind, targets)
         IN /\ FileOK(new)
            /\ Len(new.deployments) = Len(st.deployments) + 1
            /\ RunningAt(new, Len(new.deployments), kind)
            /\ new.deployments[Len(new.deployments)].env = e
            /\ new.deployments[Len(new.deployments)].rel = r
<1> DEFINE new == StartDeployment(st, e, r, kind, targets)
           N   == Len(st.deployments)
           d   == [env |-> e, rel |-> r, kind |-> kind, targets |-> targets,
                   seq |-> NextSequence(st, e), status |-> "running", pub |-> None]
<1>1. /\ IsFile(st) /\ NodesOK(st) /\ ReleasesOK(st) /\ DeploymentsOK(st)
      /\ st.deployments \in Seq(Range(st.deployments))
  BY DEF FileOK, DeploymentsOK
<1>2. /\ IsFile(new)
      /\ new.deployments = Append(st.deployments, d)
      /\ new.nodes = st.nodes /\ new.labels = st.labels /\ new.hosted = st.hosted
      /\ new.attached = st.attached /\ new.releases = st.releases
      /\ new.current = st.current /\ new.secrets = st.secrets
  BY <1>1, StartDeploymentFields
<1>3. NextSequence(st, e) \in 1..(N + 1)
  BY <1>1, Numbers
<1> HIDE DEF new
<1>4. /\ d.env = e /\ d.rel = r /\ d.kind = kind /\ d.seq = NextSequence(st, e)
      /\ d.status = "running"
      /\ d = [env |-> d.env, rel |-> d.rel, kind |-> d.kind, targets |-> d.targets,
              seq |-> d.seq, status |-> d.status, pub |-> d.pub]
  OBVIOUS
<1> HIDE DEF d
<1>5. /\ new.deployments \in Seq(Range(new.deployments)) /\ N \in Nat
      /\ Len(new.deployments) = N + 1
      /\ \A i \in 1..N : new.deployments[i] = st.deployments[i]
      /\ new.deployments[N + 1] = d
  BY <1>1, <1>2, Appended
<1>6. \A f : Releases(new, f) = Releases(st, f)
  BY <1>2 DEF Releases
<1>7. DeploymentOK(new, N + 1)
  BY <1>3, <1>4, <1>5, <1>6 DEF DeploymentOK
<1>8. \A i \in 1..N : DeploymentOK(new, i)
  BY <1>1, <1>5, <1>6 DEF DeploymentsOK, DeploymentOK
<1>9. DeploymentsOK(new)
  <2>1. \A i \in 1..Len(new.deployments) : i = N + 1 \/ i \in 1..N
    BY <1>5
  <2>2. QED
    BY <1>5, <1>7, <1>8, <2>1 DEF DeploymentsOK
<1>10. ReleasesOK(new) /\ NodesOK(new)
  BY <1>1, <1>2, <1>6 DEF ReleasesOK, NodesOK, CurrentReadable, HasRelease
<1>11. RunningAt(new, N + 1, kind)
  BY <1>4, <1>5 DEF RunningAt
<1>12. QED
  BY <1>2, <1>4, <1>5, <1>9, <1>10, <1>11 DEF FileOK, new

LEMMA EndDeploymentOK ==
  ASSUME NEW st, FileOK(st), NEW i \in 1..Len(st.deployments),
         NEW status \in {"settled", "failed"}, NEW pub
  PROVE  FileOK(EndDeployment(st, i, status, pub))
<1> DEFINE new == EndDeployment(st, i, status, pub)
           d   == st.deployments[i]
           c   == Ended(d, status, pub)
<1>1. /\ IsFile(st) /\ NodesOK(st) /\ ReleasesOK(st) /\ DeploymentsOK(st)
      /\ st.deployments \in Seq(Range(st.deployments)) /\ DeploymentOK(st, i)
  BY DEF FileOK, DeploymentsOK
<1>2. /\ IsFile(new)
      /\ new.deployments = DeploymentsAfter(st, i, status, pub)
      /\ new.current = CurrentAfter(st, i, status)
      /\ new.nodes = st.nodes /\ new.labels = st.labels /\ new.hosted = st.hosted
      /\ new.attached = st.attached /\ new.releases = st.releases
      /\ new.secrets = st.secrets
  BY EndDeploymentFields
<1> HIDE DEF new
<1>3. /\ d = [env |-> d.env, rel |-> d.rel, kind |-> d.kind, targets |-> d.targets,
              seq |-> d.seq, status |-> d.status, pub |-> d.pub]
      /\ d.env \in Envs /\ d.rel \in Releases(st, d.env) /\ d.seq \in 1..i
      /\ d.kind \in {"deploy", "rollback"}
  BY <1>1 DEF DeploymentOK
<1>4. /\ c.env = d.env /\ c.rel = d.rel /\ c.kind = d.kind /\ c.seq = d.seq
      /\ c.status = status
  BY <1>3 DEF Ended
<1>5. c = [env |-> c.env, rel |-> c.rel, kind |-> c.kind, targets |-> c.targets,
           seq |-> c.seq, status |-> c.status, pub |-> c.pub]
  <2> DEFINE b == [env |-> d.env, rel |-> d.rel, kind |-> d.kind, targets |-> d.targets,
                   seq |-> d.seq, status |-> status, pub |-> pub]
  <2>1. c = b
    BY <1>3, EndedFields
  <2>2. b = [env |-> b.env, rel |-> b.rel, kind |-> b.kind, targets |-> b.targets,
             seq |-> b.seq, status |-> b.status, pub |-> b.pub]
    OBVIOUS
  <2> HIDE DEF b, c
  <2>3. QED
    BY <2>1, <2>2
<1> HIDE DEF c
<1>6. /\ new.deployments \in Seq(Range(new.deployments))
      /\ Len(new.deployments) = Len(st.deployments)
      /\ \A k \in 1..Len(st.deployments) :
           new.deployments[k] = IF k = i THEN c ELSE st.deployments[k]
  <2> DEFINE t == [st.deployments EXCEPT ![i] = c]
  <2>1. /\ t \in Seq(Range(t)) /\ Len(t) = Len(st.deployments)
        /\ \A k \in 1..Len(st.deployments) : t[k] = IF k = i THEN c ELSE st.deployments[k]
    BY <1>1, Replaced
  <2>2. DeploymentsAfter(st, i, status, pub) = t
    BY DEF DeploymentsAfter, c
  <2> HIDE DEF t
  <2>3. QED
    BY <1>2, <2>1, <2>2
<1>7. \A e : Releases(new, e) = Releases(st, e)
  BY <1>2 DEF Releases
<1>8. ASSUME NEW k \in 1..Len(st.deployments) PROVE DeploymentOK(new, k)
  <2>1. CASE k = i
    <3>1. new.deployments[k] = c
      BY <1>6, <2>1
    <3>2. QED
      BY <1>3, <1>4, <1>5, <1>7, <2>1, <3>1 DEF DeploymentOK
  <2>2. CASE k # i
    <3>1. new.deployments[k] = st.deployments[k] /\ DeploymentOK(st, k)
      BY <1>1, <1>6, <2>2 DEF DeploymentsOK
    <3>2. QED
      BY <1>7, <3>1 DEF DeploymentOK
  <2>3. QED
    BY <2>1, <2>2
<1>9. DeploymentsOK(new)
  BY <1>6, <1>8 DEF DeploymentsOK
<1>10. d.rel \in Nat
  BY <1>1, <1>3, LenProperties DEF Releases, ReleasesOK
<1>11. ReleasesOK(new)
  <2>1. new.current \in [Envs -> Nat]
    BY <1>1, <1>2, <1>3, <1>10 DEF ReleasesOK, CurrentAfter
  <2>2. CurrentReadable(new)
    BY <1>1, <1>2, <1>3, <1>7 DEF CurrentReadable, HasRelease, ReleasesOK, CurrentAfter
  <2>3. QED
    BY <1>1, <1>2, <2>1, <2>2 DEF ReleasesOK
<1>12. NodesOK(new)
  BY <1>1, <1>2 DEF NodesOK
<1>13. QED
  BY <1>2, <1>9, <1>11, <1>12 DEF FileOK, new

LEMMA WithNodeOK ==
  ASSUME NEW st, FileOK(st), NEW e \in Envs, NEW n \in st.nodes
  PROVE  /\ FileOK(WithNode(st, e, n))
         /\ LET new == WithNode(st, e, n)
            IN /\ new.attached = Update(st.attached, e, st.attached[e] \cup {n})
               /\ new.nodes = st.nodes /\ new.labels = st.labels
               /\ new.hosted = st.hosted /\ new.secrets = st.secrets
               /\ new.releases = st.releases /\ new.current = st.current
               /\ new.deployments = st.deployments
<1> DEFINE new == WithNode(st, e, n)
<1>1. IsFile(st) /\ NodesOK(st)
  BY DEF FileOK
<1>2. IsFile(new)
  BY <1>1 DEF IsFile, WithNode
<1>3. new.attached = [st.attached EXCEPT ![e] = @ \cup {n}]
  BY <1>1 DEF IsFile, WithNode
<1>4. /\ new.nodes = st.nodes /\ new.labels = st.labels
      /\ new.hosted = st.hosted /\ new.secrets = st.secrets
      /\ new.releases = st.releases /\ new.current = st.current
      /\ new.deployments = st.deployments
  BY <1>1 DEF IsFile, WithNode
<1> HIDE DEF new
<1>5. NodesOK(new)
  BY <1>1, <1>3, <1>4 DEF NodesOK
<1>6. FileOK(new)
  BY <1>2, <1>4, <1>5, NodesChange
<1>7. QED
  BY <1>3, <1>4, <1>6 DEF new, Update

LEMMA WithoutNodeOK ==
  ASSUME NEW st, FileOK(st), NEW e \in Envs, NEW n
  PROVE  /\ FileOK(WithoutNode(st, e, n))
         /\ LET new == WithoutNode(st, e, n)
            IN /\ new.attached = Update(st.attached, e, st.attached[e] \ {n})
               /\ new.nodes = st.nodes /\ new.labels = st.labels
               /\ new.hosted = st.hosted /\ new.secrets = st.secrets
               /\ new.releases = st.releases /\ new.current = st.current
               /\ new.deployments = st.deployments
<1> DEFINE new == WithoutNode(st, e, n)
<1>1. IsFile(st) /\ NodesOK(st)
  BY DEF FileOK
<1>2. IsFile(new)
  BY <1>1 DEF IsFile, WithoutNode
<1>3. new.attached = [st.attached EXCEPT ![e] = @ \ {n}]
  BY <1>1 DEF IsFile, WithoutNode
<1>4. /\ new.nodes = st.nodes /\ new.labels = st.labels
      /\ new.hosted = st.hosted /\ new.secrets = st.secrets
      /\ new.releases = st.releases /\ new.current = st.current
      /\ new.deployments = st.deployments
  BY <1>1 DEF IsFile, WithoutNode
<1> HIDE DEF new
<1>5. NodesOK(new)
  BY <1>1, <1>3, <1>4 DEF NodesOK
<1>6. FileOK(new)
  BY <1>2, <1>4, <1>5, NodesChange
<1>7. QED
  BY <1>3, <1>4, <1>6 DEF new, Update

LEMMA LabelOK ==
  ASSUME NEW st, FileOK(st), NEW n \in Nodes, NEW labels \in (SUBSET Kinds) \ {{}}
  PROVE  /\ FileOK([st EXCEPT !.labels[n] = labels])
         /\ LET new == [st EXCEPT !.labels[n] = labels]
            IN /\ new.labels = Update(st.labels, n, labels)
               /\ new.nodes = st.nodes /\ new.attached = st.attached
               /\ new.hosted = st.hosted /\ new.secrets = st.secrets
               /\ new.releases = st.releases /\ new.current = st.current
               /\ new.deployments = st.deployments
<1> DEFINE new == [st EXCEPT !.labels[n] = labels]
<1>1. IsFile(st) /\ NodesOK(st)
  BY DEF FileOK
<1>2. IsFile(new)
  BY <1>1 DEF IsFile
<1>3. new.labels = [st.labels EXCEPT ![n] = labels]
  BY <1>1 DEF IsFile
<1>4. /\ new.nodes = st.nodes /\ new.attached = st.attached
      /\ new.hosted = st.hosted /\ new.secrets = st.secrets
      /\ new.releases = st.releases /\ new.current = st.current
      /\ new.deployments = st.deployments
  BY <1>1 DEF IsFile
<1> HIDE DEF new
<1>5. NodesOK(new)
  BY <1>1, <1>3, <1>4 DEF NodesOK
<1>6. FileOK(new)
  BY <1>2, <1>4, <1>5, NodesChange
<1>7. QED
  BY <1>3, <1>4, <1>6 DEF new, Update

LEMMA SecretOK ==
  ASSUME NEW st, FileOK(st), NEW e \in Envs, NEW v \in Nat
  PROVE  /\ FileOK(WithSecret(st, e, v))
         /\ LET new == WithSecret(st, e, v)
            IN /\ new.secrets = Update(st.secrets, e, v)
               /\ new.nodes = st.nodes /\ new.attached = st.attached
               /\ new.hosted = st.hosted /\ new.labels = st.labels
               /\ new.releases = st.releases /\ new.current = st.current
               /\ new.deployments = st.deployments
<1> DEFINE new == WithSecret(st, e, v)
<1>1. IsFile(st) /\ NodesOK(st)
  BY DEF FileOK
<1>2. IsFile(new)
  BY <1>1 DEF IsFile, WithSecret
<1>3. new.secrets = [st.secrets EXCEPT ![e] = v]
  BY <1>1 DEF IsFile, WithSecret
<1>4. /\ new.nodes = st.nodes /\ new.attached = st.attached
      /\ new.hosted = st.hosted /\ new.labels = st.labels
      /\ new.releases = st.releases /\ new.current = st.current
      /\ new.deployments = st.deployments
  BY <1>1 DEF IsFile, WithSecret
<1> HIDE DEF new
<1>5. NodesOK(new)
  BY <1>1, <1>3, <1>4 DEF NodesOK
<1>6. FileOK(new)
  BY <1>2, <1>4, <1>5, NodesChange
<1>7. QED
  BY <1>3, <1>4, <1>6 DEF new, Update

LEMMA DefaultLabels == Default \in (SUBSET Kinds) \ {{}}
<1>1. {"web"} \subseteq Kinds
  BY DEF Kinds
<1>2. {"web"} # {}
  OBVIOUS
<1>3. QED
  BY <1>1, <1>2 DEF Default

LEMMA SetNodeOK ==
  ASSUME NEW st, FileOK(st), NEW n \in Nodes, NEW hosted
  PROVE  /\ FileOK(SetNode(st, n, hosted))
         /\ LET new == SetNode(st, n, hosted)
            IN /\ new.nodes = st.nodes \cup {n}
               /\ new.labels = Update(st.labels, n, Default)
               /\ new.attached = st.attached /\ new.secrets = st.secrets
               /\ new.releases = st.releases /\ new.current = st.current
               /\ new.deployments = st.deployments
<1> DEFINE t   == [st EXCEPT !.nodes = @ \cup {n}]
           u   == [t EXCEPT !.labels = [@ EXCEPT ![n] = Default]]
           new == [u EXCEPT !.hosted = IF hosted THEN @ \cup {n} ELSE @]
<1>1. IsFile(st) /\ NodesOK(st)
  BY DEF FileOK
<1>2. SetNode(st, n, hosted) = new
  BY <1>1 DEF SetNode, IsFile
<1>3. IsFile(t) /\ t.nodes = st.nodes \cup {n} /\ t.labels = st.labels /\ t.hosted = st.hosted
  BY <1>1 DEF IsFile
<1>4. /\ t.attached = st.attached /\ t.secrets = st.secrets /\ t.releases = st.releases
      /\ t.current = st.current /\ t.deployments = st.deployments
  BY <1>1 DEF IsFile
<1> HIDE DEF t
<1>5. IsFile(u) /\ u.nodes = t.nodes /\ u.labels = [t.labels EXCEPT ![n] = Default]
  BY <1>3 DEF IsFile
<1>6. /\ u.hosted = t.hosted
      /\ u.attached = t.attached /\ u.secrets = t.secrets /\ u.releases = t.releases
      /\ u.current = t.current /\ u.deployments = t.deployments
  BY <1>3 DEF IsFile
<1> HIDE DEF u
<1>7. IsFile(new) /\ new.nodes = u.nodes /\ new.labels = u.labels
  BY <1>5 DEF IsFile
<1>8. /\ new.hosted \subseteq u.hosted \cup {n}
      /\ new.attached = u.attached /\ new.secrets = u.secrets /\ new.releases = u.releases
      /\ new.current = u.current /\ new.deployments = u.deployments
  BY <1>5 DEF IsFile
<1> HIDE DEF new
<1>9. NodesOK(new)
  <2>1. new.labels = [st.labels EXCEPT ![n] = Default] /\ Default \in (SUBSET Kinds) \ {{}}
    BY <1>3, <1>5, <1>7, DefaultLabels
  <2>2. new.labels \in [Nodes -> (SUBSET Kinds) \ {{}}]
    BY <1>1, <2>1 DEF NodesOK
  <2>3. new.nodes = st.nodes \cup {n} /\ new.hosted \subseteq st.hosted \cup {n}
    BY <1>3, <1>5, <1>6, <1>7, <1>8
  <2>4. new.attached = st.attached /\ new.secrets = st.secrets
    BY <1>4, <1>6, <1>8
  <2>5. QED
    BY <1>1, <2>2, <2>3, <2>4 DEF NodesOK
<1>10. FileOK(new)
  BY <1>4, <1>6, <1>7, <1>8, <1>9, NodesChange
<1>11. QED
  BY <1>2, <1>3, <1>4, <1>5, <1>6, <1>7, <1>8, <1>10 DEF Update

LEMMA RemoveNodeOK ==
  ASSUME NEW st, FileOK(st), NEW n \in Nodes, AttachedTo(st, n) = {}
  PROVE  /\ FileOK(RemoveNode(st, n))
         /\ LET new == RemoveNode(st, n)
            IN /\ new.nodes = st.nodes \ {n}
               /\ new.labels = Update(st.labels, n, Default)
               /\ new.attached = st.attached /\ new.secrets = st.secrets
               /\ new.releases = st.releases /\ new.current = st.current
               /\ new.deployments = st.deployments
<1> DEFINE t   == [st EXCEPT !.nodes = @ \ {n}]
           u   == [t EXCEPT !.hosted = @ \ {n}]
           new == [u EXCEPT !.labels = [@ EXCEPT ![n] = Default]]
<1>1. IsFile(st) /\ NodesOK(st)
  BY DEF FileOK
<1>2. RemoveNode(st, n) = new
  BY <1>1 DEF RemoveNode, IsFile
<1>3. IsFile(t) /\ t.nodes = st.nodes \ {n} /\ t.labels = st.labels /\ t.hosted = st.hosted
  BY <1>1 DEF IsFile
<1>4. /\ t.attached = st.attached /\ t.secrets = st.secrets /\ t.releases = st.releases
      /\ t.current = st.current /\ t.deployments = st.deployments
  BY <1>1 DEF IsFile
<1> HIDE DEF t
<1>5. IsFile(u) /\ u.nodes = t.nodes /\ u.labels = t.labels /\ u.hosted = t.hosted \ {n}
  BY <1>3 DEF IsFile
<1>6. /\ u.attached = t.attached /\ u.secrets = t.secrets /\ u.releases = t.releases
      /\ u.current = t.current /\ u.deployments = t.deployments
  BY <1>3 DEF IsFile
<1> HIDE DEF u
<1>7. IsFile(new) /\ new.nodes = u.nodes /\ new.labels = [u.labels EXCEPT ![n] = Default]
  BY <1>5 DEF IsFile
<1>8. /\ new.hosted = u.hosted
      /\ new.attached = u.attached /\ new.secrets = u.secrets /\ new.releases = u.releases
      /\ new.current = u.current /\ new.deployments = u.deployments
  BY <1>5 DEF IsFile
<1> HIDE DEF new
<1>9. NodesOK(new)
  <2>1. new.labels = [st.labels EXCEPT ![n] = Default] /\ Default \in (SUBSET Kinds) \ {{}}
    BY <1>3, <1>5, <1>7, DefaultLabels
  <2>2. new.labels \in [Nodes -> (SUBSET Kinds) \ {{}}]
    BY <1>1, <2>1 DEF NodesOK
  <2>3. new.nodes = st.nodes \ {n} /\ new.hosted = st.hosted \ {n}
    BY <1>3, <1>5, <1>7, <1>8
  <2>4. new.attached = st.attached /\ new.secrets = st.secrets
    BY <1>4, <1>6, <1>8
  <2>5. \A e \in Envs : st.attached[e] \subseteq st.nodes /\ n \notin st.attached[e]
    BY <1>1 DEF NodesOK, AttachedTo
  <2>6. st.attached \in [Envs -> SUBSET (st.nodes \ {n})]
    BY <1>1, <2>5 DEF NodesOK
  <2>7. QED
    BY <1>1, <2>2, <2>3, <2>4, <2>6 DEF NodesOK
<1>10. FileOK(new)
  BY <1>4, <1>6, <1>7, <1>8, <1>9, NodesChange
<1>11. QED
  BY <1>2, <1>3, <1>4, <1>5, <1>6, <1>7, <1>8, <1>10 DEF Update

-----------------------------------------------------------------------------
(* How the lock passes *)

\* A step within the lock.
LEMMA GoInLock ==
  ASSUME LockOK, NEW p \in Clis, pc[p] \in Locked, NEW at \in Locked, NEW j,
         pc' = [pc EXCEPT ![p] = at], job' = [job EXCEPT ![p] = j], lock' = lock
  PROVE  LockOK' /\ lock' = p /\ lock # NoCli /\ pc'[lock'] = at /\ job'[lock'] = j
BY NameAssumption DEF LockOK

\* The holder returns.
LEMMA ReturnLock ==
  ASSUME LockOK, NEW p \in Clis, pc[p] \in Locked, Return(p)
  PROVE  LockOK' /\ lock' = NoCli
BY NameAssumption DEF LockOK, Return, Locked

\* A process without the lock takes a step and stays without it.
LEMMA OutOfLock ==
  ASSUME LockOK, NEW p \in Clis, pc[p] \notin Locked, NEW at, at \notin Locked, NEW j,
         pc' = [pc EXCEPT ![p] = at], job' = [job EXCEPT ![p] = j], lock' = lock
  PROVE  /\ LockOK' /\ lock' = lock
         /\ lock # NoCli => pc'[lock] = pc[lock] /\ job'[lock] = job[lock]
BY NameAssumption DEF LockOK

\* A process takes the lock.
LEMMA HoldLock ==
  ASSUME LockOK, NEW p \in Clis, NEW at \in Locked, NEW j, Hold(p, at, j)
  PROVE  LockOK' /\ lock' = p /\ pc'[lock'] = at /\ job'[lock'] = j
BY NameAssumption DEF LockOK, Hold, Go

-----------------------------------------------------------------------------
(* The file as a log *)

LogStep == Log!Next \/ UNCHANGED Log!vars

\* A change of nobody's releases and deployments.
LEMMA LogSame ==
  ASSUME file'.releases = file.releases, file'.deployments = file.deployments,
         file'.current = file.current
  PROVE  LogStep
BY DEF LogStep, Log!vars

\* A deploy is recorded.
LEMMA LogDeploy ==
  ASSUME FileOK(file), NEW r, r.env \in Envs, NEW targets,
         file' = StartDeployment(SaveRelease(file, r), r.env, Len(file.releases) + 1,
                                 "deploy", targets)
  PROVE  LogStep
<1> DEFINE new == SaveRelease(file, r)
           e   == r.env
           N   == Len(file.deployments)
           d   == [env |-> e, rel |-> Len(file.releases) + 1, kind |-> "deploy",
                   targets |-> targets, seq |-> NextSequence(new, e), status |-> "running",
                   pub |-> None]
<1>1. IsFile(file) /\ file.current \in [Envs -> Nat] /\ DeploymentsOK(file)
      /\ file.releases \in Seq(Range(file.releases))
      /\ file.deployments \in Seq(Range(file.deployments))
  BY DEF FileOK, ReleasesOK, DeploymentsOK
<1>2. /\ IsFile(new) /\ FileOK(new)
      /\ new.releases = Append(file.releases, r)
      /\ new.current = [file.current EXCEPT ![e] = Len(file.releases) + 1]
      /\ new.deployments = file.deployments
  BY <1>1, SaveReleaseFields, SaveReleaseOK
<1> HIDE DEF new
<1>3. /\ file'.deployments = Append(new.deployments, d)
      /\ file'.releases = new.releases /\ file'.current = new.current
  BY <1>2, StartDeploymentFields DEF new
<1>4. /\ Len(file'.releases) = Len(file.releases) + 1
      /\ SubSeq(file'.releases, 1, Len(file.releases)) = file.releases
      /\ file'.releases[Len(file.releases) + 1] = r
  <2>1. file'.releases = Append(file.releases, r)
    BY <1>2, <1>3
  <2> HIDE DEF d
  <2>2. QED
    BY <1>1, <2>1, Appended
<1>5. /\ d.env = e /\ d.rel = Len(file.releases) + 1 /\ d.kind = "deploy"
      /\ d.status = "running" /\ d.seq = NextSequence(new, e)
  OBVIOUS
<1> HIDE DEF d
<1>6. /\ Len(file'.deployments) = N + 1
      /\ SubSeq(file'.deployments, 1, N) = file.deployments
      /\ file'.deployments[N + 1] = d
  BY <1>1, <1>2, <1>3, Appended
<1>7. \A i \in 1..N : file.deployments[i].env = e => file.deployments[i].seq < d.seq
  BY <1>2, <1>5, Numbers DEF FileOK, Deployed
<1>8. Log!StartDeploy(e)
  BY <1>2, <1>3, <1>4, <1>5, <1>6, <1>7
     DEF Log!StartDeploy, Log!Grows, Log!Starts, Log!Numbered, Log!Ids
<1>9. QED
  BY <1>8 DEF LogStep, Log!Next

\* A rollback is recorded.
LEMMA LogRollback ==
  ASSUME FileOK(file), NEW e \in Envs, NEW r \in Releases(file, e), NEW targets,
         file' = StartDeployment(file, e, r, "rollback", targets)
  PROVE  LogStep
<1> DEFINE N   == Len(file.deployments)
           d   == [env |-> e, rel |-> r, kind |-> "rollback",
                   targets |-> targets, seq |-> NextSequence(file, e), status |-> "running",
                   pub |-> None]
<1>1. /\ IsFile(file) /\ DeploymentsOK(file)
      /\ file.deployments \in Seq(Range(file.deployments))
  BY DEF FileOK, DeploymentsOK
<1>2. /\ file'.deployments = Append(file.deployments, d)
      /\ file'.releases = file.releases /\ file'.current = file.current
  BY <1>1, StartDeploymentFields
<1>3. /\ d.env = e /\ d.rel = r /\ d.kind = "rollback"
      /\ d.status = "running" /\ d.seq = NextSequence(file, e)
  OBVIOUS
<1> HIDE DEF d
<1>4. /\ Len(file'.deployments) = N + 1
      /\ SubSeq(file'.deployments, 1, N) = file.deployments
      /\ file'.deployments[N + 1] = d
  BY <1>1, <1>2, Appended
<1>5. \A i \in 1..N : file.deployments[i].env = e => file.deployments[i].seq < d.seq
  BY <1>1, <1>3, Numbers DEF Deployed
<1>6. r \in 1..Len(file.releases) /\ file.releases[r].env = e
  BY DEF Releases
<1>7. Log!StartRollback(e)
  BY <1>2, <1>3, <1>4, <1>5, <1>6
     DEF Log!StartRollback, Log!Grows, Log!Starts, Log!Numbered, Log!Ids
<1>8. QED
  BY <1>7 DEF LogStep, Log!Next

\* A deployment ends.
LEMMA LogEnd ==
  ASSUME FileOK(file), NEW i \in 1..Len(file.deployments),
         file.deployments[i].status = "running", NEW status \in {"settled", "failed"}, NEW pub,
         file' = EndDeployment(file, i, status, pub)
  PROVE  LogStep
<1> DEFINE d == file.deployments[i]
           c == Ended(d, status, pub)
<1>1. file.deployments \in Seq(Range(file.deployments)) /\ DeploymentOK(file, i)
  BY DEF FileOK, DeploymentsOK
<1>2. /\ file'.deployments = DeploymentsAfter(file, i, status, pub)
      /\ file'.current = CurrentAfter(file, i, status)
      /\ file'.releases = file.releases
  BY EndDeploymentFields
<1> HIDE DEF c
<1>3. file'.deployments = [file.deployments EXCEPT ![i] = c]
  BY <1>2 DEF DeploymentsAfter, c
<1>4. Len(file'.deployments) = Len(file.deployments) /\ file'.deployments[i] = c
  <2> DEFINE t == [file.deployments EXCEPT ![i] = c]
  <2>1. Len(t) = Len(file.deployments) /\ t[i] = c
    BY <1>1, Replaced
  <2> HIDE DEF t
  <2>2. QED
    BY <1>3, <2>1 DEF t
<1>5. c.pub = pub
  <2>1. c = [env |-> d.env, rel |-> d.rel, kind |-> d.kind, targets |-> d.targets,
             seq |-> d.seq, status |-> status, pub |-> pub]
    BY <1>1, EndedFields DEF DeploymentOK, c
  <2>2. QED
    BY <2>1
<1>6. c = [d EXCEPT !.status = status, !.pub = file'.deployments[i].pub]
  BY <1>4, <1>5 DEF Ended, c
<1>7. Log!End(i, status)
  BY <1>2, <1>3, <1>4, <1>6 DEF Log!End, CurrentAfter
<1>8. QED
  BY <1>7 DEF LogStep, Log!Next, Log!Ids

-----------------------------------------------------------------------------
(* The steps of the commands: the file *)

\* The command is over.
LEMMA Idle ==
  ASSUME LockOK', lock' = NoCli, FileOK(file')
  PROVE  FInv'
BY DEF FInv

\* Nothing that the holder of the lock relies on changes.
LEMMA Untouched ==
  ASSUME FInv, file' = file, lock' = lock, LockOK',
         lock # NoCli => pc'[lock] = pc[lock] /\ job'[lock] = job[lock]
  PROVE  FInv' /\ LogStep
BY LogSame DEF FInv

\* The holder goes on.
LEMMA Moves ==
  ASSUME FInv, NEW p \in Clis, pc[p] \in Locked, NEW at \in Locked, NEW j,
         pc' = [pc EXCEPT ![p] = at], job' = [job EXCEPT ![p] = j], lock' = lock,
         FileOK(file'), HolderOK(at, j, file')
  PROVE  FInv'
<1>1. LockOK' /\ lock' = p /\ pc'[lock'] = at /\ job'[lock'] = j
  BY GoInLock DEF FInv
<1>2. QED
  BY <1>1 DEF FInv

\* A command starts and takes the lock.
LEMMA Takes ==
  ASSUME FInv, NEW p \in Clis, NEW at \in Locked, NEW j, Hold(p, at, j),
         FileOK(file'), HolderOK(at, j, file')
  PROVE  FInv'
<1>1. LockOK' /\ lock' = p /\ pc'[lock'] = at /\ job'[lock'] = j
  BY HoldLock DEF FInv
<1>2. QED
  BY <1>1 DEF FInv

\* What HolderOK says does not depend on the rest of the command's variables.
SameJob(j, k) ==
  /\ IsJob(k) /\ k.op = j.op /\ k.env = j.env /\ k.node = j.node /\ k.st = j.st
  /\ k.next = j.next /\ k.rel = j.rel /\ k.dep = j.dep

LEMMA HolderSame ==
  ASSUME NEW at, NEW j, NEW k, NEW f, HolderOK(at, j, f), SameJob(j, k)
  PROVE  HolderOK(at, k, f)
BY DEF HolderOK, SameJob, DeployOK, RollbackOK, DetachOK, CreateOK

\* The holder changes only such variables.
LEMMA Works ==
  ASSUME FInv, NEW p \in Clis, pc[p] \in Locked, NEW k,
         file' = file, lock' = lock, pc' = pc, job' = [job EXCEPT ![p] = k],
         IsJob(job[p]) => SameJob(job[p], k)
  PROVE  FInv' /\ LogStep
<1>1. LockOK /\ lock = p /\ lock # NoCli /\ HolderOK(pc[p], job[p], file) /\ FileOK(file)
  BY NameAssumption DEF FInv, LockOK
<1>2. IsJob(job[p])
  BY <1>1 DEF HolderOK
<1>3. HolderOK(pc[p], k, file)
  BY <1>1, <1>2, HolderSame
<1>4. pc' = [pc EXCEPT ![p] = pc[p]]
  BY <1>1 DEF LockOK
<1>5. FInv'
  BY <1>1, <1>3, <1>4, Moves
<1>6. QED
  BY <1>5, LogSame

LEMMA StepSendImage ==
  ASSUME FInv, NEW p \in Clis, NEW n, NEW c, SendImage(p, n, c)
  PROVE  FInv' /\ LogStep
<1> DEFINE k == [job[p] EXCEPT !.sent = @ \cup {<<n, c, Safe(host[n], c)>>}]
<1>1. /\ pc[p] \in Locked /\ file' = file /\ lock' = lock /\ pc' = pc
      /\ job' = [job EXCEPT ![p] = k]
  BY DEF SendImage, Locked
<1>2. IsJob(job[p]) => SameJob(job[p], k)
  BY DEF IsJob, SameJob
<1> HIDE DEF k
<1>3. QED
  BY <1>1, <1>2, Works

LEMMA StepPublishNode ==
  ASSUME FInv, NEW p \in Clis, NEW n, PublishNode(p, n)
  PROVE  FInv' /\ LogStep
<1> DEFINE k == [job[p] EXCEPT !.todo = @ \ {n}]
<1>1. /\ pc[p] \in Locked /\ file' = file /\ lock' = lock /\ pc' = pc
      /\ job' = [job EXCEPT ![p] = k]
  BY DEF PublishNode, Locked
<1>2. IsJob(job[p]) => SameJob(job[p], k)
  BY DEF IsJob, SameJob
<1> HIDE DEF k
<1>3. QED
  BY <1>1, <1>2, Works

LEMMA StepPublishFails ==
  ASSUME FInv, NEW p \in Clis, NEW n, PublishFails(p, n)
  PROVE  FInv' /\ LogStep
<1> DEFINE k == IF host[n].agent THEN [job[p] EXCEPT !.todo = @ \ {n}, !.bad = @ \cup {n}]
                ELSE [job[p] EXCEPT !.todo = @ \ {n}, !.bad = @ \cup {n}, !.gone = @ \cup {n}]
<1>0. job = [q \in Clis |-> job[q]]
  BY DEF FInv, LockOK
<1>1. /\ pc[p] \in Locked /\ file' = file /\ lock' = lock /\ pc' = pc
      /\ job' = [job EXCEPT ![p] = k]
  <2>1. pc[p] \in Locked /\ file' = file /\ lock' = lock /\ pc' = pc
    BY DEF PublishFails, Locked
  <2>2. job' = [job EXCEPT ![p] = k]
    BY <1>0 DEF PublishFails
  <2>3. QED
    BY <2>1, <2>2
<1>2. IsJob(job[p]) => SameJob(job[p], k)
  BY DEF IsJob, SameJob
<1> HIDE DEF k
<1>3. QED
  BY <1>1, <1>2, Works

\* A process in the lock is its holder.
LEMMA Holder ==
  ASSUME FInv, NEW p \in Clis, pc[p] \in Locked
  PROVE  /\ lock = p /\ LockOK /\ FileOK(file) /\ HolderOK(pc[p], job[p], file)
         /\ IsJob(job[p])
BY NameAssumption DEF FInv, LockOK, HolderOK

\* A process returns and leaves the file as it is.
LEMMA Returns ==
  ASSUME FInv, NEW p \in Clis, Return(p), file' = file
  PROVE  FInv' /\ LogStep
<1>1. CASE pc[p] \in Locked
  BY <1>1, Holder, ReturnLock, Idle, LogSame
<1>2. CASE pc[p] \notin Locked
  <2>1. lock # p /\ LockOK
    BY <1>2 DEF FInv, LockOK
  <2>2. /\ pc' = [pc EXCEPT ![p] = "idle"] /\ job' = [job EXCEPT ![p] = NoJob] /\ lock' = lock
        /\ "idle" \notin Locked
    BY <2>1 DEF Return, Locked
  <2>3. LockOK' /\ (lock # NoCli => pc'[lock] = pc[lock] /\ job'[lock] = job[lock])
    BY <1>2, <2>1, <2>2, OutOfLock
  <2>4. QED
    BY <2>2, <2>3, Untouched
<1>3. QED
  BY <1>1, <1>2

\* The holder writes the file and returns.
LEMMA WritesAndReturns ==
  ASSUME FInv, NEW p \in Clis, pc[p] \in Locked, Return(p), FileOK(file')
  PROVE  FInv'
BY Holder, ReturnLock, Idle

LEMMA StepDeployBegin ==
  ASSUME FInv, NEW p \in Clis, NEW e \in Envs, NEW c, DeployBegin(p, e, c)
  PROVE  FInv' /\ LogStep
<1> DEFINE S   == file.attached[e]
           r   == NewRelease(Snapshot(e, c), S)
           new == SaveRelease(file, r)
           j   == [Planned(Job("deploy", e, 0), new, S) EXCEPT
                     !.next = new, !.sweep = S, !.rel = new.current[e]]
<1>1. FileOK(file) /\ file' = file /\ Hold(p, "baseline", j)
  BY DEF FInv, DeployBegin
<1>2. r.env = e
  BY DEF NewRelease, Snapshot
<1>3. /\ new.releases = Append(file.releases, r)
      /\ new.current = [file.current EXCEPT ![e] = Len(file.releases) + 1]
      /\ file.current \in [Envs -> Nat] /\ file.releases \in Seq(Range(file.releases))
  BY <1>1, <1>2, SaveReleaseFields DEF FileOK, ReleasesOK
<1> HIDE DEF r
<1>4. /\ new.current[e] = Len(file.releases) + 1
      /\ new.releases[Len(file.releases) + 1] = r
  BY <1>3, Appended
<1>5. new = SaveRelease(file, r)
  OBVIOUS
<1> HIDE DEF new
<1>6. /\ IsJob(j) /\ j.op = "deploy" /\ j.env = e /\ j.next = new /\ j.rel = new.current[e]
  BY DEF Planned, Job, IsJob
<1> HIDE DEF j
<1>7. DeployOK(j, file)
  BY <1>2, <1>4, <1>5, <1>6 DEF DeployOK
<1>8. HolderOK("baseline", j, file')
  BY <1>1, <1>6, <1>7 DEF HolderOK
<1>9. FInv'
  BY <1>1, <1>8, Takes DEF Locked
<1>10. QED
  BY <1>1, <1>9, LogSame

LEMMA StepBaselineRead ==
  ASSUME FInv, NEW p \in Clis, BaselineRead(p)
  PROVE  FInv' /\ LogStep
<1> DEFINE n == Min(job[p].sweep)
<1>0. job = [q \in Clis |-> job[q]]
  BY DEF FInv, LockOK
<1>1. PICK T : job' = [job EXCEPT ![p].sweep = @ \ {n}, ![p].since = T]
  BY DEF BaselineRead
<1> DEFINE k == [job[p] EXCEPT !.sweep = @ \ {n}, !.since = T]
<1>2. /\ pc[p] \in Locked /\ file' = file /\ lock' = lock /\ pc' = pc
      /\ job' = [job EXCEPT ![p] = k]
  <2>1. pc[p] \in Locked /\ file' = file /\ lock' = lock /\ pc' = pc
    BY DEF BaselineRead, Locked
  <2>2. job' = [job EXCEPT ![p] = k]
    BY <1>0, <1>1
  <2>3. QED
    BY <2>1, <2>2
<1>3. IsJob(job[p]) => SameJob(job[p], k)
  BY DEF IsJob, SameJob
<1> HIDE DEF k
<1>4. QED
  BY <1>2, <1>3, Works

LEMMA StepDeployPublish ==
  ASSUME FInv, NEW p \in Clis, DeployPublish(p)
  PROVE  FInv' /\ LogStep
<1>1. /\ pc[p] = "baseline" /\ job[p].op = "deploy" /\ file' = file /\ lock' = lock
      /\ pc' = [pc EXCEPT ![p] = "publish"] /\ job' = [job EXCEPT ![p] = job[p]]
      /\ pc[p] \in Locked /\ "publish" \in Locked
  BY DEF DeployPublish, Go, Locked
<1>2. FileOK(file) /\ HolderOK("baseline", job[p], file)
  BY <1>1, Holder
<1>3. HolderOK("publish", job[p], file)
  BY <1>1, <1>2 DEF HolderOK, PublishOps
<1>4. FInv'
  BY <1>1, <1>2, <1>3, Moves
<1>5. QED
  BY <1>1, <1>4, LogSame

LEMMA StepDeployRecord ==
  ASSUME FInv, NEW p \in Clis, DeployRecord(p)
  PROVE  FInv' /\ LogStep
<1> DEFINE j  == job[p]
           S  == DOMAIN j.plan
           st == StartDeployment(j.next, j.env, j.rel, "deploy", S)
           r  == j.next.releases[j.rel]
           k  == [j EXCEPT !.st = st, !.sweep = S, !.clean = TRUE, !.dep = Len(st.deployments)]
<1>1. /\ pc[p] = "publish" /\ j.op = "deploy" /\ file' = st /\ lock' = lock
      /\ pc' = [pc EXCEPT ![p] = "wait"] /\ job' = [job EXCEPT ![p] = k]
      /\ pc[p] \in Locked /\ "wait" \in Locked
  BY DEF DeployRecord, Published, Write, Go, Locked
<1>2. FileOK(file) /\ HolderOK("publish", j, file) /\ IsJob(j)
  BY <1>1, Holder
<1>3. /\ j.env \in Envs /\ r.env = j.env /\ j.next = SaveRelease(file, r)
      /\ j.rel = Len(file.releases) + 1
  BY <1>1, <1>2 DEF HolderOK, DeployOK
<1>4. FileOK(j.next) /\ j.rel \in Releases(j.next, j.env)
  <2> HIDE DEF r
  <2>1. QED
    BY <1>2, <1>3, SaveReleaseOK
<1>5. /\ FileOK(st) /\ RunningAt(st, Len(st.deployments), "deploy")
  BY <1>3, <1>4, StartDeploymentOK
<1>6. LogStep
  <2> HIDE DEF r
  <2>1. file' = StartDeployment(SaveRelease(file, r), r.env, Len(file.releases) + 1, "deploy", S)
    BY <1>1, <1>3
  <2> HIDE DEF S
  <2>2. QED
    BY <1>2, <1>3, <2>1, LogDeploy
<1> HIDE DEF st
<1>7. IsJob(k) /\ k.op = "deploy" /\ k.st = st /\ k.dep = Len(st.deployments)
  BY <1>1, <1>2 DEF IsJob
<1> HIDE DEF k
<1>8. HolderOK("wait", k, file')
  BY <1>1, <1>5, <1>7 DEF HolderOK
<1>9. FInv'
  BY <1>1, <1>5, <1>8, Moves
<1>10. QED
  BY <1>6, <1>9

LEMMA StepFinish ==
  ASSUME FInv, NEW p \in Clis, pc[p] = "wait", NEW status \in {"settled", "failed"},
         Finish(p, status)
  PROVE  FInv' /\ LogStep
<1> DEFINE j == job[p]
<1>1. pc[p] \in Locked
  BY DEF Locked
<1>2. FileOK(file) /\ HolderOK("wait", j, file)
  BY <1>1, Holder
<1>3. /\ j.st = file /\ j.dep \in 1..Len(file.deployments)
      /\ file.deployments[j.dep].status = "running"
  BY <1>2 DEF HolderOK, RollbackOK, RunningAt
<1>4. file' = EndDeployment(file, j.dep, status, j.plan) /\ Return(p)
  BY <1>3 DEF Finish, Write
<1> HIDE DEF j
<1>5. FileOK(file')
  BY <1>2, <1>3, <1>4, EndDeploymentOK
<1>6. LogStep
  BY <1>2, <1>3, <1>4, LogEnd
<1>7. QED
  BY <1>1, <1>4, <1>5, <1>6, WritesAndReturns

LEMMA StepWaitRead ==
  ASSUME FInv, NEW p \in Clis, WaitRead(p)
  PROVE  FInv' /\ LogStep
<1> DEFINE n == Min(job[p].sweep)
           v == Verdict(p, n)
           k == [job[p] EXCEPT !.sweep = @ \ {n}, !.clean = @ /\ v = "settled"]
<1>1. CASE v = "error"
  <2>1. pc[p] = "wait" /\ Finish(p, "failed")
    BY <1>1 DEF WaitRead
  <2>2. QED
    BY <2>1, StepFinish
<1>2. CASE v # "error"
  <2>1. pc[p] \in Locked /\ file' = file /\ lock' = lock /\ pc' = pc
    BY <1>2 DEF WaitRead, Locked
  <2>2. job' = [job EXCEPT ![p].sweep = @ \ {n}, ![p].clean = @ /\ v = "settled"]
    BY <1>2 DEF WaitRead
  <2>3. job = [q \in Clis |-> job[q]]
    BY DEF FInv, LockOK
  <2> HIDE DEF v
  <2>4. job' = [job EXCEPT ![p] = k]
    BY <2>2, <2>3
  <2>5. IsJob(job[p]) => SameJob(job[p], k)
    BY DEF IsJob, SameJob
  <2> HIDE DEF k
  <2>6. QED
    BY <2>1, <2>4, <2>5, Works
<1>3. QED
  BY <1>1, <1>2

LEMMA StepWaits ==
  ASSUME FInv, NEW p \in Clis,
         WaitReadFails(p) \/ WaitAgain(p) \/ WaitTimeout(p) \/ WaitSettled(p)
  PROVE  FInv' /\ LogStep
<1>1. CASE WaitReadFails(p)
  BY <1>1, StepFinish DEF WaitReadFails
<1>2. CASE WaitAgain(p)
  <2> DEFINE k == [job[p] EXCEPT !.sweep = DOMAIN job[p].plan, !.clean = TRUE]
  <2>1. pc[p] \in Locked /\ file' = file /\ lock' = lock /\ pc' = pc
    BY <1>2 DEF WaitAgain, Locked
  <2>2. job = [q \in Clis |-> job[q]]
    BY DEF FInv, LockOK
  <2>3. job' = [job EXCEPT ![p] = k]
    BY <1>2, <2>2 DEF WaitAgain
  <2>4. IsJob(job[p]) => SameJob(job[p], k)
    BY DEF IsJob, SameJob
  <2> HIDE DEF k
  <2>5. QED
    BY <2>1, <2>3, <2>4, Works
<1>3. CASE WaitTimeout(p)
  BY <1>3, StepFinish DEF WaitTimeout
<1>4. CASE WaitSettled(p)
  BY <1>4, StepFinish DEF WaitSettled
<1>5. QED
  BY <1>1, <1>2, <1>3, <1>4

LEMMA StepRollbackBegin ==
  ASSUME FInv, NEW p \in Clis, NEW e \in Envs, NEW r \in Selectable(file, e),
         RollbackBegin(p, e, r)
  PROVE  FInv' /\ LogStep
<1> DEFINE S  == RollbackTargets(file, e, r)
           st == StartDeployment(file, e, r, "rollback", S)
           x  == ScopedToTargets([st EXCEPT !.current[e] = r], e, S)
           j  == [Job("rollback", e, 0) EXCEPT
                    !.st = st, !.sweep = S, !.rel = r, !.dep = Len(st.deployments), !.next = x]
<1>1. FileOK(file) /\ file' = st /\ Hold(p, "baseline", j)
  BY DEF FInv, RollbackBegin, Write
<1>2. r \in Releases(file, e)
  BY DEF Selectable
<1> HIDE DEF S
<1>3. /\ FileOK(st) /\ RunningAt(st, Len(st.deployments), "rollback")
      /\ st.deployments[Len(st.deployments)].env = e
      /\ st.deployments[Len(st.deployments)].rel = r
  BY <1>1, <1>2, StartDeploymentOK
<1>4. LogStep
  BY <1>1, <1>2, LogRollback
<1> HIDE DEF st, x
<1>5. /\ IsJob(j) /\ j.op = "rollback" /\ j.env = e /\ j.st = st /\ j.rel = r
      /\ j.dep = Len(st.deployments)
  BY DEF Job, IsJob
<1> HIDE DEF j
<1>6. HolderOK("baseline", j, file')
  BY <1>1, <1>3, <1>5 DEF HolderOK, RollbackOK
<1>7. FInv'
  BY <1>1, <1>3, <1>6, Takes DEF Locked
<1>8. QED
  BY <1>4, <1>7

\* The rollback is recorded as failed.
LEMMA RollbackFails ==
  ASSUME FInv, NEW p \in Clis, pc[p] \in {"baseline", "publish"}, job[p].op = "rollback",
         Write(EndDeployment(job[p].st, job[p].dep, "failed", << >>)), Return(p)
  PROVE  FInv' /\ LogStep
<1> DEFINE j == job[p]
<1>1. pc[p] \in Locked
  BY DEF Locked
<1>2. FileOK(file) /\ HolderOK(pc[p], j, file)
  BY <1>1, Holder
<1>3. /\ j.st = file /\ j.dep \in 1..Len(file.deployments)
      /\ file.deployments[j.dep].status = "running"
  BY <1>2 DEF HolderOK, RollbackOK, RunningAt
<1>4. file' = EndDeployment(file, j.dep, "failed", << >>)
  BY <1>3 DEF Write
<1> HIDE DEF j
<1>5. FileOK(file')
  BY <1>2, <1>3, <1>4, EndDeploymentOK
<1>6. LogStep
  BY <1>2, <1>3, <1>4, LogEnd
<1>7. QED
  BY <1>1, <1>5, <1>6, WritesAndReturns

LEMMA StepRollbackPublish ==
  ASSUME FInv, NEW p \in Clis, RollbackPublish(p)
  PROVE  FInv' /\ LogStep
<1> DEFINE j == job[p]
           S == j.next.attached[j.env]
           k == Planned(j, j.next, S)
<1>1. pc[p] = "baseline" /\ j.op = "rollback" /\ pc[p] \in Locked /\ "publish" \in Locked
  BY DEF RollbackPublish, Locked
<1>2. CASE Plannable(j.next, S)
  <2>1. /\ file' = file /\ lock' = lock
        /\ pc' = [pc EXCEPT ![p] = "publish"] /\ job' = [job EXCEPT ![p] = k]
    BY <1>2 DEF RollbackPublish, Go
  <2>2. FileOK(file) /\ HolderOK("baseline", j, file) /\ IsJob(j)
    BY <1>1, Holder
  <2>3. SameJob(j, k)
    BY <2>2 DEF SameJob, Planned, IsJob
  <2>4. HolderOK("publish", j, file)
    BY <1>1, <2>2 DEF HolderOK, PublishOps
  <2> HIDE DEF k
  <2>5. HolderOK("publish", k, file)
    BY <2>3, <2>4, HolderSame
  <2>6. FInv'
    BY <1>1, <2>1, <2>2, <2>5, Moves
  <2>7. QED
    BY <2>1, <2>6, LogSame
<1>3. CASE ~Plannable(j.next, S)
  <2>1. Write(EndDeployment(j.st, j.dep, "failed", << >>)) /\ Return(p)
    BY <1>3 DEF RollbackPublish
  <2>2. QED
    BY <1>1, <2>1, RollbackFails
<1>4. QED
  BY <1>2, <1>3

LEMMA StepRollbackPublished ==
  ASSUME FInv, NEW p \in Clis, RollbackPublished(p)
  PROVE  FInv' /\ LogStep
<1> DEFINE j == job[p]
           k == [j EXCEPT !.sweep = DOMAIN j.plan, !.clean = TRUE]
<1>1. pc[p] = "publish" /\ j.op = "rollback" /\ pc[p] \in Locked /\ "wait" \in Locked
  BY DEF RollbackPublished, Published, Locked
<1>2. CASE j.bad = {}
  <2>1. /\ file' = file /\ lock' = lock
        /\ pc' = [pc EXCEPT ![p] = "wait"] /\ job' = [job EXCEPT ![p] = k]
    BY <1>2 DEF RollbackPublished, Go
  <2>2. FileOK(file) /\ HolderOK("publish", j, file) /\ IsJob(j)
    BY <1>1, Holder
  <2>3. SameJob(j, k)
    BY <2>2 DEF SameJob, IsJob
  <2>4. HolderOK("wait", j, file)
    BY <1>1, <2>2 DEF HolderOK
  <2> HIDE DEF k
  <2>5. HolderOK("wait", k, file)
    BY <2>3, <2>4, HolderSame
  <2>6. FInv'
    BY <1>1, <2>1, <2>2, <2>5, Moves
  <2>7. QED
    BY <2>1, <2>6, LogSame
<1>3. CASE j.bad # {}
  <2>1. Write(EndDeployment(j.st, j.dep, "failed", << >>)) /\ Return(p)
    BY <1>3 DEF RollbackPublished
  <2>2. QED
    BY <1>1, <2>1, RollbackFails
<1>4. QED
  BY <1>2, <1>3

LEMMA StepStatusBegin ==
  ASSUME FInv, NEW p \in Clis, NEW e \in Envs, StatusBegin(p, e)
  PROVE  FInv' /\ LogStep
<1>1. PICK j : Go(p, "status", j)
  BY DEF StatusBegin
<1>2. /\ pc' = [pc EXCEPT ![p] = "status"] /\ job' = [job EXCEPT ![p] = j]
      /\ lock' = lock /\ file' = file /\ pc[p] \notin Locked /\ "status" \notin Locked
  BY <1>1 DEF StatusBegin, Begin, Go, Locked
<1>3. LockOK' /\ (lock # NoCli => pc'[lock] = pc[lock] /\ job'[lock] = job[lock])
  BY <1>2, OutOfLock DEF FInv
<1>4. QED
  BY <1>2, <1>3, Untouched

LEMMA StepStatusRead ==
  ASSUME FInv, NEW p \in Clis, StatusRead(p)
  PROVE  FInv' /\ LogStep
<1>1. pc[p] = "status" /\ pc[p] \notin Locked /\ file' = file
  BY DEF StatusRead, Locked
<1>2. CASE Return(p)
  BY <1>1, <1>2, Returns
<1>3. CASE ~Return(p)
  <2>1. LockOK
    BY DEF FInv
  <2>2. PICK n \in job[p].sweep :
          LET j    == job[p]
              s    == host[n].status
              exp  == ExpectedRevision(j.st, j.env, j.rel, n)
              good == s # None /\ s.phase = "settled" /\ (Matches(j, n, s) \/ exp = None)
              chk  == n \in j.st.deployments[j.dep].targets /\ Matches(j, n, s)
          IN IF ~good THEN Return(p)
             ELSE /\ job' = [job EXCEPT ![p].sweep = @ \ {n},
                      ![p].checked = IF chk THEN @ \cup {n} ELSE @,
                      ![p].plan = IF chk /\ CohostedRevisions(j.st, j.env, n) = {}
                                  THEN [m \in DOMAIN @ \cup {n} |->
                                          IF m = n THEN s.rev ELSE @[m]] ELSE @]
                  /\ UNCHANGED <<pc, lock>>
    BY Zenon DEF StatusRead
  <2>3. /\ job' = [job EXCEPT ![p] = job'[p]] /\ pc' = [pc EXCEPT ![p] = pc[p]] /\ lock' = lock
    BY <1>3, <2>1, <2>2 DEF LockOK
  <2>4. LockOK' /\ (lock # NoCli => pc'[lock] = pc[lock] /\ job'[lock] = job[lock])
    BY <1>1, <2>1, <2>3, OutOfLock
  <2>5. QED
    BY <1>1, <2>3, <2>4, Untouched
<1>4. QED
  BY <1>2, <1>3

LEMMA StepStatusRecover ==
  ASSUME FInv, NEW p \in Clis, StatusRecover(p)
  PROVE  FInv' /\ LogStep
<1>1. Return(p) /\ lock = NoCli /\ FileOK(file)
  BY DEF StatusRecover, FInv
<1>2. CASE file' = file
  BY <1>1, <1>2, Returns
<1>3. CASE file' # file
  <2> DEFINE j == job[p]
             i == CHOOSE k \in Recovered(j) : TRUE
  <2>1. Recovered(j) # {} /\ \E pub : file' = EndDeployment(file, i, "settled", pub)
    BY <1>3 DEF StatusRecover, Write
  <2>2. PICK pub : file' = EndDeployment(file, i, "settled", pub)
    BY <2>1
  <2>3. i \in Recovered(j)
    BY <2>1
  <2> HIDE DEF i
  <2>4. i \in 1..Len(file.deployments) /\ file.deployments[i].status = "running"
    BY <2>3 DEF Recovered, Running, Deployed
  <2>5. FileOK(file')
    BY <1>1, <2>2, <2>4, EndDeploymentOK
  <2>6. LogStep
    BY <1>1, <2>2, <2>4, LogEnd
  <2>7. LockOK' /\ lock' = NoCli
    BY <1>1, NameAssumption DEF Return, FInv, LockOK, Locked
  <2>8. QED
    BY <2>5, <2>6, <2>7, Idle
<1>4. QED
  BY <1>2, <1>3

\* A command is started and over at once.
LEMMA AtOnceOK ==
  ASSUME FInv, AtOnce, FileOK(file'), file'.releases = file.releases,
         file'.deployments = file.deployments, file'.current = file.current
  PROVE  FInv' /\ LogStep
<1>1. LockOK' /\ lock' = NoCli
  BY DEF AtOnce, cliVars, FInv, LockOK
<1>2. QED
  BY <1>1, Idle, LogSame

LEMMA StepWriteThenPublish ==
  ASSUME FInv, NEW p \in Clis, NEW op \in {"attach", "label"}, NEW st, NEW S,
         WriteThenPublish(p, op, st, S), FileOK(st), st.releases = file.releases,
         st.deployments = file.deployments, st.current = file.current
  PROVE  FInv' /\ LogStep
<1> DEFINE j == [Planned(Job(op, NoEnv, 0), st, S) EXCEPT !.st = st]
<1>1. file' = st /\ LogStep
  BY LogSame DEF WriteThenPublish, Write
<1>2. CASE Hold(p, "publish", j)
  <2>1. IsJob(j) /\ j.op = op
    BY DEF Planned, Job, IsJob
  <2> HIDE DEF j
  <2>2. HolderOK("publish", j, file')
    BY <2>1 DEF HolderOK, PublishOps
  <2>3. QED
    BY <1>1, <1>2, <2>2, Takes DEF Locked
<1>3. CASE AtOnce
  BY <1>1, <1>3, AtOnceOK
<1>4. QED
  BY <1>2, <1>3 DEF WriteThenPublish

LEMMA StepAttach ==
  ASSUME FInv, NEW p \in Clis, NEW e \in Envs, NEW n, Attach(p, e, n)
  PROVE  FInv' /\ LogStep
<1> DEFINE st == WithNode(file, e, n)
           S  == IF HasRelease(st, e) THEN st.attached[e] ELSE {}
<1>1. FileOK(file) /\ n \in file.nodes /\ WriteThenPublish(p, "attach", st, S)
  BY DEF FInv, Attach
<1>2. /\ FileOK(st) /\ st.releases = file.releases /\ st.current = file.current
      /\ st.deployments = file.deployments
  BY <1>1, WithNodeOK
<1> HIDE DEF st, S
<1>3. QED
  BY <1>1, <1>2, StepWriteThenPublish

LEMMA StepLabel ==
  ASSUME FInv, NEW p \in Clis, NEW n, NEW labels \in (SUBSET Kinds) \ {{}}, Label(p, n, labels)
  PROVE  FInv' /\ LogStep
<1> DEFINE st == [file EXCEPT !.labels[n] = labels]
           S  == Affected(st, n)
<1>1. FileOK(file) /\ n \in file.nodes /\ WriteThenPublish(p, "label", st, S)
  BY DEF FInv, Label
<1>2. n \in Nodes
  BY <1>1 DEF FileOK, NodesOK
<1>3. /\ FileOK(st) /\ st.releases = file.releases /\ st.current = file.current
      /\ st.deployments = file.deployments
  BY <1>1, <1>2, LabelOK
<1> HIDE DEF st, S
<1>4. QED
  BY <1>1, <1>3, StepWriteThenPublish

LEMMA StepLabels ==
  ASSUME FInv, NEW p \in Clis, NEW n, NEW labels \in (SUBSET Kinds) \ {{}},
         LabelSet(p, n, labels) \/ LabelRemove(p, n, labels)
  PROVE  FInv' /\ LogStep
<1>1. CASE LabelSet(p, n, labels)
  BY <1>1, StepLabel DEF LabelSet
<1>2. CASE LabelRemove(p, n, labels)
  <2> DEFINE l == NormalLabels(file.labels[n] \ labels)
  <2>1. Label(p, n, l)
    BY <1>2 DEF LabelRemove
  <2>2. n \in file.nodes /\ FileOK(file)
    BY <2>1 DEF Label, FInv
  <2>3. file.labels[n] \in SUBSET Kinds
    BY <2>2 DEF FileOK, NodesOK
  <2>4. l \in (SUBSET Kinds) \ {{}}
    BY <2>3, DefaultLabels DEF NormalLabels
  <2> HIDE DEF l
  <2>5. QED
    BY <2>1, <2>4, StepLabel
<1>3. QED
  BY <1>1, <1>2

LEMMA StepDetachBegin ==
  ASSUME FInv, NEW p \in Clis, NEW e \in Envs, NEW n, DetachBegin(p, e, n)
  PROVE  FInv' /\ LogStep
<1> DEFINE next == WithoutNode(file, e, n)
           S    == next.attached[e]
           j    == [Planned(Job("detach", e, n), next, S) EXCEPT !.next = next]
<1>1. FileOK(file) /\ file' = file /\ Hold(p, "publish", j) /\ n \in file.attached[e]
  BY DEF FInv, DetachBegin
<1> HIDE DEF S
<1>2. IsJob(j) /\ j.op = "detach" /\ j.env = e /\ j.node = n /\ j.next = next
  BY DEF Planned, Job, IsJob
<1> HIDE DEF j
<1>3. DetachOK(j, file)
  BY <1>1, <1>2 DEF DetachOK
<1>4. HolderOK("publish", j, file')
  BY <1>1, <1>2, <1>3 DEF HolderOK, PublishOps
<1>5. FInv'
  BY <1>1, <1>4, Takes DEF Locked
<1>6. QED
  BY <1>1, <1>5, LogSame

LEMMA StepDetachNode ==
  ASSUME FInv, NEW p \in Clis, DetachNode(p)
  PROVE  FInv' /\ LogStep
<1> DEFINE j == job[p]
           k == [Planned(j, j.next, {j.node}) EXCEPT !.op = "clear"]
<1>1. pc[p] = "publish" /\ j.op = "detach" /\ pc[p] \in Locked /\ file' = file
  BY DEF DetachNode, Published, Locked
<1>2. CASE Plannable(j.next, {j.node})
  <2>1. /\ lock' = lock
        /\ pc' = [pc EXCEPT ![p] = "publish"] /\ job' = [job EXCEPT ![p] = k]
    BY <1>2 DEF DetachNode, Go
  <2>2. FileOK(file) /\ HolderOK("publish", j, file) /\ IsJob(j)
    BY <1>1, Holder
  <2>3. IsJob(k) /\ k.op = "clear" /\ k.env = j.env /\ k.node = j.node /\ k.next = j.next
    BY <2>2 DEF Planned, IsJob
  <2> HIDE DEF k
  <2>4. HolderOK("publish", k, file')
    BY <1>1, <2>2, <2>3 DEF HolderOK, PublishOps, DetachOK
  <2>5. FInv'
    BY <1>1, <2>1, <2>2, <2>4, Moves
  <2>6. QED
    BY <1>1, <2>5, LogSame
<1>3. CASE ~Plannable(j.next, {j.node})
  BY <1>1, <1>3, Returns DEF DetachNode
<1>4. QED
  BY <1>2, <1>3

LEMMA StepDetachEnds ==
  ASSUME FInv, NEW p \in Clis, DetachEnds(p)
  PROVE  FInv' /\ LogStep
<1> DEFINE j == job[p]
<1>1. /\ pc[p] = "publish" /\ j.op = "clear" /\ pc[p] \in Locked /\ Return(p)
      /\ file' = j.next \/ file' = file
  BY DEF DetachEnds, Published, Write, Locked
<1>2. FileOK(file) /\ HolderOK("publish", j, file)
  BY <1>1, Holder
<1>3. j.env \in Envs /\ j.next = WithoutNode(file, j.env, j.node)
  BY <1>1, <1>2 DEF HolderOK, DetachOK
<1> HIDE DEF j
<1>4. /\ FileOK(j.next) /\ j.next.releases = file.releases /\ j.next.current = file.current
      /\ j.next.deployments = file.deployments
  <2> DEFINE w == WithoutNode(file, j.env, j.node)
  <2>1. /\ FileOK(w) /\ w.releases = file.releases /\ w.current = file.current
        /\ w.deployments = file.deployments
    <3>1. j.env \in Envs /\ FileOK(file)
      BY <1>2, <1>3
    <3>2. QED
      BY <3>1, WithoutNodeOK
  <2> HIDE DEF w
  <2>2. QED
    BY <1>3, <2>1 DEF w
<1>5. FileOK(file') /\ LogStep
  BY <1>1, <1>2, <1>4, LogSame
<1>6. QED
  BY <1>1, <1>5, WritesAndReturns

\* The steps at which a process returns and the file stays.
LEMMA StepReturns ==
  ASSUME FInv, NEW p \in Clis,
         \/ Crash(p) \/ PublishAborts(p) \/ PublishEnds(p) \/ ConfigWrite(p) \/ ServerNotReady(p)
         \/ NodeInstallFails(p) \/ NodeCreated(p)
  PROVE  FInv' /\ LogStep
<1>1. Return(p) /\ file' = file
  BY DEF Crash, PublishAborts, PublishEnds, ConfigWrite, ServerNotReady, NodeInstallFails,
         NodeCreated
<1>2. QED
  BY <1>1, Returns

\* The commands that change neither the file nor the lock.
LEMMA StepOutside ==
  ASSUME FInv, file' = file, UNCHANGED cliVars
  PROVE  FInv' /\ LogStep
<1>1. lock' = lock /\ pc' = pc /\ job' = job /\ LockOK
  BY DEF cliVars, FInv
<1>2. LockOK'
  BY <1>1 DEF LockOK
<1>3. QED
  BY <1>1, <1>2, Untouched

LEMMA StepSecret ==
  ASSUME FInv, NEW p \in Clis, NEW e \in Envs, NEW op, NEW v \in Nat, Secret(p, op, e, v)
  PROVE  FInv' /\ LogStep
<1> DEFINE j == [Job(op, e, 0) EXCEPT !.st = file', !.cfg = cfg[e]]
<1>1. FileOK(file) /\ file' = WithSecret(file, e, v) /\ Hold(p, "config", j)
  BY DEF FInv, Secret, Write
<1>2. /\ FileOK(file') /\ file'.releases = file.releases /\ file'.current = file.current
      /\ file'.deployments = file.deployments
  <2> DEFINE w == WithSecret(file, e, v)
  <2>1. /\ FileOK(w) /\ w.releases = file.releases /\ w.current = file.current
        /\ w.deployments = file.deployments
    <3>1. FileOK(file)
      BY DEF FInv
    <3>2. QED
      BY <3>1, SecretOK
  <2> HIDE DEF w
  <2>2. QED
    BY <1>1, <2>1 DEF w
<1>3. IsJob(j)
  BY DEF Job, IsJob
<1> HIDE DEF j
<1>4. HolderOK("config", j, file')
  BY <1>3 DEF HolderOK
<1>5. FInv'
  BY <1>1, <1>2, <1>4, Takes DEF Locked
<1>6. QED
  BY <1>2, <1>5, LogSame

LEMMA StepSecrets ==
  ASSUME FInv, NEW p \in Clis, NEW e \in Envs, SecretSet(p, e) \/ SecretDelete(p, e)
  PROVE  FInv' /\ LogStep
<1>1. CASE SecretSet(p, e)
  BY <1>1, StepSecret DEF SecretSet
<1>2. CASE SecretDelete(p, e)
  BY <1>2, StepSecret DEF SecretDelete
<1>3. QED
  BY <1>1, <1>2

LEMMA StepNodeCreate ==
  ASSUME FInv, NEW p \in Clis, NEW n \in Nodes, NEW hosted, NEW e \in Envs \cup {NoEnv},
         NEW install, NodeCreate(p, n, hosted, e, install)
  PROVE  FInv' /\ LogStep
<1> DEFINE j == [Job("create", e, n) EXCEPT !.hosted = hosted, !.install = install]
<1>1. FileOK(file) /\ file' = file /\ Hold(p, "server", j) /\ n \notin file.nodes
  BY DEF FInv, NodeCreate
<1>2. IsJob(j) /\ j.op = "create" /\ j.env = e /\ j.node = n
  BY DEF Job, IsJob
<1> HIDE DEF j
<1>3. HolderOK("server", j, file')
  BY <1>1, <1>2 DEF HolderOK
<1>4. FInv'
  BY <1>1, <1>3, Takes DEF Locked
<1>5. QED
  BY <1>1, <1>4, LogSame

LEMMA StepNodeSaved ==
  ASSUME FInv, NEW p \in Clis, NodeSaved(p)
  PROVE  FInv' /\ LogStep
<1> DEFINE j   == job[p]
           reg == SetNode(file, j.node, j.hosted)
           st  == IF j.env = NoEnv THEN reg ELSE WithNode(reg, j.env, j.node)
           k   == [j EXCEPT !.st = st, !.next = reg]
<1>1. /\ pc[p] = "server" /\ pc[p] \in Locked /\ "install" \in Locked /\ file' = st
      /\ lock' = lock /\ pc' = [pc EXCEPT ![p] = "install"] /\ job' = [job EXCEPT ![p] = k]
  BY DEF NodeSaved, Write, Go, Locked
<1>2. FileOK(file) /\ HolderOK("server", j, file) /\ IsJob(j)
  BY <1>1, Holder
<1>3. j.op = "create" /\ j.node \in Nodes \ file.nodes /\ j.env \in Envs \cup {NoEnv}
  BY <1>2 DEF HolderOK
<1> HIDE DEF j
<1>4. /\ FileOK(reg) /\ reg.nodes = file.nodes \cup {j.node} /\ reg.attached = file.attached
      /\ reg.releases = file.releases /\ reg.current = file.current
      /\ reg.deployments = file.deployments
  <2>1. FileOK(file) /\ j.node \in Nodes
    BY <1>2, <1>3
  <2>2. QED
    BY <2>1, SetNodeOK
<1> HIDE DEF reg
<1>5. \A e \in Envs : j.node \notin reg.attached[e]
  BY <1>2, <1>3, <1>4 DEF FileOK, NodesOK
<1>6. /\ FileOK(st) /\ st.nodes = reg.nodes
      /\ st.releases = file.releases /\ st.current = file.current
      /\ st.deployments = file.deployments
      /\ \A e \in Envs : j.node \in st.attached[e] => e = j.env
  <2>1. CASE j.env = NoEnv
    BY <1>4, <1>5, <2>1
  <2>2. CASE j.env # NoEnv
    <3> DEFINE w == WithNode(reg, j.env, j.node)
    <3>1. j.env \in Envs /\ j.node \in reg.nodes
      BY <1>3, <1>4, <2>2
    <3>2. /\ FileOK(w) /\ w.nodes = reg.nodes /\ w.releases = reg.releases
          /\ w.current = reg.current /\ w.deployments = reg.deployments
          /\ w.attached = Update(reg.attached, j.env, reg.attached[j.env] \cup {j.node})
      <4>1. FileOK(reg)
        BY <1>4
      <4>2. ASSUME NEW e \in Envs, NEW n \in reg.nodes
            PROVE  LET v == WithNode(reg, e, n)
                   IN /\ FileOK(v) /\ v.nodes = reg.nodes /\ v.releases = reg.releases
                      /\ v.current = reg.current /\ v.deployments = reg.deployments
                      /\ v.attached = Update(reg.attached, e, reg.attached[e] \cup {n})
        BY <4>1, WithNodeOK
      <4>3. QED
        BY <3>1, <4>2 DEF w
    <3> HIDE DEF w
    <3>3. \A e \in Envs : j.node \in w.attached[e] => e = j.env
      BY <1>4, <1>5, <3>2 DEF FileOK, NodesOK, Update
    <3>4. st = w
      BY <2>2 DEF w
    <3> HIDE DEF st
    <3>5. QED
      BY <1>4, <3>2, <3>3, <3>4
  <2>3. QED
    BY <2>1, <2>2
<1> HIDE DEF st
<1>7. IsJob(k) /\ k.op = "create" /\ k.env = j.env /\ k.node = j.node /\ k.st = st
  BY <1>2, <1>3 DEF IsJob
<1> HIDE DEF k
<1>8. HolderOK("install", k, file')
  BY <1>1, <1>3, <1>4, <1>6, <1>7 DEF HolderOK, CreateOK
<1>9. FInv'
  BY <1>1, <1>6, <1>8, Moves
<1>10. QED
  BY <1>1, <1>6, <1>9, LogSame

LEMMA StepNodeInstall ==
  ASSUME FInv, NEW p \in Clis, NodeInstall(p)
  PROVE  FInv' /\ LogStep
<1> DEFINE j == job[p]
           S == CreateTargets(j)
           k == IF Plannable(j.st, S) THEN Planned(j, j.st, S) ELSE [j EXCEPT !.bad = {j.node}]
<1>1. pc[p] = "install" /\ pc[p] \in Locked /\ "publish" \in Locked /\ file' = file
  BY DEF NodeInstall, Locked
<1>2. CASE S = {}
  BY <1>1, <1>2, Returns DEF NodeInstall
<1>3. CASE S # {}
  <2>1. /\ lock' = lock /\ pc' = [pc EXCEPT ![p] = "publish"] /\ job' = [job EXCEPT ![p] = k]
    BY <1>3 DEF NodeInstall, Go
  <2>2. FileOK(file) /\ HolderOK("install", j, file) /\ IsJob(j)
    BY <1>1, Holder
  <2>3. j.op = "create" /\ CreateOK(j, file)
    BY <2>2 DEF HolderOK
  <2>4. j.env \in Envs
    BY <1>3, <2>3 DEF CreateTargets, CreateOK
  <2>5. SameJob(j, k)
    BY <2>2 DEF SameJob, Planned, IsJob
  <2> HIDE DEF k
  <2>6. HolderOK("publish", j, file)
    BY <2>2, <2>3, <2>4 DEF HolderOK, PublishOps
  <2>7. HolderOK("publish", k, file)
    BY <2>5, <2>6, HolderSame
  <2>8. FInv'
    BY <1>1, <2>1, <2>2, <2>7, Moves
  <2>9. QED
    BY <1>1, <2>8, LogSame
<1>4. QED
  BY <1>2, <1>3

LEMMA StepNodeUndo ==
  ASSUME FInv, NEW p \in Clis, NodeUndo(p)
  PROVE  FInv' /\ LogStep
<1> DEFINE j == job[p]
           S == CreateTargets(j)
           k == IF Plannable(j.next, S) THEN [Planned(j, j.next, S) EXCEPT !.op = "undo"]
                ELSE [j EXCEPT !.op = "undo"]
<1>1. /\ pc[p] = "publish" /\ pc[p] \in Locked /\ j.op = "create" /\ file' = file /\ lock' = lock
      /\ pc' = pc /\ job' = [job EXCEPT ![p] = k]
  BY DEF NodeUndo, Published, Locked
<1>2. LockOK /\ FileOK(file) /\ HolderOK("publish", j, file) /\ IsJob(j)
  BY <1>1, Holder
<1>3. IsJob(k) /\ k.op = "undo" /\ k.env = j.env /\ k.node = j.node /\ k.st = j.st
  BY <1>2 DEF Planned, IsJob
<1> HIDE DEF k
<1>4. HolderOK("publish", k, file')
  BY <1>1, <1>2, <1>3 DEF HolderOK, PublishOps, CreateOK
<1>5. pc' = [pc EXCEPT ![p] = "publish"]
  BY <1>1, <1>2 DEF LockOK
<1>6. FInv'
  BY <1>1, <1>2, <1>4, <1>5, Moves
<1>7. QED
  BY <1>1, <1>6, LogSame

LEMMA StepNodeUndone ==
  ASSUME FInv, NEW p \in Clis, NodeUndone(p)
  PROVE  FInv' /\ LogStep
<1> DEFINE j  == job[p]
           st == WithoutNode(file, j.env, j.node)
<1>1. pc[p] = "publish" /\ pc[p] \in Locked /\ j.op = "undo" /\ Return(p)
  BY DEF NodeUndone, Published, Locked
<1>2. FileOK(file) /\ HolderOK("publish", j, file)
  BY <1>1, Holder
<1>3. /\ j.st = file /\ j.env \in Envs /\ j.node \in file.nodes
      /\ \A e \in Envs : j.node \in file.attached[e] => e = j.env
  BY <1>1, <1>2 DEF HolderOK, CreateOK
<1>4. file' = st \/ file' = RemoveNode(st, j.node)
  BY <1>3 DEF NodeUndone, Write
<1>5. j.node \in Nodes /\ DOMAIN file.attached = Envs
  BY <1>2, <1>3 DEF FileOK, NodesOK
<1> HIDE DEF j
<1>6. /\ FileOK(st) /\ st.releases = file.releases /\ st.current = file.current
      /\ st.deployments = file.deployments
      /\ st.attached = Update(file.attached, j.env, file.attached[j.env] \ {j.node})
  <2>1. FileOK(file) /\ j.env \in Envs
    BY <1>2, <1>3
  <2>2. ASSUME NEW n PROVE
          LET w == WithoutNode(file, j.env, n)
          IN /\ FileOK(w) /\ w.releases = file.releases /\ w.current = file.current
             /\ w.deployments = file.deployments
             /\ w.attached = Update(file.attached, j.env, file.attached[j.env] \ {n})
    BY <2>1, WithoutNodeOK
  <2>3. QED
    BY <2>2
<1> HIDE DEF st
<1>7. AttachedTo(st, j.node) = {}
  BY <1>3, <1>5, <1>6 DEF AttachedTo, Update
<1>8. /\ FileOK(file') /\ file'.releases = file.releases /\ file'.current = file.current
      /\ file'.deployments = file.deployments
  <2>1. CASE file' = st
    BY <1>6, <2>1
  <2>2. CASE file' = RemoveNode(st, j.node)
    BY <1>5, <1>6, <1>7, <2>2, RemoveNodeOK
  <2>3. QED
    BY <1>4, <2>1, <2>2
<1>9. QED
  BY <1>1, <1>8, WritesAndReturns, LogSame

LEMMA StepNodeRemove ==
  ASSUME FInv, NEW p \in Clis, NEW n \in Nodes, NodeRemove(p, n)
  PROVE  FInv' /\ LogStep
<1>1. FileOK(file) /\ AttachedTo(file, n) = {}
  BY DEF FInv, NodeRemove
<1>2. CASE n \in file.hosted
  <2> DEFINE j == Job("remove", NoEnv, n)
  <2>1. Hold(p, "remove", j) /\ file' = file
    BY <1>2 DEF NodeRemove
  <2>2. IsJob(j) /\ j.op = "remove" /\ j.node = n
    BY DEF Job, IsJob
  <2> HIDE DEF j
  <2>3. HolderOK("remove", j, file')
    BY <1>1, <2>1, <2>2 DEF HolderOK
  <2>4. FInv'
    BY <1>1, <2>1, <2>3, Takes DEF Locked
  <2>5. QED
    BY <2>1, <2>4, LogSame
<1>3. CASE n \notin file.hosted
  <2>1. AtOnce /\ file' = RemoveNode(file, n)
    BY <1>3 DEF NodeRemove, Write
  <2>2. /\ FileOK(file') /\ file'.releases = file.releases /\ file'.current = file.current
        /\ file'.deployments = file.deployments
    BY <1>1, <2>1, RemoveNodeOK
  <2>3. QED
    BY <2>1, <2>2, AtOnceOK
<1>4. QED
  BY <1>2, <1>3

LEMMA StepNodeRemoved ==
  ASSUME FInv, NEW p \in Clis, NodeRemoved(p)
  PROVE  FInv' /\ LogStep
<1> DEFINE n == job[p].node
<1>1. pc[p] = "remove" /\ pc[p] \in Locked /\ Return(p) /\ file' = RemoveNode(file, n)
  BY DEF NodeRemoved, Write, Locked
<1>2. FileOK(file) /\ HolderOK("remove", job[p], file)
  BY <1>1, Holder
<1>3. n \in Nodes /\ AttachedTo(file, n) = {}
  BY <1>2 DEF HolderOK
<1> HIDE DEF n
<1>4. /\ FileOK(file') /\ file'.releases = file.releases /\ file'.current = file.current
      /\ file'.deployments = file.deployments
  BY <1>1, <1>2, <1>3, RemoveNodeOK
<1>5. QED
  BY <1>1, <1>4, WritesAndReturns, LogSame

\* A report of a node, which a rollout that is under way takes note of.
LEMMA StepLater ==
  ASSUME FInv, NEW n, job' = Later(n), file' = file, lock' = lock, pc' = pc
  PROVE  FInv' /\ LogStep
<1>1. LockOK /\ LockOK'
  BY DEF FInv, LockOK, Later
<1>2. CASE lock = NoCli
  BY <1>1, <1>2, Untouched
<1>3. CASE lock # NoCli
  <2>1. lock \in Clis /\ HolderOK(pc[lock], job[lock], file) /\ FileOK(file)
    BY <1>1, <1>3 DEF LockOK, FInv
  <2>2. SameJob(job[lock], job'[lock])
    BY <2>1 DEF HolderOK, SameJob, IsJob, Later
  <2>3. HolderOK(pc[lock], job'[lock], file)
    BY <2>1, <2>2, HolderSame
  <2>4. FInv'
    BY <1>1, <2>1, <2>3 DEF FInv
  <2>5. QED
    BY <2>4, LogSame
<1>4. QED
  BY <1>2, <1>3

LEMMA StepAgent ==
  ASSUME FInv, NEW n,
         \/ AgentLoads(n) \/ AgentTaskEnds(n) \/ AgentSettles(n) \/ AgentTaskRuns(n)
         \/ AgentTaskFails(n) \/ AgentSick(n) \/ AgentFails(n) \/ AgentLacksImage(n)
         \/ AgentCareFails(n) \/ AgentCaresAgain(n)
  PROVE  FInv' /\ LogStep
<1>1. CASE AgentLoads(n) \/ AgentTaskEnds(n)
  BY <1>1, StepOutside DEF AgentLoads, AgentTaskEnds
<1>2. CASE \/ AgentSettles(n) \/ AgentTaskRuns(n) \/ AgentTaskFails(n) \/ AgentSick(n)
           \/ AgentFails(n) \/ AgentLacksImage(n) \/ AgentCareFails(n)
  <2>1. job' = Later(n) /\ file' = file /\ lock' = lock /\ pc' = pc
    BY <1>2 DEF AgentSettles, AgentTaskRuns, AgentTaskFails, AgentSick, AgentFails,
                AgentLacksImage, AgentCareFails, Report, Reported
  <2>2. QED
    BY <2>1, StepLater
<1>3. CASE AgentCaresAgain(n)
  <2>1. (job' = job \/ job' = Later(n)) /\ file' = file /\ lock' = lock /\ pc' = pc
    BY <1>3 DEF AgentCaresAgain
  <2>2. QED
    BY <2>1, StepLater, StepOutside DEF cliVars
<1>4. QED
  BY <1>1, <1>2, <1>3

LEMMA FileInit ==
  ASSUME Init
  PROVE  FInv
<1>1. IsFile(file)
  BY DEF Init, IsFile
<1>2. NodesOK(file)
  <2>1. file.labels \in [Nodes -> (SUBSET Kinds) \ {{}}]
    BY DefaultLabels DEF Init
  <2>2. file.nodes \subseteq Nodes /\ file.hosted \subseteq file.nodes
    BY NodesAssumption DEF Init
  <2>3. file.attached \in [Envs -> SUBSET file.nodes] /\ file.secrets \in [Envs -> Nat]
    BY NodesAssumption DEF Init
  <2>4. QED
    BY <2>1, <2>2, <2>3 DEF NodesOK
<1>3. /\ file.releases = << >> /\ file.deployments = << >> /\ file.current = [e \in Envs |-> 0]
  BY DEF Init
<1>4. << >> \in Seq(Range(<< >>)) /\ Len(<< >>) = 0 /\ 1..0 = {}
  BY EmptySeq
<1>5. ReleasesOK(file)
  BY <1>3, <1>4 DEF ReleasesOK, CurrentReadable, HasRelease
<1>6. DeploymentsOK(file)
  BY <1>3, <1>4 DEF DeploymentsOK
<1>7. LockOK /\ lock = NoCli
  BY NameAssumption DEF Init, LockOK, Locked
<1>8. QED
  BY <1>1, <1>2, <1>5, <1>6, <1>7 DEF FInv, FileOK

LEMMA FileCommand ==
  ASSUME FInv, NEW p \in Clis, Command(p)
  PROVE  FInv' /\ LogStep
<1>1. ASSUME NEW e \in Envs, NEW c \in Commits, DeployBegin(p, e, c) PROVE FInv' /\ LogStep
  BY <1>1, StepDeployBegin
<1>2. ASSUME NEW e \in Envs, NEW r \in Selectable(file, e), RollbackBegin(p, e, r)
      PROVE  FInv' /\ LogStep
  BY <1>2, StepRollbackBegin
<1>3. ASSUME NEW e \in Envs, StatusBegin(p, e) PROVE FInv' /\ LogStep
  BY <1>3, StepStatusBegin
<1>4. ASSUME NEW e \in Envs, SecretSet(p, e) \/ SecretDelete(p, e) PROVE FInv' /\ LogStep
  BY <1>4, StepSecrets
<1>5. ASSUME NEW e \in Envs, IngressSet(p, e) PROVE FInv' /\ LogStep
  BY <1>5, StepOutside DEF IngressSet
<1>6. ASSUME NEW e \in Envs, NEW n \in Nodes, Attach(p, e, n) PROVE FInv' /\ LogStep
  BY <1>6, StepAttach
<1>7. ASSUME NEW e \in Envs, NEW n \in Nodes, DetachBegin(p, e, n) PROVE FInv' /\ LogStep
  BY <1>7, StepDetachBegin
<1>8. ASSUME NEW n \in Nodes, NEW labels \in (SUBSET Kinds) \ {{}},
             LabelSet(p, n, labels) \/ LabelRemove(p, n, labels)
      PROVE  FInv' /\ LogStep
  BY <1>8, StepLabels
<1>9. ASSUME NEW n \in Nodes, NEW e \in Envs \cup {NoEnv}, NEW h \in BOOLEAN, NEW i \in BOOLEAN,
             NodeCreate(p, n, h, e, i)
      PROVE  FInv' /\ LogStep
  BY <1>9, StepNodeCreate
<1>10. ASSUME NEW n \in Nodes, NodeRemove(p, n) PROVE FInv' /\ LogStep
  BY <1>10, StepNodeRemove
<1>11. ASSUME NEW n \in Nodes, AgentInstall(p, n) PROVE FInv' /\ LogStep
  BY <1>11, StepOutside DEF AgentInstall
<1>12. ASSUME NEW n \in Nodes, NEW keep \in BOOLEAN, AgentUninstall(p, n, keep)
       PROVE  FInv' /\ LogStep
  BY <1>12, StepOutside DEF AgentUninstall
<1>13. QED
  BY <1>1, <1>2, <1>3, <1>4, <1>5, <1>6, <1>7, <1>8, <1>9, <1>10, <1>11, <1>12 DEF Command

LEMMA FileProceed ==
  ASSUME FInv, NEW p \in Clis, Proceed(p)
  PROVE  FInv' /\ LogStep
<1>1. ASSUME NEW n \in Nodes, PublishNode(p, n) \/ PublishFails(p, n) PROVE FInv' /\ LogStep
  BY <1>1, StepPublishNode, StepPublishFails
<1>2. ASSUME NEW n \in Nodes, NEW c \in Commits, SendImage(p, n, c) PROVE FInv' /\ LogStep
  BY <1>2, StepSendImage
<1>3. CASE BaselineRead(p) \/ DeployPublish(p) \/ DeployRecord(p)
  BY <1>3, StepBaselineRead, StepDeployPublish, StepDeployRecord
<1>4. CASE WaitRead(p) \/ WaitReadFails(p) \/ WaitSettled(p)
  BY <1>4, StepWaitRead, StepWaits
<1>5. CASE RollbackPublish(p) \/ RollbackPublished(p)
  BY <1>5, StepRollbackPublish, StepRollbackPublished
<1>6. CASE StatusRead(p) \/ StatusRecover(p)
  BY <1>6, StepStatusRead, StepStatusRecover
<1>7. CASE DetachNode(p) \/ DetachEnds(p)
  BY <1>7, StepDetachNode, StepDetachEnds
<1>8. CASE \/ PublishAborts(p) \/ PublishEnds(p) \/ ConfigWrite(p) \/ ServerNotReady(p)
           \/ NodeInstallFails(p) \/ NodeCreated(p)
  BY <1>8, StepReturns
<1>9. CASE NodeSaved(p) \/ NodeInstall(p) \/ NodeUndo(p) \/ NodeUndone(p) \/ NodeRemoved(p)
  BY <1>9, StepNodeSaved, StepNodeInstall, StepNodeUndo, StepNodeUndone, StepNodeRemoved
<1>10. QED
  BY <1>1, <1>2, <1>3, <1>4, <1>5, <1>6, <1>7, <1>8, <1>9 DEF Proceed

LEMMA FileStep ==
  ASSUME FInv, [Next]_vars
  PROVE  FInv' /\ LogStep
<1>1. ASSUME NEW p \in Clis, Command(p) PROVE FInv' /\ LogStep
  BY <1>1, FileCommand
<1>2. ASSUME NEW p \in Clis, Proceed(p) PROVE FInv' /\ LogStep
  BY <1>2, FileProceed
<1>3. ASSUME NEW p \in Clis, WaitAgain(p) \/ WaitTimeout(p) PROVE FInv' /\ LogStep
  BY <1>3, StepWaits
<1>4. ASSUME NEW p \in Clis, Crash(p) PROVE FInv' /\ LogStep
  BY <1>4, StepReturns
<1>5. ASSUME NEW n \in Nodes,
             \/ AgentPass(n) \/ AgentTaskRuns(n) \/ AgentTaskFails(n) \/ AgentSick(n)
             \/ AgentFails(n) \/ AgentLacksImage(n) \/ AgentCareFails(n) \/ AgentCaresAgain(n)
      PROVE  FInv' /\ LogStep
  BY <1>5, StepAgent DEF AgentPass
<1>6. CASE UNCHANGED vars
  BY <1>6, StepOutside DEF vars
<1>7. QED
  BY <1>1, <1>2, <1>3, <1>4, <1>5, <1>6 DEF Next

\* The copy of the state file that the holder of the lock works on is the file
\* of now, or differs from it by what the command is about to write.
THEOREM FileInvariance == Spec => []FInv
<1>1. FInv /\ [Next]_vars => FInv'
  BY FileStep
<1>2. QED
  BY <1>1, FileInit, PTL DEF Spec

\* FileReadable: whatever commands overlap, fail or die, no file they compute is
\* refused by the check of StateStore.Write, and so none by that of Read.
THEOREM FilesAreReadable == Spec => []FileReadable
<1>1. FInv => FileReadable
  <2>1. ASSUME FInv PROVE CurrentReadable(file)
    BY <2>1 DEF FInv, FileOK, ReleasesOK
  <2>2. ASSUME FInv PROVE DeploymentsReadable(file)
    <3>1. \A i \in 1..Len(file.deployments) : DeploymentOK(file, i)
      BY <2>2 DEF FInv, FileOK, DeploymentsOK
    <3>2. \A i \in 1..Len(file.deployments) : file.deployments[i].seq > 0
      <4> SUFFICES ASSUME NEW i \in 1..Len(file.deployments) PROVE file.deployments[i].seq > 0
        OBVIOUS
      <4>1. file.deployments[i].seq \in 1..i
        BY <3>1 DEF DeploymentOK
      <4>2. QED
        BY <4>1
    <3>3. QED
      BY <3>1, <3>2 DEF DeploymentOK, DeploymentsReadable
  <2>3. QED
    BY <2>1, <2>2 DEF FileReadable
<1>2. QED
  BY <1>1, FileInvariance, PTL

\* RefinesReleaseLog: the state file, read and written as a whole by commands
\* that hold the lock or not, implements the log of releases and deployments.
THEOREM FileIsALog == Spec => RefinesReleaseLog
<1>1. Init => Log!Init
  BY DEF Init, Log!Init
<1>2. FInv /\ [Next]_vars => [Log!Next]_(Log!vars)
  BY FileStep DEF LogStep
<1>3. QED
  BY <1>1, <1>2, FileInvariance, PTL DEF Spec, RefinesReleaseLog, Log!Spec
=============================================================================
