------------------------ MODULE SharedWorkflowProofs ------------------------
(***************************************************************************)
(* Theorems about SharedWorkflow, for every number of processes, commands, *)
(* faults and expiring tokens, and for any commands beside each other.     *)
(*                                                                         *)
(* There are two inductive invariants.  TInv is about the tables of the    *)
(* control plane and what a command has of them: which rows its numbers    *)
(* name, and how far on its list of stages it is when a release of it, or  *)
(* a deployment of that release, exists.  SInv is about the session: with  *)
(* one command at a time, what is on the disk beside what the process has  *)
(* in memory.                                                              *)
(***************************************************************************)
EXTENDS SharedWorkflow, TLAPS, SequenceTheorems, FiniteSetTheorems, WellFoundedInduction

-----------------------------------------------------------------------------
(* The invariant of the tables *)

Table(t) == t \in Seq(Range(t))

IsServer(s) ==
  DOMAIN s = {"users", "drawn", "claims", "claimed", "grants", "orgs", "projects", "envs",
              "releases", "deployments", "diagnoses", "boot", "node"}

TablesOK(s) ==
  /\ IsServer(s) /\ s.drawn \in Nat
  /\ Table(s.grants) /\ Table(s.orgs) /\ Table(s.projects) /\ Table(s.envs)
  /\ Table(s.releases) /\ Table(s.deployments)
  /\ \A g \in DOMAIN s.grants : /\ {"user", "gen", "live"} \subseteq DOMAIN s.grants[g]
                                /\ s.grants[g].gen \in Nat
  /\ \A o \in DOMAIN s.orgs : "owner" \in DOMAIN s.orgs[o]
  /\ \A r \in DOMAIN s.projects : "org" \in DOMAIN s.projects[r]

\* A project that exists, in an organization that exists.
ProjectOK(s, r) == r \in DOMAIN s.projects /\ s.projects[r].org \in DOMAIN s.orgs

\* Every release is of another command, and of a project that exists.
ReleasesOK(s, n) ==
  /\ \A r \in DOMAIN s.releases :
       s.releases[r].cmd \in 1..n /\ ProjectOK(s, s.releases[r].project)
  /\ \A r, q \in DOMAIN s.releases : s.releases[r].cmd = s.releases[q].cmd => r = q

\* Every deployment has the token of its release's command, and no two have one.
DeploymentsOK(s) ==
  /\ \A d \in DOMAIN s.deployments :
       /\ {"release", "token", "env"} \subseteq DOMAIN s.deployments[d]
       /\ s.deployments[d].release \in DOMAIN s.releases
       /\ s.deployments[d].token = s.releases[s.deployments[d].release].cmd
  /\ \A d, c \in DOMAIN s.deployments :
       s.deployments[d].token = s.deployments[c].token => d = c

ServerOK(s, n) == TablesOK(s) /\ ReleasesOK(s, n) /\ DeploymentsOK(s)

\* What a command has of the tables.
PairsOf(s)    == [row : 0..Len(s.grants), gen : Nat]
SessionsOf(s) == [tok : PairsOf(s), anon : 0..s.drawn, org : 0..Len(s.orgs)]

IsJob(j) ==
  DOMAIN j = {"prog", "todo", "cmd", "org_in", "env_in", "mode_in", "ci", "tok", "cfg",
              "created", "org", "project", "env", "item", "again", "tries", "held", "via",
              "human", "next", "ino"}

JobTypes(j, s) ==
  /\ IsJob(j)
  /\ j.tok \in PairsOf(s) /\ j.ci \in 0..Len(s.grants) /\ j.org \in 0..Len(s.orgs)
  /\ j.project \in 0..Len(s.projects) /\ j.env \in 0..Len(s.envs)
  /\ j.held \in SessionsOf(s) /\ j.next \in SessionsOf(s)

\* The stages that look at the one after them, and those of a deploy before its
\* release.
Seeking      == {"org", "project", "env", "make_org", "inspect"}
DeployStages == {"auth_create", "load", "target", "remember", "write_config", "image"}

StagesOK(t) == Table(t) /\ t # << >> /\ t[Len(t)] \notin Seeking

\* The stages of a command that releases nothing.
Plain(t) == \A i \in DOMAIN t : t[i] \notin {"release", "publish", "poll"}

\* Those of a deploy that has not made its release yet.
Late(t) ==
  /\ Len(t) >= 3 /\ t[Len(t) - 2] = "release" /\ t[Len(t) - 1] = "publish" /\ t[Len(t)] = "poll"
  /\ \A i \in 1..(Len(t) - 3) : t[i] \in DeployStages
Before(t)    == t = Deploy \/ Late(t)
Releasing(t) == t = <<"publish", "poll">>
Polling(t)   == t = <<"poll">>
Resolved(t)  == Late(t) /\ \A i \in DOMAIN t : t[i] # "target"

\* The deployment of a command is in the environment it has resolved.
InItsEnv(j, s) ==
  \A d \in DOMAIN s.deployments :
    s.deployments[d].token = j.cmd => s.deployments[d].env = j.env

\* A command with the stages t before it.
Placed(t, j, s) ==
  /\ StagesOK(t)
  /\ Plain(t) \/ Before(t) \/ Releasing(t) \/ Polling(t)
  /\ Before(t) => \A r \in DOMAIN s.releases : s.releases[r].cmd # j.cmd
  /\ Resolved(t) => ProjectOK(s, j.project)
  /\ Releasing(t) => j.item \in DOMAIN s.releases /\ s.releases[j.item].cmd = j.cmd
  /\ Polling(t) => j.item \in DOMAIN s.deployments /\ s.deployments[j.item].token = j.cmd
  /\ Releasing(t) \/ Polling(t) => InItsEnv(j, s)

JobOK(j, s, n) == JobTypes(j, s) /\ j.cmd \in 1..n /\ Placed(j.todo, j, s)

DiskOK(d, s) ==
  d = [ino |-> d.ino, data |-> d.data] /\ d.ino \in Nat
    /\ d.data \in {None, Torn} \cup SessionsOf(s)

Steps == {"idle", "run", "refresh", "bootstrap", "persist", "truncate", "write"}

TInv ==
  /\ ServerOK(srv, commands) /\ DiskOK(disk, srv) /\ commands \in Nat
  /\ pc \in [Clis -> Steps] /\ job = [p \in Clis |-> job[p]]
  /\ \A p \in Clis : pc[p] # "idle" => JobOK(job[p], srv, commands)
  /\ \A p, q \in Clis : pc[p] # "idle" /\ pc[q] # "idle" /\ job[p].cmd = job[q].cmd => p = q

-----------------------------------------------------------------------------
(* The invariant of the session *)

\* The tokens the control plane expects next, and those of a session that no
\* request can bring back.
Fresh(t, s) == t = NoPair \/ (t.row # 0 /\ t.gen = s.grants[t.row].gen)
Dead(t, s)  == t = NoPair \/ t \in lapsed \/ (t.row # 0 /\ ~s.grants[t.row].live)

Alone == ~overlap => \A p, q \in Clis : pc[p] # "idle" /\ pc[q] # "idle" => p = q

\* A process that goes on from the session it has read does so from a file that
\* is readable.
Holding(p) == \/ pc[p] \in {"refresh", "bootstrap", "truncate"}
              \/ pc[p] = "persist" /\ job[p].via # "login"
Readable == ~overlap => \A p \in Clis : Holding(p) => ~Unreadable

\* The process that has a session the file does not have yet.
Unsaved(p) == pc[p] \in {"persist", "truncate"} /\ job[p].via = "refresh"

\* What a process at each step has, beside the file as read.
Session1(p) ==
  LET j == job[p] IN
  /\ pc[p] \in {"run", "refresh", "bootstrap"} => j.via = ""
  /\ pc[p] \in {"persist", "truncate"} /\ j.via = "login" => Stage(p) = "login"
  /\ pc[p] = "refresh" => j.held.tok = Read.tok
  /\ pc[p] = "bootstrap" => Dead(Read.tok, srv)
  /\ pc[p] = "persist" => j.via \in {"refresh", "bootstrap", "login"} /\ Fresh(j.tok, srv)
  /\ pc[p] = "truncate" => j.via \in {"", "refresh", "bootstrap", "login"}
  /\ pc[p] \in {"truncate", "write"} => Fresh(j.next.tok, srv)
  /\ pc[p] \in {"persist", "truncate"} /\ j.via = "bootstrap" => Dead(Read.tok, srv)
  /\ pc[p] = "persist" /\ j.via = "refresh" => j.tok.row = Read.tok.row
  /\ pc[p] = "truncate" /\ j.via \in {"", "refresh"} => j.next.tok.row = Read.tok.row
  /\ pc[p] = "write" => Unreadable /\ disk.ino = j.ino

SInv ==
  /\ Alone /\ Readable /\ faults \in Nat
  /\ Quiet => /\ \A p \in Clis : Session1(p)
              /\ Unreadable => \E p \in Clis : pc[p] = "write"
              /\ ~Unreadable /\ (\A p \in Clis : ~Unsaved(p)) => Fresh(Read.tok, srv)

IInv == TInv /\ SInv

-----------------------------------------------------------------------------
(* Tables *)

LEMMA OverItsRange ==
  ASSUME NEW S, NEW s \in Seq(S)
  PROVE  Table(s)
<1>1. /\ Len(s) \in Nat /\ s \in [1..Len(s) -> S] /\ DOMAIN s = 1..Len(s)
  BY LenProperties
<1>2. s \in [1..Len(s) -> Range(s)]
  BY <1>1 DEF Range
<1>3. QED
  BY <1>1, <1>2, SeqDef DEF Table

LEMMA TableFacts ==
  ASSUME NEW t, Table(t)
  PROVE  Len(t) \in Nat /\ DOMAIN t = 1..Len(t) /\ t = [i \in 1..Len(t) |-> t[i]]
BY LenProperties DEF Table

\* A function on the numbers of a table's rows is a table as long.
LEMMA SameRows ==
  ASSUME NEW t, Table(t), NEW u, DOMAIN u = DOMAIN t, u = [i \in DOMAIN u |-> u[i]]
  PROVE  Table(u) /\ Len(u) = Len(t)
<1>1. Len(t) \in Nat /\ DOMAIN u = 1..Len(t)
  BY TableFacts
<1>2. u \in [1..Len(t) -> Range(u)]
  BY <1>1 DEF Range
<1>3. u \in Seq(Range(u))
  BY <1>1, <1>2, SeqDef
<1>4. QED
  BY <1>1, <1>3, LenProperties DEF Table

LEMMA Appended ==
  ASSUME NEW t, Table(t), NEW x
  PROVE  /\ Table(Append(t, x)) /\ Len(Append(t, x)) = Len(t) + 1
         /\ DOMAIN Append(t, x) = 1..(Len(t) + 1)
         /\ \A i \in 1..Len(t) : Append(t, x)[i] = t[i]
         /\ Append(t, x)[Len(t) + 1] = x
<1> DEFINE S == Range(t) \cup {x}
<1>1. t \in Seq(S) /\ x \in S
  BY SeqMonotonic DEF Table
<1> HIDE DEF S
<1>2. /\ Append(t, x) \in Seq(S) /\ Len(Append(t, x)) = Len(t) + 1
      /\ \A i \in 1..Len(t) : Append(t, x)[i] = t[i]
      /\ Append(t, x)[Len(t) + 1] = x
  BY <1>1, AppendProperties
<1>3. QED
  BY <1>2, OverItsRange, TableFacts

\* First is the least of a set of numbers.
LEMMA FirstIsIn ==
  ASSUME NEW S, S \subseteq Nat, S # {}
  PROVE  First(S) \in S
<1>1. PICK x \in S : \A y \in S : ~(<<y, x>> \in OpToRel(<, Nat))
  BY WFMin, NatLessThanWellFounded, Zenon
<1>2. \A y \in S : ~(y < x)
  BY <1>1, Zenon DEF OpToRel
<1>3. \A y \in S : x <= y
  BY <1>2
<1>4. QED
  BY <1>3 DEF First

-----------------------------------------------------------------------------
(* The stages of the commands *)

LEMMA SeqFacts ==
  ASSUME NEW t, Table(t), t # << >>
  PROVE  /\ Len(t) \in Nat /\ Len(t) >= 1 /\ DOMAIN t = 1..Len(t) /\ Head(t) = t[1]
         /\ Table(Tail(t)) /\ Len(Tail(t)) = Len(t) - 1
         /\ DOMAIN Tail(t) = 1..(Len(t) - 1)
         /\ \A i \in 1..(Len(t) - 1) : Tail(t)[i] = t[i + 1]
         /\ Tail(t) = << >> <=> Len(t) = 1
<1>0. t \in Seq(Range(t))
  BY DEF Table
<1>1. Len(t) \in Nat /\ Len(t) >= 1 /\ DOMAIN t = 1..Len(t) /\ Head(t) = t[1]
  BY <1>0, LenProperties, EmptySeq, HeadTailProperties
<1>2. /\ Tail(t) \in Seq(Range(t)) /\ Len(Tail(t)) = Len(t) - 1
      /\ \A i \in 1..(Len(t) - 1) : Tail(t)[i] = t[i + 1]
  BY <1>0, <1>1, HeadTailProperties
<1>3. DOMAIN Tail(t) = 1..(Len(t) - 1) /\ (Tail(t) = << >> <=> Len(t) = 1)
  BY <1>1, <1>2, LenProperties, EmptySeq
<1>4. QED
  BY <1>1, <1>2, <1>3, OverItsRange

LEMMA PairIs ==
  ASSUME NEW u, Table(u), Len(u) = 2
  PROVE  u = <<u[1], u[2]>>
<1> DEFINE S == Range(u)
<1>1. u \in Seq(S) /\ DOMAIN u = 1..2
  BY TableFacts DEF Table
<1>2. u[1] \in S /\ u[2] \in S
  BY <1>1 DEF Range
<1> HIDE DEF S
<1>3. <<u[1], u[2]>> \in Seq(S)
  BY <1>2
<1>4. Len(<<u[1], u[2]>>) = 2 /\ <<u[1], u[2]>>[1] = u[1] /\ <<u[1], u[2]>>[2] = u[2]
  OBVIOUS
<1>5. \A i \in 1..2 : u[i] = <<u[1], u[2]>>[i]
  OBVIOUS
<1>6. QED
  BY <1>1, <1>3, <1>4, <1>5, SeqEqual

LEMMA TailOK ==
  ASSUME NEW t, StagesOK(t), Tail(t) # << >>
  PROVE  /\ StagesOK(Tail(t))
         /\ Plain(t) => Plain(Tail(t))
         /\ Late(t) /\ Head(t) # "release" => Late(Tail(t)) /\ (Resolved(Tail(t)) /\ Head(t) # "target" => Resolved(t))
<1>1. Table(t) /\ t # << >>
  BY DEF StagesOK
<1>2. StagesOK(Tail(t))
  BY <1>1, SeqFacts DEF StagesOK
<1>3. Plain(t) => Plain(Tail(t))
  BY <1>1, SeqFacts DEF Plain
<1>4. ASSUME Late(t), Head(t) # "release"
      PROVE  Late(Tail(t)) /\ (Resolved(Tail(t)) /\ Head(t) # "target" => Resolved(t))
  <2>1. Len(t) \in Nat /\ Len(t) > 3
    BY <1>1, <1>4, SeqFacts DEF Late
  <2>2. Late(Tail(t))
    BY <1>1, <1>4, <2>1, SeqFacts DEF Late
  <2>3. ASSUME Resolved(Tail(t)), Head(t) # "target", NEW i \in DOMAIN t
        PROVE  t[i] # "target"
    <3>1. CASE i = 1
      BY <1>1, <2>3, <3>1, SeqFacts
    <3>2. CASE i # 1
      <4>1. i - 1 \in DOMAIN Tail(t) /\ Tail(t)[i - 1] = t[i]
        BY <1>1, <3>2, SeqFacts
      <4>2. QED
        BY <2>3, <4>1 DEF Resolved
    <3>3. QED
      BY <3>1, <3>2
  <2>4. QED
    BY <1>4, <2>2, <2>3 DEF Resolved
<1>5. QED
  BY <1>2, <1>3, <1>4

\* A stage that is none of a deploy's is one of a plain command.
LEMMA StageIsPlain ==
  ASSUME NEW t, StagesOK(t), Plain(t) \/ Before(t) \/ Releasing(t) \/ Polling(t),
         Head(t) \notin DeployStages \cup {"inspect", "release", "publish", "poll"}
  PROVE  Plain(t)
<1>1. Table(t) /\ t # << >>
  BY DEF StagesOK
<1>2. ~Releasing(t) /\ ~Polling(t) /\ t # Deploy
  BY <1>1, SeqFacts DEF Releasing, Polling, Deploy
<1>3. ~Late(t)
  <2> SUFFICES ASSUME Late(t) PROVE FALSE
    OBVIOUS
  <2>1. CASE Len(t) = 3
    BY <1>1, <2>1, SeqFacts DEF Late
  <2>2. CASE Len(t) # 3
    BY <1>1, <2>2, SeqFacts DEF Late
  <2>3. QED
    BY <2>1, <2>2
<1>4. QED
  BY <1>2, <1>3 DEF Before

\* What the stages of a deploy are when it reaches its release, and after it.
LEMMA AtRelease ==
  ASSUME NEW t, StagesOK(t), Plain(t) \/ Before(t) \/ Releasing(t) \/ Polling(t)
  PROVE  /\ Head(t) = "release" => Late(t) /\ Resolved(t) /\ Releasing(Tail(t))
         /\ Head(t) = "publish" => Releasing(t) /\ Tail(t) = <<"poll">>
<1>1. Table(t) /\ t # << >>
  BY DEF StagesOK
<1>2. ASSUME Head(t) = "release"
      PROVE  Late(t) /\ Resolved(t) /\ Releasing(Tail(t))
  <2>1. ~Plain(t) /\ ~Releasing(t) /\ ~Polling(t) /\ t # Deploy
    BY <1>1, <1>2, SeqFacts DEF Plain, Releasing, Polling, Deploy
  <2>2. Late(t)
    BY <2>1 DEF Before
  <2>a. Len(t) \in Nat /\ t[1] = "release" /\ "release" \notin DeployStages
    BY <1>1, <1>2, SeqFacts DEF DeployStages
  <2>b. ~(1 \in 1..(Len(t) - 3))
    BY <2>2, <2>a DEF Late
  <2>c. Len(t) = 3
    <3>1. Len(t) >= 3
      BY <2>2 DEF Late
    <3>2. \A m \in Nat : m >= 3 /\ ~(1 \in 1..(m - 3)) => m = 3
      OBVIOUS
    <3>3. QED
      BY <2>a, <2>b, <3>1, <3>2, Zenon
  <2>3. t[2] = "publish" /\ t[3] = "poll"
    BY <2>2, <2>c DEF Late
  <2>4. Resolved(t)
    <3>1. DOMAIN t = 1..3
      BY <1>1, <2>c, SeqFacts
    <3>2. \A i \in 1..3 : t[i] # "target"
      BY <2>3, <2>a
    <3>3. QED
      BY <2>2, <3>1, <3>2 DEF Resolved
  <2>5. /\ Table(Tail(t)) /\ Len(Tail(t)) = 2
        /\ Tail(t)[1] = "publish" /\ Tail(t)[2] = "poll"
    <3>1. /\ Table(Tail(t)) /\ Len(Tail(t)) = Len(t) - 1
          /\ \A i \in 1..(Len(t) - 1) : Tail(t)[i] = t[i + 1]
      BY <1>1, SeqFacts
    <3>2. Tail(t)[1] = t[1 + 1] /\ Tail(t)[2] = t[2 + 1]
      BY <2>c, <3>1
    <3>3. QED
      BY <2>3, <2>c, <3>1, <3>2
  <2>7. Tail(t) = <<"publish", "poll">>
    BY <2>5, PairIs
  <2>8. QED
    BY <2>2, <2>4, <2>7 DEF Releasing
<1>3. ASSUME Head(t) = "publish"
      PROVE  Releasing(t) /\ Tail(t) = <<"poll">>
  <2>1. ~Plain(t) /\ ~Polling(t) /\ t # Deploy
    BY <1>1, <1>3, SeqFacts DEF Plain, Polling, Deploy
  <2>2. ~Late(t)
    BY <1>1, <1>3, SeqFacts DEF Late, DeployStages
  <2>3. Releasing(t)
    BY <2>1, <2>2 DEF Before
  <2>4. QED
    BY <2>3 DEF Releasing
<1>4. QED
  BY <1>2, <1>3

LEMMA AtPoll ==
  ASSUME NEW t, StagesOK(t), Plain(t) \/ Before(t) \/ Releasing(t) \/ Polling(t),
         Head(t) = "poll"
  PROVE  Polling(t)
<1>1. Table(t) /\ t # << >>
  BY DEF StagesOK
<1>2. ~Plain(t) /\ ~Releasing(t) /\ t # Deploy
  BY <1>1, SeqFacts DEF Plain, Releasing, Deploy
<1>3. ~Late(t)
  BY <1>1, SeqFacts DEF Late, DeployStages
<1>4. QED
  BY <1>2, <1>3 DEF Before

\* Every stage of every command.
Stages == LocalStages \cup RetriedStages \cup Seeking \cup
  {"make_project", "make_env", "delete_env", "delete_project", "read", "secret_set",
   "secret_delete", "assign", "unassign", "delete_node", "diagnose", "poll_diagnose",
   "claim", "token_create", "token_revoke", "registry", "ingress"}

LEMMA PollOK ==
  /\ StagesOK(<<"poll">>) /\ ~Before(<<"poll">>) /\ ~Releasing(<<"poll">>)
  /\ StagesOK(<<"publish", "poll">>) /\ ~Before(<<"publish", "poll">>)
  /\ ~Polling(<<"publish", "poll">>)
<1>1. <<"poll">> \in Seq({"publish", "poll"}) /\ <<"publish", "poll">> \in Seq({"publish", "poll"})
  OBVIOUS
<1>2. Table(<<"poll">>) /\ Table(<<"publish", "poll">>)
  BY <1>1, OverItsRange
<1>3. ~Late(<<"poll">>) /\ ~Late(<<"publish", "poll">>)
  BY DEF Late
<1>4. /\ Len(<<"poll">>) = 1 /\ Len(<<"publish", "poll">>) = 2 /\ Len(Deploy) = 8
  BY DEF Deploy
<1>5. StagesOK(<<"poll">>) /\ StagesOK(<<"publish", "poll">>)
  BY <1>2 DEF StagesOK, Seeking
<1>6. QED
  BY <1>3, <1>4, <1>5 DEF Before, Releasing, Polling

LEMMA PlainIsNone ==
  ASSUME NEW t, StagesOK(t), Plain(t)
  PROVE  ~Before(t) /\ ~Resolved(t) /\ ~Releasing(t) /\ ~Polling(t)
<1>1. Table(t) /\ t # << >> /\ Len(t) \in Nat /\ DOMAIN t = 1..Len(t)
  BY SeqFacts DEF StagesOK
<1>2. ~Late(t)
  <2>1. Late(t) => Len(t) - 2 \in DOMAIN t
    BY <1>1 DEF Late
  <2>2. QED
    BY <2>1 DEF Late, Plain
<1>3. ~Releasing(t) /\ ~Polling(t)
  BY DEF Releasing, Polling, Plain
<1>4. t # Deploy
  <2>1. Deploy[6] = "release" /\ 6 \in DOMAIN Deploy
    BY DEF Deploy
  <2>2. QED
    BY <2>1 DEF Plain
<1>5. QED
  BY <1>2, <1>3, <1>4 DEF Before, Resolved

\* Stages put before others.
LEMMA PutBefore ==
  ASSUME NEW a, NEW b, Table(a), Table(b), Plain(a), Plain(b)
  PROVE  Table(a \o b) /\ Plain(a \o b) /\ (StagesOK(b) => StagesOK(a \o b))
<1> DEFINE S == Range(a) \cup Range(b)
           c == a \o b
<1>1. a \in Seq(S) /\ b \in Seq(S)
  BY SeqMonotonic DEF Table
<1> HIDE DEF S
<1>2. Len(a) \in Nat /\ DOMAIN a = 1..Len(a) /\ Len(b) \in Nat /\ DOMAIN b = 1..Len(b)
  BY TableFacts
<1>3. /\ c \in Seq(S) /\ Len(c) = Len(a) + Len(b)
      /\ \A i \in 1..(Len(a) + Len(b)) : c[i] = IF i <= Len(a) THEN a[i] ELSE b[i - Len(a)]
  BY <1>1, ConcatProperties
<1> HIDE DEF c
<1>4. Table(c) /\ DOMAIN c = 1..(Len(a) + Len(b))
  BY <1>3, OverItsRange, TableFacts
<1>5. ASSUME StagesOK(b) PROVE StagesOK(c)
  <2>1. Len(b) >= 1 /\ b[Len(b)] \notin Seeking
    BY <1>5, SeqFacts DEF StagesOK
  <2>2. c[Len(c)] = b[Len(b)] /\ c # << >>
    BY <1>2, <1>3, <2>1
  <2>3. QED
    BY <1>4, <2>1, <2>2 DEF StagesOK
<1>6. ASSUME NEW i \in 1..(Len(a) + Len(b))
      PROVE  c[i] \notin {"release", "publish"}
  <2>1. CASE i <= Len(a)
    BY <1>2, <1>3, <2>1 DEF Plain
  <2>2. CASE ~(i <= Len(a))
    <3>1. i - Len(a) \in 1..Len(b)
      BY <1>2, <2>2
    <3>2. c[i] = b[i - Len(a)]
      BY <1>3, <2>2
    <3>3. QED
      BY <1>2, <3>1, <3>2 DEF Plain
  <2>3. QED
    BY <2>1, <2>2
<1>7. QED
  BY <1>4, <1>5, <1>6 DEF Plain, c

\* Deploy is the only command that releases.
LEMMA ProgramsOK ==
  ASSUME NEW prog \in Programs
  PROVE  StagesOK(prog) /\ (prog = Deploy \/ Plain(prog))
<1> DEFINE Fine(t) == StagesOK(t) /\ Plain(t)
           Open(t) == Table(t) /\ Plain(t)
<1> USE DEF Seeking, LocalStages, RetriedStages, Stages
<1>1. /\ Fine(Login) /\ Fine(Logout) /\ Fine(ModeUse) /\ Fine(NodeList)
      /\ Fine(NodeUnassign) /\ Fine(NodeDelete) /\ Fine(NodeDiagnose)
      /\ Fine(RegisterUnassigned)
  <2>1. /\ Login \in Seq(Stages) /\ Logout \in Seq(Stages) /\ ModeUse \in Seq(Stages)
        /\ NodeList \in Seq(Stages) /\ NodeUnassign \in Seq(Stages)
        /\ NodeDelete \in Seq(Stages) /\ NodeDiagnose \in Seq(Stages)
        /\ RegisterUnassigned \in Seq(Stages)
    BY DEF Login, Logout, ModeUse, NodeList, NodeUnassign, NodeDelete, NodeDiagnose,
           RegisterUnassigned
  <2>2. /\ Table(Login) /\ Table(Logout) /\ Table(ModeUse) /\ Table(NodeList)
        /\ Table(NodeUnassign) /\ Table(NodeDelete) /\ Table(NodeDiagnose)
        /\ Table(RegisterUnassigned)
    BY <2>1, OverItsRange
  <2>3. QED
    BY <2>2 DEF StagesOK, Plain, Login, Logout, ModeUse, NodeList, NodeUnassign, NodeDelete, NodeDiagnose,
           RegisterUnassigned
<1>2. /\ Fine(Claim) /\ Fine(TokenCreate) /\ Fine(TokenList) /\ Fine(TokenRevoke)
      /\ Fine(OrganizationList) /\ Fine(OrganizationUse) /\ Fine(OrganizationRegistryShow)
      /\ Fine(OrganizationRegistrySet) /\ Fine(ProjectList) /\ Fine(ProjectCreate)
      /\ Fine(ProjectUse) /\ Fine(EnvironmentUse)
  <2>1. /\ Claim \in Seq(Stages) /\ TokenCreate \in Seq(Stages) /\ TokenList \in Seq(Stages)
        /\ TokenRevoke \in Seq(Stages) /\ OrganizationList \in Seq(Stages)
        /\ OrganizationUse \in Seq(Stages) /\ OrganizationRegistryShow \in Seq(Stages)
        /\ OrganizationRegistrySet \in Seq(Stages) /\ ProjectList \in Seq(Stages)
        /\ ProjectCreate \in Seq(Stages) /\ ProjectUse \in Seq(Stages)
        /\ EnvironmentUse \in Seq(Stages)
    BY DEF Claim, TokenCreate, TokenList, TokenRevoke, OrganizationList, OrganizationUse,
           OrganizationRegistryShow, OrganizationRegistrySet, ProjectList, ProjectCreate,
           ProjectUse, EnvironmentUse
  <2>2. /\ Table(Claim) /\ Table(TokenCreate) /\ Table(TokenList) /\ Table(TokenRevoke)
        /\ Table(OrganizationList) /\ Table(OrganizationUse)
        /\ Table(OrganizationRegistryShow) /\ Table(OrganizationRegistrySet)
        /\ Table(ProjectList) /\ Table(ProjectCreate) /\ Table(ProjectUse)
        /\ Table(EnvironmentUse)
    BY <2>1, OverItsRange
  <2>3. QED
    BY <2>2 DEF StagesOK, Plain, Claim, TokenCreate, TokenList, TokenRevoke, OrganizationList, OrganizationUse,
           OrganizationRegistryShow, OrganizationRegistrySet, ProjectList, ProjectCreate,
           ProjectUse, EnvironmentUse
<1>3. StagesOK(Deploy)
  <2>1. Deploy \in Seq(Stages)
    BY DEF Deploy
  <2>2. Table(Deploy)
    BY <2>1, OverItsRange
  <2>3. QED
    BY <2>2 DEF StagesOK, Deploy
<1>4. /\ Fine(<<"delete_env">>) /\ Fine(<<"read">>) /\ Fine(<<"assign">>)
      /\ Fine(<<"boot_token">>) /\ Fine(<<"server", "install">>)
      /\ Fine(<<"delete_project">>) /\ Fine(<<"make_env">>) /\ Fine(<<"ingress">>)
      /\ Fine(<<"has_service", "secret_set", "set_ref">>)
      /\ Fine(<<"has_service", "secret_delete", "drop_ref">>) /\ Fine(initializeWorkspace)
  <2>1. /\ <<"delete_env">> \in Seq(Stages) /\ <<"read">> \in Seq(Stages)
        /\ <<"assign">> \in Seq(Stages) /\ <<"boot_token">> \in Seq(Stages)
        /\ <<"server", "install">> \in Seq(Stages) /\ <<"delete_project">> \in Seq(Stages)
        /\ <<"make_env">> \in Seq(Stages) /\ <<"ingress">> \in Seq(Stages)
        /\ <<"has_service", "secret_set", "set_ref">> \in Seq(Stages)
        /\ <<"has_service", "secret_delete", "drop_ref">> \in Seq(Stages)
        /\ initializeWorkspace \in Seq(Stages)
    BY DEF initializeWorkspace
  <2>2. /\ Table(<<"delete_env">>) /\ Table(<<"read">>) /\ Table(<<"assign">>)
        /\ Table(<<"boot_token">>) /\ Table(<<"server", "install">>)
        /\ Table(<<"delete_project">>) /\ Table(<<"make_env">>) /\ Table(<<"ingress">>)
        /\ Table(<<"has_service", "secret_set", "set_ref">>)
        /\ Table(<<"has_service", "secret_delete", "drop_ref">>)
        /\ Table(initializeWorkspace)
    BY <2>1, OverItsRange
  <2>3. QED
    BY <2>2 DEF StagesOK, Plain, initializeWorkspace
<1>5. /\ Open(<<"mode", "auth">>) /\ Open(<<"auth">>) /\ Open(resolveWorkspace)
      /\ Open(resolveProject) /\ Open(resolveWorkspaceCreating)
      /\ Open(<<"mode", "auth", "inspect">>) /\ Open(<<"mode_use", "auth_create">>)
  <2>1. /\ <<"mode", "auth">> \in Seq(Stages) /\ <<"auth">> \in Seq(Stages)
        /\ resolveWorkspace \in Seq(Stages) /\ resolveProject \in Seq(Stages)
        /\ resolveWorkspaceCreating \in Seq(Stages)
        /\ <<"mode", "auth", "inspect">> \in Seq(Stages)
        /\ <<"mode_use", "auth_create">> \in Seq(Stages)
    BY DEF resolveWorkspace, resolveProject, resolveWorkspaceCreating
  <2>2. /\ Table(<<"mode", "auth">>) /\ Table(<<"auth">>) /\ Table(resolveWorkspace)
        /\ Table(resolveProject) /\ Table(resolveWorkspaceCreating)
        /\ Table(<<"mode", "auth", "inspect">>) /\ Table(<<"mode_use", "auth_create">>)
    BY <2>1, OverItsRange
  <2>3. QED
    BY <2>2 DEF Plain, resolveWorkspace, resolveProject, resolveWorkspaceCreating
<1> HIDE DEF Seeking, LocalStages, RetriedStages, Stages
<1>6. /\ \A a, b : Open(a) /\ Open(b) => Open(a \o b)
      /\ \A a, b : Open(a) /\ Fine(b) => Fine(a \o b)
  BY PutBefore DEF StagesOK
<1> HIDE DEF Fine, Open
<1>7. /\ Open(<<"mode", "auth">> \o resolveWorkspace) /\ Open(<<"auth">> \o resolveProject)
      /\ Open(<<"auth">> \o resolveWorkspace)
      /\ Open(<<"mode", "auth", "inspect">> \o resolveWorkspaceCreating)
  BY <1>5, <1>6
<1>8. /\ Fine(InitWorkspace) /\ Fine(Delete) /\ Fine(Status) /\ Fine(SecretList)
      /\ Fine(SecretSet) /\ Fine(SecretDelete) /\ Fine(NodeAssign) /\ Fine(NodeBootstrap)
  BY <1>4, <1>5, <1>6, <1>7, Zenon DEF InitWorkspace, Delete, Status, SecretList, SecretSet,
     SecretDelete, NodeAssign, NodeBootstrap
<1>9. /\ Fine(ProjectDelete) /\ Fine(EnvironmentList) /\ Fine(EnvironmentCreate)
      /\ Fine(EnvironmentIngress) /\ Fine(SharedSoloNodeCreate)
  <2>1. Open(NodeBootstrap)
    BY <1>8 DEF Fine, Open, StagesOK
  <2>2. QED
    BY <1>4, <1>5, <1>6, <1>7, <2>1, Zenon DEF ProjectDelete, EnvironmentList, EnvironmentCreate,
       EnvironmentIngress, SharedSoloNodeCreate
<1>10. prog = Deploy \/ Fine(prog)
  BY <1>1, <1>2, <1>8, <1>9 DEF Programs
<1>11. QED
  BY <1>3, <1>10 DEF Fine

\* What is left of a list of stages from its k-th on.
LEMMA CutOK ==
  ASSUME NEW t, Table(t), NEW k \in Nat, k > 0
  PROVE  LET c == SubSeq(t, k, Len(t)) IN
         /\ Table(c) /\ Len(c) = IF k <= Len(t) THEN Len(t) - k + 1 ELSE 0
         /\ \A i \in 1..(Len(t) - k + 1) : c[i] = t[k + i - 1]
         /\ k > Len(t) => c = << >>
         /\ Plain(t) => Plain(c)
         /\ StagesOK(t) /\ k <= Len(t) => StagesOK(c)
<1> DEFINE c == SubSeq(t, k, Len(t))
<1>1. Len(t) \in Nat /\ DOMAIN t = 1..Len(t)
  BY TableFacts
<1>2. \A i \in k..Len(t) : t[i] \in Range(t)
  BY <1>1 DEF Range
<1>3. /\ c \in Seq(Range(t)) /\ Len(c) = IF k <= Len(t) THEN Len(t) - k + 1 ELSE 0
      /\ \A i \in 1..(Len(t) - k + 1) : c[i] = t[k + i - 1]
  BY <1>1, <1>2, SubSeqProperties
<1>4. Table(c) /\ DOMAIN c = 1..Len(c)
  BY <1>3, OverItsRange, TableFacts
<1>5. k > Len(t) => c = << >>
  BY <1>1, SubSeqEmpty
<1> HIDE DEF c
<1>6. ASSUME Plain(t) PROVE Plain(c)
  <2> SUFFICES ASSUME NEW i \in DOMAIN c PROVE c[i] \notin {"release", "publish", "poll"}
    BY DEF Plain
  <2>1. i \in 1..(Len(t) - k + 1) /\ k + i - 1 \in DOMAIN t
    BY <1>1, <1>3, <1>4
  <2>2. QED
    BY <1>3, <1>6, <2>1 DEF Plain
<1>7. ASSUME StagesOK(t), k <= Len(t) PROVE StagesOK(c)
  <2>1. Len(c) = Len(t) - k + 1 /\ Len(c) \in 1..(Len(t) - k + 1) /\ c # << >>
    BY <1>1, <1>3, <1>7
  <2>2. c[Len(c)] = t[k + Len(c) - 1] /\ k + Len(c) - 1 = Len(t)
    BY <1>1, <1>3, <2>1
  <2>3. QED
    BY <1>4, <1>7, <2>1, <2>2 DEF StagesOK
<1>8. QED
  BY <1>3, <1>4, <1>5, <1>6, <1>7 DEF c

LEMMA JoinIs ==
  ASSUME NEW S, NEW a \in Seq(S), NEW b \in Seq(S)
  PROVE  /\ a \o b \in Seq(S) /\ Len(a \o b) = Len(a) + Len(b)
         /\ \A i \in 1..Len(a) : (a \o b)[i] = a[i]
         /\ \A i \in 1..Len(b) : (a \o b)[Len(a) + i] = b[i]
<1> DEFINE c == a \o b
<1>1. /\ c \in Seq(S) /\ Len(c) = Len(a) + Len(b) /\ Len(a) \in Nat /\ Len(b) \in Nat
      /\ \A i \in 1..(Len(a) + Len(b)) : c[i] = IF i <= Len(a) THEN a[i] ELSE b[i - Len(a)]
  BY ConcatProperties, LenProperties
<1> HIDE DEF c
<1>2. ASSUME NEW i \in 1..Len(b) PROVE c[Len(a) + i] = b[i]
  <2>1. Len(a) + i \in 1..(Len(a) + Len(b)) /\ ~(Len(a) + i <= Len(a)) /\ (Len(a) + i) - Len(a) = i
    BY <1>1
  <2>2. QED
    BY <1>1, <2>1
<1>3. QED
  BY <1>1, <1>2 DEF c

\* What a deploy does next, with a devopsellence.yml or without.
LEMMA DeployInspects ==
  /\ Tail(Deploy) # << >> /\ StagesOK(Tail(Deploy)) /\ Late(Tail(Deploy)) /\ ~Resolved(Tail(Deploy))
  /\ Instead(Tail(Deploy)) # << >> /\ StagesOK(Instead(Tail(Deploy)))
  /\ Late(Instead(Tail(Deploy))) /\ ~Resolved(Instead(Tail(Deploy)))
<1> DEFINE t == <<"auth_create", "target", "remember", "image", "release", "publish", "poll">>
           a == <<"auth_create">>
           b == a \o initializeWorkspace
           c == SubSeq(t, 4, Len(t))
           u == b \o c
<1>1. Tail(Deploy) = t
  BY DEF Deploy
<1>2. t \in Seq(Stages) /\ a \in Seq(Stages) /\ initializeWorkspace \in Seq(Stages)
  BY DEF Stages, LocalStages, RetriedStages, initializeWorkspace
<1>3. Table(t)
  BY <1>2, OverItsRange
<1>4. Late(t) /\ ~Resolved(t) /\ t # << >> /\ StagesOK(t)
  <2>1. Late(t)
    BY DEF Late, DeployStages
  <2>2. t[2] = "target" /\ 2 \in DOMAIN t
    OBVIOUS
  <2>3. QED
    BY <1>3, <2>1, <2>2 DEF Resolved, StagesOK, Seeking
<1>5. /\ b \in Seq(Stages) /\ Len(b) = 5 /\ \A i \in 1..5 : b[i] \in DeployStages
      /\ b[3] = "target"
  <2>1. /\ Len(a) = 1 /\ Len(initializeWorkspace) = 4 /\ a[1] \in DeployStages
        /\ \A i \in 1..4 : initializeWorkspace[i] \in DeployStages
        /\ initializeWorkspace[2] = "target"
    BY DEF initializeWorkspace, DeployStages
  <2> HIDE DEF a, b
  <2>2. /\ b \in Seq(Stages) /\ Len(b) = Len(a) + Len(initializeWorkspace)
        /\ \A i \in 1..Len(a) : b[i] = a[i]
        /\ \A i \in 1..Len(initializeWorkspace) : b[Len(a) + i] = initializeWorkspace[i]
    BY <1>2, JoinIs DEF b
  <2>3. /\ b \in Seq(Stages) /\ Len(b) = 1 + 4 /\ \A i \in 1..1 : b[i] = a[i]
        /\ \A i \in 1..4 : b[1 + i] = initializeWorkspace[i]
    BY <2>1, <2>2
  <2>4. b[1 + 2] = "target"
    BY <2>1, <2>3
  <2>5. ASSUME NEW i \in 1..5 PROVE b[i] \in DeployStages
    <3>1. CASE i = 1
      BY <2>1, <2>3, <3>1
    <3>2. CASE i # 1
      <4>1. i - 1 \in 1..4 /\ 1 + (i - 1) = i
        BY <3>2
      <4>2. QED
        BY <2>1, <2>3, <4>1
    <3>3. QED
      BY <3>1, <3>2
  <2>6. QED
    BY <2>3, <2>4, <2>5
<1>6. /\ c \in Seq(Stages) /\ Len(c) = 4
      /\ c[1] = "image" /\ c[2] = "release" /\ c[3] = "publish" /\ c[4] = "poll"
  <2>1. Len(t) = 7 /\ \A i \in 4..7 : t[i] \in Stages
    BY <1>2
  <2>2. /\ c \in Seq(Stages) /\ Len(c) = IF 4 <= 7 THEN 7 - 4 + 1 ELSE 0
        /\ \A i \in 1..(7 - 4 + 1) : c[i] = t[4 + i - 1]
    BY <2>1, SubSeqProperties
  <2>3. c[1] = t[4 + 1 - 1] /\ c[2] = t[4 + 2 - 1] /\ c[3] = t[4 + 3 - 1] /\ c[4] = t[4 + 4 - 1]
    BY <2>2
  <2>4. QED
    BY <2>2, <2>3
<1> HIDE DEF b, c
<1>7. /\ u \in Seq(Stages) /\ Len(u) = 9 /\ \A i \in 1..5 : u[i] = b[i]
      /\ u[6] = c[1] /\ u[7] = c[2] /\ u[8] = c[3] /\ u[9] = c[4]
  <2> HIDE DEF u
  <2>1. /\ u \in Seq(Stages) /\ Len(u) = Len(b) + Len(c) /\ \A i \in 1..Len(b) : u[i] = b[i]
        /\ \A i \in 1..Len(c) : u[Len(b) + i] = c[i]
    <3>1. b \in Seq(Stages) /\ c \in Seq(Stages)
      BY <1>5, <1>6
    <3>2. QED
      BY <3>1, JoinIs DEF u
  <2>a. Len(b) = 5 /\ Len(c) = 4
    BY <1>5, <1>6
  <2>2. /\ u \in Seq(Stages) /\ Len(u) = 5 + 4 /\ \A i \in 1..5 : u[i] = b[i]
        /\ \A i \in 1..4 : u[5 + i] = c[i]
    BY <2>1, <2>a
  <2>3. u[5 + 1] = c[1] /\ u[5 + 2] = c[2] /\ u[5 + 3] = c[3] /\ u[5 + 4] = c[4]
    BY <2>2
  <2>4. QED
    BY <2>2, <2>3
<1> HIDE DEF u
<1>8. Late(u) /\ ~Resolved(u) /\ u # << >> /\ StagesOK(u)
  <2>1. \A i \in 1..6 : u[i] \in DeployStages
    <3>1. \A i \in 1..5 : u[i] \in DeployStages
      BY <1>5, <1>7
    <3>2. u[6] \in DeployStages
      BY <1>6, <1>7 DEF DeployStages
    <3>3. QED
      BY <3>1, <3>2
  <2>2. Late(u)
    BY <1>6, <1>7, <2>1 DEF Late
  <2>3. u[3] = "target" /\ 3 \in DOMAIN u
    BY <1>5, <1>7, LenProperties
  <2>4. Table(u)
    BY <1>7, OverItsRange
  <2>a. u # << >>
    BY <1>7
  <2>5. QED
    BY <1>6, <1>7, <2>2, <2>3, <2>4, <2>a DEF Resolved, StagesOK, Seeking
<1>9. Instead(t) \in {t, u}
  <2>1. Head(t) = "auth_create"
    OBVIOUS
  <2>2. QED
    BY <2>1, Zenon DEF Instead, u, b, c
<1>10. QED
  BY <1>1, <1>4, <1>8, <1>9

\* And what a plain command does.
LEMMA PlainInspects ==
  ASSUME NEW t, StagesOK(t), Plain(t)
  PROVE  Instead(t) # << >> /\ StagesOK(Instead(t)) /\ Plain(Instead(t))
<1> DEFINE Fine(x) == StagesOK(x) /\ Plain(x)
<1>1. Table(t) /\ Len(t) \in Nat
  BY TableFacts DEF StagesOK
<1>2. Fine(initializeWorkspace) /\ Fine(<<"auth_create">>)
  <2>1. initializeWorkspace \in Seq(Stages) /\ <<"auth_create">> \in Seq(Stages)
    BY DEF Stages, LocalStages, RetriedStages, initializeWorkspace
  <2>2. Table(initializeWorkspace) /\ Table(<<"auth_create">>)
    BY <2>1, OverItsRange
  <2>3. QED
    BY <2>2 DEF StagesOK, Plain, Seeking, initializeWorkspace
<1>3. Fine(<<"auth_create">> \o initializeWorkspace)
  BY <1>2, PutBefore DEF StagesOK
<1>4. ASSUME NEW k \in Nat, k > 0, NEW a, Fine(a)
      PROVE  Fine(a \o SubSeq(t, k, Len(t)))
  <2> DEFINE c == SubSeq(t, k, Len(t))
  <2>1. Table(a) /\ Plain(a) /\ Table(c) /\ Plain(c)
    BY <1>1, <1>4, CutOK DEF StagesOK
  <2>2. CASE k <= Len(t)
    <3>1. StagesOK(c)
      BY <1>1, <1>4, <2>2, CutOK
    <3>2. QED
      BY <2>1, <3>1, PutBefore
  <2>3. CASE ~(k <= Len(t))
    <3>1. c = << >>
      BY <1>1, <1>4, <2>3, CutOK
    <3>2. a \o << >> = a
      BY <2>1, ConcatEmptySeq DEF Table
    <3>3. QED
      BY <1>4, <3>1, <3>2
  <2>4. QED
    BY <2>2, <2>3
<1>5. Len(resolveWorkspaceCreating) = 7
  BY DEF resolveWorkspaceCreating
<1>6. /\ Fine(<<"auth_create">> \o initializeWorkspace \o SubSeq(t, 4, Len(t)))
      /\ Fine(initializeWorkspace \o SubSeq(t, Len(resolveWorkspaceCreating) + 1, Len(t)))
  BY <1>2, <1>3, <1>4, <1>5
<1> HIDE DEF Fine
<1>7. Fine(t)
  BY DEF Fine
<1>8. Fine(Instead(t))
  BY <1>6, <1>7, Zenon DEF Instead
<1>9. QED
  BY <1>8 DEF Fine, StagesOK

-----------------------------------------------------------------------------
(* What the control plane does to its tables *)

\* Rows stay, and organizations and projects keep whose they are.
Grows(s, t) ==
  /\ s.drawn <= t.drawn /\ Len(s.grants) <= Len(t.grants) /\ Len(s.orgs) <= Len(t.orgs)
  /\ Len(s.projects) <= Len(t.projects) /\ Len(s.envs) <= Len(t.envs)
  /\ \A o \in DOMAIN s.orgs : t.orgs[o].owner = s.orgs[o].owner
  /\ \A r \in DOMAIN s.projects : t.projects[r].org = s.projects[r].org

\* New releases and deployments are of the command c.
Adds(s, t, c) ==
  /\ Len(s.deployments) <= Len(t.deployments)
  /\ \A d \in DOMAIN s.deployments : /\ t.deployments[d].token = s.deployments[d].token
                                     /\ t.deployments[d].env = s.deployments[d].env
  /\ \A d \in DOMAIN t.deployments :
       d \notin DOMAIN s.deployments => t.deployments[d].token = c
  /\ Len(s.releases) <= Len(t.releases)
  /\ \A r \in DOMAIN s.releases : t.releases[r] = s.releases[r]
  /\ \A r \in DOMAIN t.releases : r \notin DOMAIN s.releases => t.releases[r].cmd = c

\* None is new; a deployment may have ended.
SameReleases(s, t) ==
  /\ t.releases = s.releases /\ DOMAIN t.deployments = DOMAIN s.deployments
  /\ \A d \in DOMAIN s.deployments : /\ t.deployments[d].token = s.deployments[d].token
                                     /\ t.deployments[d].env = s.deployments[d].env

\* Sessions are not rotated, and revoked ones not revived.
KeepsGrants(s, t) ==
  \A g \in DOMAIN s.grants : /\ t.grants[g].user = s.grants[g].user
                             /\ t.grants[g].gen = s.grants[g].gen
                             /\ t.grants[g].live => s.grants[g].live

\* A request that releases nothing and refreshes no session.
Changes(s, t) ==
  /\ TablesOK(t) /\ Grows(s, t) /\ KeepsGrants(s, t)
  /\ t.users = s.users /\ t.releases = s.releases /\ t.deployments = s.deployments

LEMMA TablesFacts ==
  ASSUME NEW s, TablesOK(s)
  PROVE  /\ s.drawn \in Nat /\ Len(s.grants) \in Nat /\ Len(s.orgs) \in Nat
         /\ Len(s.projects) \in Nat /\ Len(s.envs) \in Nat /\ Len(s.releases) \in Nat
         /\ Len(s.deployments) \in Nat
         /\ DOMAIN s.grants = 1..Len(s.grants) /\ DOMAIN s.orgs = 1..Len(s.orgs)
         /\ DOMAIN s.projects = 1..Len(s.projects) /\ DOMAIN s.envs = 1..Len(s.envs)
         /\ DOMAIN s.releases = 1..Len(s.releases)
         /\ DOMAIN s.deployments = 1..Len(s.deployments)
BY TableFacts DEF TablesOK

LEMMA GrowsSelf ==
  ASSUME NEW s, TablesOK(s), NEW c
  PROVE  Changes(s, s) /\ Grows(s, s) /\ Adds(s, s, c) /\ KeepsGrants(s, s)
BY TablesFacts DEF Changes, Grows, Adds, KeepsGrants

LEMMA GrowsTransitive ==
  ASSUME NEW s, NEW t, NEW u, TablesOK(s), Changes(s, t), Changes(t, u)
  PROVE  Changes(s, u)
<1>1. TablesOK(t) /\ TablesOK(u) /\ Grows(s, t) /\ Grows(t, u)
  BY DEF Changes
<1>2. /\ \A g \in DOMAIN s.grants : g \in DOMAIN t.grants
      /\ \A g \in DOMAIN s.orgs : g \in DOMAIN t.orgs
      /\ \A g \in DOMAIN s.projects : g \in DOMAIN t.projects
  BY <1>1, TablesFacts DEF Grows
<1>3. Grows(s, u)
  <2>1. /\ s.drawn <= u.drawn /\ Len(s.grants) <= Len(u.grants) /\ Len(s.orgs) <= Len(u.orgs)
        /\ Len(s.projects) <= Len(u.projects) /\ Len(s.envs) <= Len(u.envs)
    <3>1. \A x \in {s, t, u} : /\ x.drawn \in Nat /\ Len(x.grants) \in Nat /\ Len(x.orgs) \in Nat
                               /\ Len(x.projects) \in Nat /\ Len(x.envs) \in Nat
      BY <1>1, TablesFacts
    <3>2. \A a, b, c \in Nat : a <= b /\ b <= c => a <= c
      OBVIOUS
    <3>3. QED
      BY <1>1, <3>1, <3>2, Zenon DEF Grows
  <2>2. \A o \in DOMAIN s.orgs : u.orgs[o].owner = s.orgs[o].owner
    BY <1>1, <1>2 DEF Grows
  <2>3. \A r \in DOMAIN s.projects : u.projects[r].org = s.projects[r].org
    BY <1>1, <1>2 DEF Grows
  <2>4. QED
    BY <2>1, <2>2, <2>3 DEF Grows
<1>4. KeepsGrants(s, u)
  BY <1>2 DEF KeepsGrants, Changes
<1>5. QED
  BY <1>1, <1>3, <1>4 DEF Changes

LEMMA ServerChanges ==
  ASSUME NEW s, NEW t, NEW n, ServerOK(s, n), TablesOK(t), Grows(s, t),
         t.releases = s.releases, t.deployments = s.deployments
  PROVE  ServerOK(t, n)
<1>1. TablesOK(s)
  BY DEF ServerOK
<1>2. ASSUME NEW r, ProjectOK(s, r)
      PROVE  /\ ProjectOK(t, r)
             /\ t.orgs[t.projects[r].org].owner = s.orgs[s.projects[r].org].owner
  <2>1. r \in DOMAIN s.projects /\ s.projects[r].org \in DOMAIN s.orgs
    BY <1>2 DEF ProjectOK
  <2>2. t.projects[r].org = s.projects[r].org
    BY <2>1 DEF Grows
  <2>3. t.orgs[s.projects[r].org].owner = s.orgs[s.projects[r].org].owner
    BY <2>1 DEF Grows
  <2>4. DOMAIN s.projects \subseteq DOMAIN t.projects /\ DOMAIN s.orgs \subseteq DOMAIN t.orgs
    BY <1>1, TablesFacts DEF Grows
  <2>5. QED
    BY <2>1, <2>2, <2>3, <2>4 DEF ProjectOK
<1>3. ReleasesOK(t, n)
  BY <1>2 DEF ServerOK, ReleasesOK
<1>4. DeploymentsOK(t)
  BY DEF ServerOK, DeploymentsOK
<1>5. QED
  BY <1>3, <1>4 DEF ServerOK

LEMMA SessionsGrow ==
  ASSUME NEW s, NEW t, TablesOK(s), TablesOK(t), Grows(s, t)
  PROVE  PairsOf(s) \subseteq PairsOf(t) /\ SessionsOf(s) \subseteq SessionsOf(t)
<1>1. /\ 0..Len(s.grants) \subseteq 0..Len(t.grants) /\ 0..s.drawn \subseteq 0..t.drawn
      /\ 0..Len(s.orgs) \subseteq 0..Len(t.orgs)
  BY TablesFacts DEF Grows
<1>2. PairsOf(s) \subseteq PairsOf(t)
  BY <1>1 DEF PairsOf
<1>3. QED
  BY <1>1, <1>2 DEF SessionsOf

LEMMA TypesGrow ==
  ASSUME NEW s, NEW t, TablesOK(s), TablesOK(t), Grows(s, t), NEW j, JobTypes(j, s)
  PROVE  JobTypes(j, t)
<1>1. /\ 0..Len(s.grants) \subseteq 0..Len(t.grants) /\ 0..Len(s.orgs) \subseteq 0..Len(t.orgs)
      /\ 0..Len(s.projects) \subseteq 0..Len(t.projects) /\ 0..Len(s.envs) \subseteq 0..Len(t.envs)
  BY TablesFacts DEF Grows
<1>2. QED
  BY <1>1, SessionsGrow DEF JobTypes

LEMMA PlacedGrows ==
  ASSUME NEW s, NEW t, TablesOK(s), TablesOK(t), Grows(s, t), NEW c, Adds(s, t, c),
         NEW l, NEW j, Placed(l, j, s), c # j.cmd \/ SameReleases(s, t)
  PROVE  Placed(l, j, t)
<1>1. DOMAIN s.releases \subseteq DOMAIN t.releases
  BY TablesFacts DEF Adds
<1>2. ProjectOK(s, j.project) => ProjectOK(t, j.project)
  BY TablesFacts DEF Grows, ProjectOK
<1>3. \A r \in DOMAIN t.releases : r \notin DOMAIN s.releases => t.releases[r].cmd # j.cmd
  BY DEF Adds, SameReleases
<1>4. \A r \in DOMAIN s.releases : t.releases[r] = s.releases[r]
  BY DEF Adds
<1>5. DOMAIN s.deployments \subseteq DOMAIN t.deployments
  BY TablesFacts DEF Adds
<1>6. \A d \in DOMAIN t.deployments :
        d \notin DOMAIN s.deployments => t.deployments[d].token # j.cmd
  BY DEF Adds, SameReleases
<1>7. InItsEnv(j, s) => InItsEnv(j, t)
  BY <1>6 DEF InItsEnv, Adds
<1>8. ASSUME j.item \in DOMAIN s.deployments, s.deployments[j.item].token = j.cmd
      PROVE  j.item \in DOMAIN t.deployments /\ t.deployments[j.item].token = j.cmd
  BY <1>5, <1>8 DEF Adds
<1>9. QED
  BY <1>1, <1>2, <1>3, <1>4, <1>7, <1>8 DEF Placed

LEMMA DiskGrows ==
  ASSUME NEW s, NEW t, TablesOK(s), TablesOK(t), Grows(s, t), NEW d, DiskOK(d, s)
  PROVE  DiskOK(d, t)
BY SessionsGrow DEF DiskOK

\* Requests that leave these tables alone.
LEMMA OtherTables ==
  ASSUME NEW s, TablesOK(s), NEW t, IsServer(t), t.users = s.users, t.drawn = s.drawn,
         t.grants = s.grants, t.orgs = s.orgs, t.projects = s.projects,
         t.releases = s.releases, t.deployments = s.deployments,
         Table(t.envs), Len(t.envs) = Len(s.envs)
  PROVE  Changes(s, t)
<1>1. TablesOK(t)
  BY DEF TablesOK
<1>2. Grows(s, t)
  BY TablesFacts DEF Grows
<1>3. QED
  BY <1>1, <1>2 DEF Changes, KeepsGrants

\* The rows of a table when one of them is changed.
LEMMA RowChanged ==
  ASSUME NEW t, Table(t), NEW i, NEW x
  PROVE  /\ Table([t EXCEPT ![i] = x]) /\ Len([t EXCEPT ![i] = x]) = Len(t)
         /\ DOMAIN [t EXCEPT ![i] = x] = DOMAIN t
<1> DEFINE u == [t EXCEPT ![i] = x]
<1>1. DOMAIN u = DOMAIN t /\ u = [k \in DOMAIN u |-> u[k]]
  BY TableFacts
<1> HIDE DEF u
<1>2. QED
  BY <1>1, SameRows DEF u

LEMMA EnvChanges ==
  ASSUME NEW s, TablesOK(s), NEW e
  PROVE  /\ Changes(s, [s EXCEPT !.envs[e].secret = TRUE])
         /\ Changes(s, [s EXCEPT !.envs[e].secret = FALSE])
         /\ Changes(s, [s EXCEPT !.envs[e].direct = FALSE])
<1>1. ASSUME NEW x
      PROVE  Changes(s, [s EXCEPT !.envs[e] = x])
  <2> DEFINE t == [s EXCEPT !.envs[e] = x]
             v == [s.envs EXCEPT ![e] = x]
  <2>1. Table(v) /\ Len(v) = Len(s.envs)
    BY RowChanged DEF TablesOK
  <2>2. /\ IsServer(t) /\ t.users = s.users /\ t.drawn = s.drawn /\ t.grants = s.grants
        /\ t.orgs = s.orgs /\ t.projects = s.projects /\ t.releases = s.releases
        /\ t.deployments = s.deployments /\ t.envs = v
    BY DEF TablesOK, IsServer
  <2> HIDE DEF t, v
  <2>3. QED
    BY <2>1, <2>2, OtherTables DEF t
<1>2. QED
  BY <1>1

LEMMA EnvsDropped ==
  ASSUME NEW s, TablesOK(s), NEW E
  PROVE  Changes(s, DropEnvs(s, E))
<1> DEFINE t == DropEnvs(s, E)
           v == [e \in DOMAIN s.envs |-> [s.envs[e] EXCEPT !.live = @ /\ e \notin E]]
<1>1. Table(v) /\ Len(v) = Len(s.envs)
  <2>1. DOMAIN v = DOMAIN s.envs /\ v = [i \in DOMAIN v |-> v[i]]
    OBVIOUS
  <2> HIDE DEF v
  <2>2. QED
    BY <2>1, SameRows DEF TablesOK
<1>2. /\ IsServer(t) /\ t.users = s.users /\ t.drawn = s.drawn /\ t.grants = s.grants
      /\ t.orgs = s.orgs /\ t.projects = s.projects /\ t.releases = s.releases
      /\ t.deployments = s.deployments /\ t.envs = v
  BY DEF TablesOK, IsServer, DropEnvs
<1> HIDE DEF t, v
<1>3. QED
  BY <1>1, <1>2, OtherTables DEF t

LEMMA ProjectsChange ==
  ASSUME NEW s, TablesOK(s), NEW t, IsServer(t), t.users = s.users, t.drawn = s.drawn,
         t.grants = s.grants, t.orgs = s.orgs, t.envs = s.envs,
         t.releases = s.releases, t.deployments = s.deployments,
         Table(t.projects), Len(s.projects) <= Len(t.projects),
         \A r \in DOMAIN t.projects : "org" \in DOMAIN t.projects[r],
         \A r \in DOMAIN s.projects : t.projects[r].org = s.projects[r].org
  PROVE  Changes(s, t)
<1>1. TablesOK(t)
  BY DEF TablesOK
<1>2. Grows(s, t)
  BY TablesFacts DEF Grows
<1>3. QED
  BY <1>1, <1>2 DEF Changes, KeepsGrants

LEMMA ProjectDropped ==
  ASSUME NEW s, TablesOK(s), NEW r
  PROVE  Changes(s, DropProject(s, r))
<1> DEFINE d == DropEnvs(s, {e \in DOMAIN s.envs : s.envs[e].project = r})
           t == [d EXCEPT !.projects[r].live = FALSE]
           v == [d.projects EXCEPT ![r].live = FALSE]
<1>1. Changes(s, d) /\ TablesOK(d)
  BY EnvsDropped DEF Changes
<1> HIDE DEF d
<1>2. Table(v) /\ Len(v) = Len(d.projects) /\ DOMAIN v = DOMAIN d.projects
  BY <1>1, RowChanged DEF TablesOK
<1>3. \A i \in DOMAIN v : "org" \in DOMAIN v[i] /\ v[i].org = d.projects[i].org
  BY <1>1, <1>2 DEF TablesOK
<1>4. /\ IsServer(t) /\ t.users = d.users /\ t.drawn = d.drawn /\ t.grants = d.grants
      /\ t.orgs = d.orgs /\ t.envs = d.envs /\ t.releases = d.releases
      /\ t.deployments = d.deployments /\ t.projects = v
  BY <1>1 DEF TablesOK, IsServer
<1> HIDE DEF t, v
<1>5. Len(d.projects) <= Len(v)
  BY <1>1, <1>2, TablesFacts
<1>6. Changes(d, t)
  BY <1>1, <1>2, <1>3, <1>4, <1>5, ProjectsChange
<1>7. Changes(s, t)
  BY <1>1, <1>6, GrowsTransitive
<1>8. QED
  BY <1>7 DEF DropProject, t, d

LEMMA ProjectAdded ==
  ASSUME NEW s, TablesOK(s), NEW o
  PROVE  /\ Changes(s, AddProject(s, o)) /\ Len(AddProject(s, o).projects) = Len(s.projects) + 1
         /\ AddProject(s, o).orgs = s.orgs
         /\ AddProject(s, o).projects[Len(s.projects) + 1] = [org |-> o, live |-> TRUE]
<1> DEFINE x == [org |-> o, live |-> TRUE]
           v == Append(s.projects, x)
           t == AddProject(s, o)
<1>1. /\ IsServer(t) /\ t.users = s.users /\ t.drawn = s.drawn /\ t.grants = s.grants
      /\ t.orgs = s.orgs /\ t.envs = s.envs /\ t.releases = s.releases
      /\ t.deployments = s.deployments /\ t.projects = v
  BY DEF TablesOK, IsServer, AddProject
<1>2. /\ Table(v) /\ Len(v) = Len(s.projects) + 1 /\ DOMAIN v = 1..(Len(s.projects) + 1)
      /\ \A i \in 1..Len(s.projects) : v[i] = s.projects[i]
      /\ v[Len(s.projects) + 1] = x
  BY Appended DEF TablesOK
<1>3. "org" \in DOMAIN x
  OBVIOUS
<1> HIDE DEF t, v, x
<1>4. \A r \in DOMAIN v : "org" \in DOMAIN v[r]
  BY <1>2, <1>3, TablesFacts DEF TablesOK
<1>5. Len(s.projects) <= Len(v) /\ \A r \in DOMAIN s.projects : v[r].org = s.projects[r].org
  BY <1>2, TablesFacts
<1>6. Changes(s, t)
  BY <1>1, <1>2, <1>4, <1>5, ProjectsChange
<1>7. QED
  BY <1>1, <1>2, <1>6 DEF t, x

LEMMA OrgsChange ==
  ASSUME NEW s, TablesOK(s), NEW t, IsServer(t), t.users = s.users, t.drawn = s.drawn,
         t.grants = s.grants, t.projects = s.projects, t.envs = s.envs,
         t.releases = s.releases, t.deployments = s.deployments,
         Table(t.orgs), Len(s.orgs) <= Len(t.orgs),
         \A o \in DOMAIN t.orgs : "owner" \in DOMAIN t.orgs[o],
         \A o \in DOMAIN s.orgs : t.orgs[o].owner = s.orgs[o].owner
  PROVE  Changes(s, t)
<1>1. TablesOK(t)
  BY DEF TablesOK
<1>2. Grows(s, t)
  BY TablesFacts DEF Grows
<1>3. QED
  BY <1>1, <1>2 DEF Changes, KeepsGrants

LEMMA OrgAdded ==
  ASSUME NEW s, TablesOK(s), NEW u, NEW name
  PROVE  /\ Changes(s, AddOrg(s, u, name)) /\ Len(AddOrg(s, u, name).orgs) = Len(s.orgs) + 1
         /\ AddOrg(s, u, name).projects = s.projects
<1> DEFINE x == [owner |-> u, name |-> name, trial |-> ~IsHuman(u), registry |-> FALSE]
           v == Append(s.orgs, x)
           t == AddOrg(s, u, name)
<1>1. /\ IsServer(t) /\ t.users = s.users /\ t.drawn = s.drawn /\ t.grants = s.grants
      /\ t.projects = s.projects /\ t.envs = s.envs /\ t.releases = s.releases
      /\ t.deployments = s.deployments /\ t.orgs = v
  BY DEF TablesOK, IsServer, AddOrg
<1>2. /\ Table(v) /\ Len(v) = Len(s.orgs) + 1 /\ DOMAIN v = 1..(Len(s.orgs) + 1)
      /\ \A i \in 1..Len(s.orgs) : v[i] = s.orgs[i]
      /\ v[Len(s.orgs) + 1] = x
  BY Appended DEF TablesOK
<1>3. "owner" \in DOMAIN x
  OBVIOUS
<1> HIDE DEF t, v, x
<1>4. \A r \in DOMAIN v : "owner" \in DOMAIN v[r]
  BY <1>2, <1>3, TablesFacts DEF TablesOK
<1>5. Len(s.orgs) <= Len(v) /\ \A r \in DOMAIN s.orgs : v[r].owner = s.orgs[r].owner
  BY <1>2, TablesFacts
<1>6. Changes(s, t)
  BY <1>1, <1>2, <1>4, <1>5, OrgsChange
<1>7. QED
  BY <1>1, <1>2, <1>6 DEF t

LEMMA RegistrySet ==
  ASSUME NEW s, TablesOK(s), NEW o
  PROVE  Changes(s, [s EXCEPT !.orgs[o].registry = TRUE])
<1> DEFINE v == [s.orgs EXCEPT ![o].registry = TRUE]
           t == [s EXCEPT !.orgs[o].registry = TRUE]
<1>1. Table(v) /\ Len(v) = Len(s.orgs) /\ DOMAIN v = DOMAIN s.orgs
  BY RowChanged DEF TablesOK
<1>2. \A i \in DOMAIN v : "owner" \in DOMAIN v[i] /\ v[i].owner = s.orgs[i].owner
  BY <1>1 DEF TablesOK
<1>3. /\ IsServer(t) /\ t.users = s.users /\ t.drawn = s.drawn /\ t.grants = s.grants
      /\ t.projects = s.projects /\ t.envs = s.envs /\ t.releases = s.releases
      /\ t.deployments = s.deployments /\ t.orgs = v
  BY DEF TablesOK, IsServer
<1> HIDE DEF t, v
<1>4. Len(s.orgs) <= Len(v)
  BY <1>1, TablesFacts
<1>5. Changes(s, t)
  BY <1>1, <1>2, <1>3, <1>4, OrgsChange
<1>6. QED
  BY <1>5 DEF t

LEMMA EnvAdded ==
  ASSUME NEW s, TablesOK(s), NEW r, NEW name
  PROVE  /\ Changes(s, AddEnv(s, r, name)) /\ Len(AddEnv(s, r, name).envs) = Len(s.envs) + 1
         /\ AddEnv(s, r, name).orgs = s.orgs /\ AddEnv(s, r, name).projects = s.projects
         /\ LET x == AddEnv(s, r, name).envs[Len(s.envs) + 1] IN
            x.live /\ x.project = r /\ x.name = name
<1> DEFINE x == [project |-> r, name |-> name, live |-> TRUE, secret |-> FALSE, direct |-> TRUE]
           v == Append(s.envs, x)
           t == AddEnv(s, r, name)
<1>1. /\ IsServer(t) /\ t.users = s.users /\ t.drawn = s.drawn /\ t.grants = s.grants
      /\ t.orgs = s.orgs /\ t.projects = s.projects /\ t.releases = s.releases
      /\ t.deployments = s.deployments /\ t.envs = v
  BY DEF TablesOK, IsServer, AddEnv
<1>2. Table(v) /\ Len(v) = Len(s.envs) + 1 /\ v[Len(s.envs) + 1] = x
  BY Appended DEF TablesOK
<1> HIDE DEF t, v, x
<1>3. TablesOK(t)
  BY <1>1, <1>2 DEF TablesOK
<1>4. Grows(s, t)
  BY <1>1, <1>2, TablesFacts DEF Grows
<1>5. QED
  BY <1>1, <1>2, <1>3, <1>4 DEF Changes, KeepsGrants, t, x

\* A grant's row, whatever else it says.
GrantOK(x) == {"user", "gen", "live"} \subseteq DOMAIN x /\ x.gen \in Nat

LEMMA GrantsChange ==
  ASSUME NEW s, TablesOK(s), NEW t, IsServer(t), t.drawn \in Nat, s.drawn <= t.drawn,
         t.orgs = s.orgs, t.projects = s.projects, t.envs = s.envs,
         t.releases = s.releases, t.deployments = s.deployments,
         Table(t.grants), Len(s.grants) <= Len(t.grants),
         \A g \in DOMAIN t.grants : GrantOK(t.grants[g])
  PROVE  /\ TablesOK(t) /\ Grows(s, t)
         /\ t.users = s.users /\ KeepsGrants(s, t) => Changes(s, t)
<1>1. TablesOK(t)
  BY DEF TablesOK, GrantOK
<1>2. Grows(s, t)
  BY TablesFacts DEF Grows
<1>3. QED
  BY <1>1, <1>2 DEF Changes

\* Issue, in a server that may have a new user.
LEMMA Issued ==
  ASSUME NEW s, TablesOK(s), NEW u, NEW ci
  PROVE  LET t == Issue(s, u, ci) IN
         /\ Changes(s, t) /\ Len(t.grants) = Len(s.grants) + 1
         /\ t.grants[Len(s.grants) + 1].gen = 1
<1> DEFINE x == [user |-> u, gen |-> 1, live |-> TRUE, ci |-> ci]
           v == Append(s.grants, x)
           t == Issue(s, u, ci)
<1>1. /\ IsServer(t) /\ t.users = s.users /\ t.drawn = s.drawn /\ t.orgs = s.orgs
      /\ t.projects = s.projects /\ t.envs = s.envs /\ t.releases = s.releases
      /\ t.deployments = s.deployments /\ t.grants = v
  BY DEF TablesOK, IsServer, Issue
<1>2. /\ Table(v) /\ Len(v) = Len(s.grants) + 1 /\ DOMAIN v = 1..(Len(s.grants) + 1)
      /\ \A i \in 1..Len(s.grants) : v[i] = s.grants[i]
      /\ v[Len(s.grants) + 1] = x
  BY Appended DEF TablesOK
<1>3. GrantOK(x) /\ x.gen = 1
  BY DEF GrantOK
<1> HIDE DEF t, v, x
<1>4. \A g \in DOMAIN s.grants : GrantOK(s.grants[g])
  BY DEF TablesOK, GrantOK
<1>5. \A g \in DOMAIN v : GrantOK(v[g])
  BY <1>2, <1>3, <1>4, TablesFacts
<1>6. Len(s.grants) <= Len(v) /\ s.drawn \in Nat /\ s.drawn <= s.drawn
  BY <1>2, TablesFacts
<1>7. KeepsGrants(s, t)
  BY <1>1, <1>2, TablesFacts DEF KeepsGrants
<1>8. Changes(s, t)
  BY <1>1, <1>2, <1>5, <1>6, <1>7, GrantsChange
<1>9. QED
  BY <1>1, <1>2, <1>3, <1>8 DEF t

LEMMA Revoked ==
  ASSUME NEW s, TablesOK(s), NEW row
  PROVE  Changes(s, [s EXCEPT !.grants[row].live = FALSE])
<1> DEFINE v == [s.grants EXCEPT ![row].live = FALSE]
           t == [s EXCEPT !.grants[row].live = FALSE]
<1>1. Table(v) /\ Len(v) = Len(s.grants) /\ DOMAIN v = DOMAIN s.grants
  BY RowChanged DEF TablesOK
<1>2. \A i \in DOMAIN v : /\ GrantOK(v[i]) /\ v[i].user = s.grants[i].user
                          /\ v[i].gen = s.grants[i].gen /\ (v[i].live => s.grants[i].live)
  BY <1>1 DEF TablesOK, GrantOK
<1>3. /\ IsServer(t) /\ t.users = s.users /\ t.drawn = s.drawn /\ t.orgs = s.orgs
      /\ t.projects = s.projects /\ t.envs = s.envs /\ t.releases = s.releases
      /\ t.deployments = s.deployments /\ t.grants = v
  BY DEF TablesOK, IsServer
<1> HIDE DEF t, v
<1>4. Len(s.grants) <= Len(v) /\ s.drawn \in Nat /\ s.drawn <= s.drawn
  BY <1>1, TablesFacts
<1>5. KeepsGrants(s, t)
  BY <1>1, <1>2, <1>3 DEF KeepsGrants
<1>6. Changes(s, t)
  BY <1>1, <1>2, <1>3, <1>4, <1>5, GrantsChange
<1>7. QED
  BY <1>6 DEF t

\* A refresh moves one session on.
LEMMA Rotated ==
  ASSUME NEW s, TablesOK(s), NEW row
  PROVE  LET t == Rotate(s, row) IN
         /\ TablesOK(t) /\ Grows(s, t) /\ t.users = s.users
         /\ t.releases = s.releases /\ t.deployments = s.deployments
         /\ Len(t.grants) = Len(s.grants)
         /\ \A g \in DOMAIN s.grants :
              /\ t.grants[g].user = s.grants[g].user /\ t.grants[g].live = s.grants[g].live
              /\ t.grants[g].gen = IF g = row THEN s.grants[g].gen + 1 ELSE s.grants[g].gen
<1> DEFINE v == [s.grants EXCEPT ![row].gen = @ + 1]
           t == Rotate(s, row)
<1>1. Table(v) /\ Len(v) = Len(s.grants) /\ DOMAIN v = DOMAIN s.grants
  BY RowChanged DEF TablesOK
<1>2. \A i \in DOMAIN v :
         /\ GrantOK(v[i]) /\ v[i].user = s.grants[i].user /\ v[i].live = s.grants[i].live
         /\ v[i].gen = IF i = row THEN s.grants[i].gen + 1 ELSE s.grants[i].gen
  BY <1>1 DEF TablesOK, GrantOK
<1>3. /\ IsServer(t) /\ t.users = s.users /\ t.drawn = s.drawn /\ t.orgs = s.orgs
      /\ t.projects = s.projects /\ t.envs = s.envs /\ t.releases = s.releases
      /\ t.deployments = s.deployments /\ t.grants = v
  BY DEF TablesOK, IsServer, Rotate
<1> HIDE DEF t, v
<1>4. Len(s.grants) <= Len(v) /\ s.drawn \in Nat /\ s.drawn <= s.drawn
  BY <1>1, TablesFacts
<1>5. TablesOK(t) /\ Grows(s, t)
  BY <1>1, <1>2, <1>3, <1>4, GrantsChange
<1>6. QED
  BY <1>1, <1>2, <1>3, <1>5 DEF t

-----------------------------------------------------------------------------
(* What a step of a process does *)

\* The process p moves, to a job that fits the tables s.
Moved(p, s) ==
  /\ pc' \in [Clis -> Steps] /\ job' = [q \in Clis |-> job'[q]]
  /\ \A q \in Clis : q # p => pc'[q] = pc[q] /\ job'[q] = job[q]
  /\ pc'[p] # "idle" => JobOK(job'[p], s, commands) /\ job'[p].cmd = job[p].cmd

\* It goes to its next stage, or ends.
Ran(p, s) == /\ Moved(p, s) /\ pc[p] = "run" /\ pc'[p] \in {"run", "idle"}
             /\ pc'[p] = "run" => job'[p].via = job[p].via

Effect(p) ==
  /\ p \in Clis /\ pc[p] # "idle" /\ commands' = commands /\ Moved(p, srv')
  /\ ServerOK(srv', commands) /\ Grows(srv, srv') /\ Adds(srv, srv', job[p].cmd)
  /\ DiskOK(disk', srv')

\* A step that touches neither the file nor the accounts.
RunEffect(p) ==
  /\ Effect(p) /\ Ran(p, srv') /\ disk' = disk /\ overlap' = overlap
  /\ faults' \in {faults, faults + 1}
  /\ srv'.users = srv.users /\ KeepsGrants(srv, srv')

LEMMA JobFacts ==
  ASSUME TInv, NEW p \in Clis, pc[p] # "idle"
  PROVE  /\ JobTypes(job[p], srv) /\ job[p].cmd \in 1..commands
         /\ Placed(job[p].todo, job[p], srv) /\ IsJob(job[p])
         /\ TablesOK(srv) /\ ServerOK(srv, commands)
         /\ StagesOK(job[p].todo) /\ job[p].todo # << >> /\ Stage(p) = job[p].todo[1]
<1>1. JobOK(job[p], srv, commands) /\ ServerOK(srv, commands)
  BY DEF TInv
<1>2. StagesOK(job[p].todo)
  BY <1>1 DEF JobOK, Placed
<1>3. QED
  BY <1>1, <1>2, SeqFacts DEF JobOK, JobTypes, StagesOK, ServerOK, Stage

LEMMA EffectOK ==
  ASSUME TInv, NEW p \in Clis, Effect(p)
  PROVE  TInv'
<1>1. /\ TablesOK(srv) /\ TablesOK(srv') /\ ServerOK(srv', commands') /\ DiskOK(disk', srv')
      /\ commands' \in Nat /\ pc' \in [Clis -> Steps] /\ job' = [q \in Clis |-> job'[q]]
  BY DEF TInv, Effect, Moved, ServerOK
<1>2. ASSUME NEW q \in Clis, pc'[q] # "idle"
      PROVE  /\ JobOK(job'[q], srv', commands') /\ job'[q].cmd = job[q].cmd /\ pc[q] # "idle"
  <2>1. CASE q = p
    BY <1>2, <2>1 DEF Effect, Moved
  <2>2. CASE q # p
    <3>1. pc'[q] = pc[q] /\ job'[q] = job[q] /\ commands' = commands /\ pc[p] # "idle"
      BY <2>2 DEF Effect, Moved
    <3>2. JobOK(job[q], srv, commands) /\ job[q].cmd # job[p].cmd
      BY <1>2, <2>2, <3>1 DEF TInv
    <3>3. Grows(srv, srv') /\ Adds(srv, srv', job[p].cmd)
      BY DEF Effect
    <3>4. JobTypes(job[q], srv')
      BY <1>1, <3>2, <3>3, TypesGrow DEF JobOK
    <3>5. Placed(job[q].todo, job[q], srv')
      BY <1>1, <3>2, <3>3, PlacedGrows DEF JobOK
    <3>6. QED
      BY <1>2, <3>1, <3>2, <3>4, <3>5 DEF JobOK
  <2>3. QED
    BY <2>1, <2>2
<1>3. ASSUME NEW q \in Clis, NEW r \in Clis, pc'[q] # "idle", pc'[r] # "idle",
             job'[q].cmd = job'[r].cmd
      PROVE  q = r
  <2>1. job[q].cmd = job[r].cmd /\ pc[q] # "idle" /\ pc[r] # "idle"
    BY <1>2, <1>3
  <2>2. QED
    BY <2>1 DEF TInv
<1>4. QED
  BY <1>1, <1>2, <1>3 DEF TInv

LEMMA Ends ==
  ASSUME TInv, NEW p \in Clis, End(p), NEW s
  PROVE  Moved(p, s) /\ pc'[p] = "idle" /\ (pc[p] = "run" => Ran(p, s))
<1>1. /\ pc' = [pc EXCEPT ![p] = "idle"] /\ job' = [job EXCEPT ![p] = NoJob]
      /\ pc \in [Clis -> Steps] /\ job = [q \in Clis |-> job[q]]
  BY DEF End, TInv
<1>2. pc' \in [Clis -> Steps] /\ pc'[p] = "idle" /\ job' = [q \in Clis |-> job'[q]]
  BY <1>1 DEF Steps
<1>3. \A q \in Clis : q # p => pc'[q] = pc[q] /\ job'[q] = job[q]
  BY <1>1
<1>4. QED
  BY <1>2, <1>3 DEF Moved, Ran

LEMMA Awaits ==
  ASSUME TInv, NEW p \in Clis, NEW at \in Steps, NEW j, Await(p, at, j), NEW s,
         JobOK(j, s, commands), j.cmd = job[p].cmd
  PROVE  /\ Moved(p, s) /\ pc'[p] = at /\ job'[p] = j
         /\ at = "run" /\ pc[p] = "run" /\ j.via = job[p].via => Ran(p, s)
<1>1. /\ pc' = [pc EXCEPT ![p] = at] /\ job' = [job EXCEPT ![p] = j]
      /\ pc \in [Clis -> Steps] /\ job = [q \in Clis |-> job[q]]
  BY DEF Await, TInv
<1>2. /\ pc' \in [Clis -> Steps] /\ pc'[p] = at /\ job' = [q \in Clis |-> job'[q]]
      /\ job'[p] = j
  BY <1>1
<1>3. \A q \in Clis : q # p => pc'[q] = pc[q] /\ job'[q] = job[q]
  BY <1>1
<1>4. QED
  BY <1>2, <1>3 DEF Moved, Ran

\* Going on with the stages t.
LEMMA GoesOn ==
  ASSUME TInv, NEW p \in Clis, NEW j, NEW t, GoOn(p, j, t), NEW s,
         JobTypes(j, s), j.cmd = job[p].cmd, pc[p] # "idle",
         t # << >> => Placed(t, j, s)
  PROVE  /\ Moved(p, s) /\ pc'[p] \in {"run", "idle"}
         /\ pc'[p] = "run" => job'[p].via = j.via
         /\ pc[p] = "run" /\ j.via = job[p].via => Ran(p, s)
<1>1. CASE t = << >>
  <2>1. End(p)
    BY <1>1 DEF GoOn
  <2>2. QED
    BY <2>1, Ends
<1>2. CASE t # << >>
  <2> DEFINE k == [j EXCEPT !.todo = t, !.again = FALSE, !.tries = 0]
  <2>1. Await(p, "run", k) /\ "run" \in Steps
    BY <1>2 DEF GoOn, Await, Steps
  <2>2. /\ IsJob(k) /\ k.todo = t /\ k.cmd = j.cmd /\ k.via = j.via /\ k.tok = j.tok /\ k.ci = j.ci
        /\ k.org = j.org /\ k.project = j.project /\ k.env = j.env /\ k.item = j.item
        /\ k.held = j.held /\ k.next = j.next
    BY DEF JobTypes, IsJob
  <2> HIDE DEF k
  <2>3. JobTypes(k, s)
    BY <2>2 DEF JobTypes
  <2>4. Placed(k.todo, k, s)
    BY <1>2, <2>2 DEF Placed, InItsEnv
  <2>5. job[p].cmd \in 1..commands
    BY JobFacts
  <2>6. JobOK(k, s, commands)
    BY <2>2, <2>3, <2>4, <2>5 DEF JobOK
  <2>7. QED
    BY <2>1, <2>2, <2>6, Awaits
<1>3. QED
  BY <1>1, <1>2

\* The stages after one that leads nowhere near a release.
LEMMA PlacedTail ==
  ASSUME NEW t, NEW j, NEW k, NEW s, Placed(t, j, s), Tail(t) # << >>,
         Head(t) \notin {"inspect", "target", "release", "publish"}, k.cmd = j.cmd,
         (k.project = j.project /\ k.item = j.item) \/ Head(t) \notin DeployStages
  PROVE  Placed(Tail(t), k, s)
<1>1. StagesOK(t) /\ StagesOK(Tail(t)) /\ Table(t) /\ t # << >>
  BY TailOK DEF Placed, StagesOK
<1>2. CASE Plain(t)
  <2>1. Plain(Tail(t))
    BY <1>1, <1>2, TailOK
  <2>2. ~Before(Tail(t)) /\ ~Resolved(Tail(t)) /\ ~Releasing(Tail(t)) /\ ~Polling(Tail(t))
    BY <2>1, <1>1, PlainIsNone
  <2>3. QED
    BY <1>1, <2>1, <2>2 DEF Placed
<1>3. CASE ~Plain(t)
  <2>1. Late(t)
    <3>1. t # Deploy /\ ~Releasing(t) /\ ~Polling(t)
      BY <1>1, SeqFacts DEF Deploy, Releasing, Polling
    <3>2. QED
      BY <1>3, <3>1 DEF Placed, Before
  <2>2. Head(t) \in DeployStages
    <3>1. Head(t) # "poll"
      BY <1>1, <2>1, SeqFacts DEF Late, DeployStages
    <3>2. QED
      BY <1>1, <1>3, <3>1, StageIsPlain DEF Placed
  <2>3. Late(Tail(t)) /\ (Resolved(Tail(t)) => Resolved(t))
    BY <1>1, <2>1, TailOK
  <2>4. Before(t) /\ Before(Tail(t)) /\ ~Releasing(Tail(t)) /\ ~Polling(Tail(t))
    BY <2>1, <2>3, PollOK DEF Before, Releasing, Polling
  <2>5. QED
    BY <1>1, <2>2, <2>3, <2>4 DEF Placed
<1>4. QED
  BY <1>2, <1>3

LEMMA RunStep ==
  ASSUME TInv, NEW p \in Clis, Ran(p, srv'), Changes(srv, srv'),
         UNCHANGED <<disk, overlap, faults, commands>>
  PROVE  RunEffect(p)
<1>1. TablesOK(srv) /\ ServerOK(srv, commands) /\ DiskOK(disk, srv)
  BY DEF TInv, ServerOK
<1>2. /\ TablesOK(srv') /\ Grows(srv, srv') /\ KeepsGrants(srv, srv') /\ srv'.users = srv.users
      /\ srv'.releases = srv.releases /\ srv'.deployments = srv.deployments
  BY DEF Changes
<1>3. ServerOK(srv', commands)
  BY <1>1, <1>2, ServerChanges
<1>4. Adds(srv, srv', job[p].cmd)
  BY <1>1, <1>2, TablesFacts DEF Adds
<1>5. DiskOK(disk', srv')
  BY <1>1, <1>2, DiskGrows
<1>6. pc[p] # "idle" /\ Moved(p, srv')
  BY DEF Ran
<1>7. QED
  BY <1>2, <1>3, <1>4, <1>5, <1>6 DEF RunEffect, Effect

LEMMA EndsRun ==
  ASSUME TInv, NEW p \in Clis, pc[p] = "run", End(p),
         UNCHANGED <<srv, disk, overlap, faults, commands>>
  PROVE  RunEffect(p)
<1>1. Ran(p, srv')
  BY Ends
<1>2. Changes(srv, srv')
  BY GrowsSelf DEF TInv, ServerOK
<1>3. QED
  BY <1>1, <1>2, RunStep

LEMMA Went ==
  ASSUME TInv, NEW p \in Clis, pc[p] = "run", NEW j, NEW t, GoOn(p, j, t),
         UNCHANGED <<srv, disk, overlap, faults, commands>>,
         JobTypes(j, srv), j.cmd = job[p].cmd, j.via = job[p].via,
         t # << >> => Placed(t, j, srv)
  PROVE  RunEffect(p)
<1>1. Ran(p, srv)
  BY GoesOn
<1>2. Changes(srv, srv')
  BY GrowsSelf DEF TInv, ServerOK
<1>3. QED
  BY <1>1, <1>2, RunStep

\* A request that is answered or refused: its effect on the tables is s, and the
\* command keeps j of the answer.
Answer(p, s, j) ==
  /\ pc[p] = "run" /\ UNCHANGED <<disk, overlap, faults, commands>>
  /\ (srv' = s /\ Continue(p, j)) \/ (UNCHANGED srv /\ End(p))

LEMMA Answered ==
  ASSUME TInv, NEW p \in Clis, NEW s, NEW j, Answer(p, s, j), Changes(srv, s),
         Stage(p) \notin {"inspect", "target", "release", "publish"},
         JobTypes(j, s), j.todo = job[p].todo, j.cmd = job[p].cmd, j.via = job[p].via,
         (j.project = job[p].project /\ j.item = job[p].item) \/ Stage(p) \notin DeployStages
  PROVE  RunEffect(p)
<1>1. pc[p] = "run" /\ UNCHANGED <<disk, overlap, faults, commands>>
  BY DEF Answer
<1>2. CASE UNCHANGED srv /\ End(p)
  BY <1>1, <1>2, EndsRun
<1>3. CASE srv' = s /\ Continue(p, j)
  <2>1. GoOn(p, j, Tail(job[p].todo))
    BY <1>3 DEF Continue
  <2>2. Placed(job[p].todo, job[p], srv) /\ TablesOK(srv)
    BY <1>1, JobFacts
  <2>3. Placed(job[p].todo, job[p], s)
    <3>1. TablesOK(s) /\ Grows(srv, s) /\ s.releases = srv.releases /\ s.deployments = srv.deployments
      BY DEF Changes
    <3>2. Adds(srv, s, job[p].cmd) /\ SameReleases(srv, s)
      BY <2>2, <3>1, TablesFacts DEF Adds, SameReleases
    <3>3. QED
      BY <2>2, <3>1, <3>2, PlacedGrows
  <2>4. Tail(job[p].todo) # << >> => Placed(Tail(job[p].todo), j, s)
    BY <2>3, PlacedTail DEF Stage
  <2>5. Ran(p, s)
    BY <1>1, <2>1, <2>4, GoesOn
  <2>6. QED
    BY <1>1, <1>3, <2>5, RunStep
<1>4. QED
  BY <1>2, <1>3 DEF Answer

\* One of which the command keeps nothing.
LEMMA AnsweredSame ==
  ASSUME TInv, NEW p \in Clis, NEW s, Answer(p, s, job[p]), Changes(srv, s),
         Stage(p) \notin {"inspect", "target", "release", "publish"}
  PROVE  RunEffect(p)
<1>1. JobTypes(job[p], srv) /\ TablesOK(srv)
  BY JobFacts DEF Answer
<1>2. JobTypes(job[p], s)
  BY <1>1, TypesGrow DEF Changes
<1>3. QED
  BY <1>2, Answered

-----------------------------------------------------------------------------
(* The requests on what the workspace resolved to *)

LEMMA DeletesOK ==
  ASSUME TInv, NEW p \in Clis,
         DeleteEnvironment(p) \/ DeleteProject(p) \/ UpsertSecret(p) \/ DeleteSecret(p)
           \/ UpdateIngress(p) \/ SetRegistry(p) \/ ReadOnly(p)
  PROVE  RunEffect(p)
<1>0. TablesOK(srv)
  BY DEF TInv, ServerOK
<1>1. CASE DeleteEnvironment(p)
  <2> DEFINE s == DropEnvs(srv, {job[p].env})
  <2>1. Answer(p, s, job[p]) /\ Stage(p) = "delete_env"
    BY <1>1 DEF DeleteEnvironment, Call, Answer, Asks, At, files
  <2>2. Changes(srv, s)
    BY <1>0, EnvsDropped
  <2> HIDE DEF s
  <2>3. QED
    BY <2>1, <2>2, AnsweredSame
<1>2. CASE DeleteProject(p)
  <2> DEFINE s == DropProject(srv, job[p].project)
  <2>1. Answer(p, s, job[p]) /\ Stage(p) = "delete_project"
    BY <1>2 DEF DeleteProject, Call, Answer, Asks, At, files
  <2>2. Changes(srv, s)
    BY <1>0, ProjectDropped
  <2> HIDE DEF s
  <2>3. QED
    BY <2>1, <2>2, AnsweredSame
<1>3. CASE UpsertSecret(p)
  <2> DEFINE s == [srv EXCEPT !.envs[job[p].env].secret = TRUE]
  <2>1. Answer(p, s, job[p]) /\ Stage(p) = "secret_set"
    BY <1>3, Zenon DEF UpsertSecret, Call, Answer, Asks, At, files
  <2>2. Changes(srv, s)
    BY <1>0, EnvChanges
  <2> HIDE DEF s
  <2>3. QED
    BY <2>1, <2>2, AnsweredSame
<1>4. CASE DeleteSecret(p)
  <2> DEFINE s == [srv EXCEPT !.envs[job[p].env].secret = FALSE]
  <2>1. Answer(p, s, job[p]) /\ Stage(p) = "secret_delete"
    BY <1>4, Zenon DEF DeleteSecret, Call, Answer, Asks, At, files
  <2>2. Changes(srv, s)
    BY <1>0, EnvChanges
  <2> HIDE DEF s
  <2>3. QED
    BY <2>1, <2>2, AnsweredSame
<1>5. CASE UpdateIngress(p)
  <2> DEFINE s == [srv EXCEPT !.envs[job[p].env].direct = FALSE]
  <2>1. Answer(p, s, job[p]) /\ Stage(p) = "ingress"
    BY <1>5, Zenon DEF UpdateIngress, Call, Answer, Asks, At, files
  <2>2. Changes(srv, s)
    BY <1>0, EnvChanges
  <2> HIDE DEF s
  <2>3. QED
    BY <2>1, <2>2, AnsweredSame
<1>6. CASE SetRegistry(p)
  <2> DEFINE s == [srv EXCEPT !.orgs[job[p].org].registry = TRUE]
  <2>1. Answer(p, s, job[p]) /\ Stage(p) = "registry"
    BY <1>6, Zenon DEF SetRegistry, Call, Answer, Asks, At, files
  <2>2. Changes(srv, s)
    BY <1>0, RegistrySet
  <2> HIDE DEF s
  <2>3. QED
    BY <2>1, <2>2, AnsweredSame
<1>7. CASE ReadOnly(p)
  <2>1. Answer(p, srv, job[p]) /\ Stage(p) = "read"
    BY <1>7, Zenon DEF ReadOnly, Call, Answer, Asks, At, files
  <2>2. Changes(srv, srv)
    BY <1>0, GrowsSelf
  <2>3. QED
    BY <2>1, <2>2, AnsweredSame
<1>8. QED
  BY <1>1, <1>2, <1>3, <1>4, <1>5, <1>6, <1>7

-----------------------------------------------------------------------------
(* The requests on the node and on the account *)

LEMMA NodeChanges ==
  ASSUME NEW s, TablesOK(s), NEW x
  PROVE  /\ Changes(s, [s EXCEPT !.node.env = x]) /\ Changes(s, [s EXCEPT !.node.live = x])
         /\ Changes(s, [s EXCEPT !.diagnoses = x]) /\ Changes(s, [s EXCEPT !.boot = x])
         /\ Changes(s, [s EXCEPT !.claims = x])
<1> DEFINE Alike(t) == /\ IsServer(t) /\ t.users = s.users /\ t.drawn = s.drawn
                       /\ t.grants = s.grants /\ t.orgs = s.orgs /\ t.projects = s.projects
                       /\ t.releases = s.releases /\ t.deployments = s.deployments
                       /\ t.envs = s.envs
<1>1. ASSUME NEW t, Alike(t) PROVE Changes(s, t)
  BY <1>1, OtherTables DEF TablesOK
<1>2. /\ Alike([s EXCEPT !.node.env = x]) /\ Alike([s EXCEPT !.node.live = x])
      /\ Alike([s EXCEPT !.diagnoses = x]) /\ Alike([s EXCEPT !.boot = x])
      /\ Alike([s EXCEPT !.claims = x])
  BY DEF TablesOK, IsServer
<1> HIDE DEF Alike
<1>3. QED
  BY <1>1, <1>2

LEMMA OnNodeOK ==
  ASSUME TInv, NEW p \in Clis,
         AssignNode(p) \/ UnassignNode(p) \/ DeleteNode(p) \/ DiagnoseNode(p)
           \/ CreateBootstrapToken(p) \/ InstallNode(p)
  PROVE  RunEffect(p)
<1>0. TablesOK(srv)
  BY DEF TInv, ServerOK
<1>1. CASE AssignNode(p)
  <2> DEFINE s == [srv EXCEPT !.node.env = job[p].env]
  <2>1. Answer(p, s, job[p]) /\ Stage(p) = "assign"
    BY <1>1, Zenon DEF AssignNode, Call, Answer, Asks, At, files
  <2>2. Changes(srv, s)
    BY <1>0, NodeChanges
  <2> HIDE DEF s
  <2>3. QED
    BY <2>1, <2>2, AnsweredSame
<1>2. CASE UnassignNode(p)
  <2> DEFINE s == [srv EXCEPT !.node.env = 0]
  <2>1. Answer(p, s, job[p]) /\ Stage(p) = "unassign"
    BY <1>2, Zenon DEF UnassignNode, Call, Answer, Asks, At, files
  <2>2. Changes(srv, s)
    BY <1>0, NodeChanges
  <2> HIDE DEF s
  <2>3. QED
    BY <2>1, <2>2, AnsweredSame
<1>3. CASE DeleteNode(p)
  <2> DEFINE s == [srv EXCEPT !.node.live = FALSE]
  <2>1. Answer(p, s, job[p]) /\ Stage(p) = "delete_node"
    BY <1>3, Zenon DEF DeleteNode, Call, Answer, Asks, At, files
  <2>2. Changes(srv, s)
    BY <1>0, NodeChanges
  <2> HIDE DEF s
  <2>3. QED
    BY <2>1, <2>2, AnsweredSame
<1>4. CASE DiagnoseNode(p)
  <2> DEFINE open == {d \in DOMAIN srv.diagnoses : srv.diagnoses[d] = "pending"}
             a == [srv EXCEPT !.diagnoses = Append(@, "pending")]
             s == IF open # {} THEN srv ELSE a
             i == IF open # {} THEN First(open) ELSE Len(srv.diagnoses) + 1
             j == [job[p] EXCEPT !.item = i]
  <2>1. Answer(p, s, j) /\ Stage(p) = "diagnose"
    BY <1>4, Zenon DEF DiagnoseNode, Call, Answer, Asks, At, files
  <2>2. Changes(srv, a) /\ Changes(srv, srv)
    BY <1>0, NodeChanges, GrowsSelf
  <2> HIDE DEF a, open, i
  <2>3. Changes(srv, s)
    BY <2>2
  <2> HIDE DEF s
  <2>4. /\ IsJob(j) /\ j.todo = job[p].todo /\ j.cmd = job[p].cmd /\ j.via = job[p].via
        /\ j.tok = job[p].tok /\ j.ci = job[p].ci /\ j.org = job[p].org
        /\ j.project = job[p].project /\ j.env = job[p].env /\ j.held = job[p].held
        /\ j.next = job[p].next /\ JobTypes(job[p], srv)
    BY <2>1, JobFacts DEF Answer, IsJob
  <2> HIDE DEF j
  <2>5. JobTypes(job[p], s)
    BY <1>0, <2>3, <2>4, TypesGrow DEF Changes
  <2>6. JobTypes(j, s)
    BY <2>4, <2>5 DEF JobTypes
  <2>7. QED
    BY <2>1, <2>3, <2>4, <2>6, Answered DEF DeployStages
<1>5. CASE CreateBootstrapToken(p)
  <2> DEFINE b == [o \in DOMAIN srv.boot \cup {job[p].org} |->
                     IF o = job[p].org THEN job[p].cmd ELSE srv.boot[o]]
             s == [srv EXCEPT !.boot = b]
  <2>1. Answer(p, s, job[p]) /\ Stage(p) = "boot_token"
    BY <1>5, Zenon DEF CreateBootstrapToken, Call, Answer, Asks, At, files
  <2>2. Changes(srv, s)
    BY <1>0, NodeChanges
  <2> HIDE DEF s
  <2>3. QED
    BY <2>1, <2>2, AnsweredSame
<1>6. CASE InstallNode(p)
  <2> DEFINE b == [srv.boot EXCEPT ![job[p].org] = 0]
             s == [srv EXCEPT !.boot = b]
  <2>1. /\ Stage(p) = "install" /\ pc[p] = "run" /\ Continue(p, job[p]) /\ srv' \in {srv, s}
        /\ UNCHANGED <<disk, overlap, faults, commands>>
    BY <1>6 DEF InstallNode, At, files
  <2>2. Changes(srv, s) /\ Changes(srv, srv)
    BY <1>0, NodeChanges, GrowsSelf
  <2> HIDE DEF s
  <2>3. Answer(p, srv', job[p]) /\ Changes(srv, srv')
    BY <2>1, <2>2 DEF Answer
  <2>4. QED
    BY <2>1, <2>3, AnsweredSame
<1>7. QED
  BY <1>1, <1>2, <1>3, <1>4, <1>5, <1>6

LEMMA OnAccountOK ==
  ASSUME TInv, NEW p \in Clis, StartClaim(p) \/ CreateToken(p) \/ RevokeToken(p)
  PROVE  RunEffect(p)
<1>0. TablesOK(srv)
  BY DEF TInv, ServerOK
<1>1. CASE StartClaim(p)
  <2> DEFINE s == [srv EXCEPT !.claims = @ \cup {Me(p)}]
  <2>1. Answer(p, s, job[p]) /\ Stage(p) = "claim"
    BY <1>1, Zenon DEF StartClaim, Call, Answer, Asks, At, files
  <2>2. Changes(srv, s)
    BY <1>0, NodeChanges
  <2> HIDE DEF s
  <2>3. QED
    BY <2>1, <2>2, AnsweredSame
<1>2. CASE CreateToken(p)
  <2> DEFINE s == Issue(srv, Me(p), TRUE)
  <2>1. Answer(p, s, job[p]) /\ Stage(p) = "token_create"
    BY <1>2, Zenon DEF CreateToken, Call, Answer, Asks, At, files
  <2>2. Changes(srv, s)
    BY <1>0, Issued
  <2> HIDE DEF s
  <2>3. QED
    BY <2>1, <2>2, AnsweredSame
<1>3. CASE RevokeToken(p)
  <2>1. PICK row \in DOMAIN srv.grants :
          /\ Answer(p, [srv EXCEPT !.grants[row].live = FALSE], job[p])
          /\ Stage(p) = "token_revoke"
    BY <1>3, Zenon DEF RevokeToken, Call, Answer, Asks, At, files
  <2> DEFINE s == [srv EXCEPT !.grants[row].live = FALSE]
  <2>2. Changes(srv, s) /\ Answer(p, s, job[p])
    BY <1>0, <2>1, Revoked
  <2> HIDE DEF s
  <2>3. QED
    BY <2>1, <2>2, AnsweredSame
<1>4. QED
  BY <1>1, <1>2, <1>3

-----------------------------------------------------------------------------
(* The steps on the workspace's files, and the ends of the polls *)

\* Two jobs that differ in what the invariant does not look at.
Alike(j, k) ==
  /\ IsJob(k) /\ k.todo = j.todo /\ k.cmd = j.cmd /\ k.via = j.via /\ k.tok = j.tok
  /\ k.ci = j.ci /\ k.org = j.org /\ k.project = j.project /\ k.env = j.env
  /\ k.item = j.item /\ k.held = j.held /\ k.next = j.next

LEMMA AlikeOK ==
  ASSUME NEW j, NEW k, Alike(j, k), NEW s
  PROVE  /\ JobTypes(j, s) => JobTypes(k, s)
         /\ \A t : Placed(t, j, s) => Placed(t, k, s)
BY DEF Alike, JobTypes, Placed, InItsEnv

LEMMA PollsOK ==
  ASSUME TInv, NEW p \in Clis, PollDeployment(p) \/ PollDiagnose(p) \/ Deadline(p)
  PROVE  RunEffect(p)
<1> DEFINE k == [job[p] EXCEPT !.again = FALSE]
<1>1. /\ pc[p] = "run" /\ UNCHANGED <<srv, disk, overlap, faults, commands>>
      /\ End(p) \/ Await(p, "run", k)
  BY DEF PollDeployment, PollDiagnose, Deadline, Asks, At, files
<1>2. CASE End(p)
  BY <1>1, <1>2, EndsRun
<1>3. CASE Await(p, "run", k)
  <2>1. JobOK(job[p], srv, commands) /\ JobTypes(job[p], srv)
    BY <1>1 DEF TInv, JobOK
  <2>2. Alike(job[p], k)
    BY <2>1 DEF Alike, JobTypes, IsJob
  <2> HIDE DEF k
  <2>3. JobOK(k, srv, commands) /\ k.cmd = job[p].cmd /\ k.via = job[p].via
    BY <2>1, <2>2, AlikeOK DEF JobOK, Alike
  <2>4. Ran(p, srv)
    BY <1>1, <1>3, <2>3, Awaits DEF Steps
  <2>5. Changes(srv, srv')
    BY <1>1, GrowsSelf DEF TInv, ServerOK
  <2>6. QED
    BY <1>1, <2>4, <2>5, RunStep
<1>4. QED
  BY <1>1, <1>2, <1>3

LEMMA OnFilesOK ==
  ASSUME TInv, NEW p \in Clis,
         SetMode(p) \/ UseOrganization(p) \/ SetEnvironment(p) \/ UpdateSecretRef(p)
           \/ CreateProviderNode(p) \/ ResolveImage(p)
  PROVE  RunEffect(p)
<1>1. Changes(srv, srv)
  BY GrowsSelf DEF TInv, ServerOK
<1>2. Answer(p, srv, job[p])
  BY DEF SetMode, UseOrganization, SetEnvironment, UpdateSecretRef, CreateProviderNode,
         ResolveImage, Local, Answer, Asks, At, files
<1>3. Stage(p) \in {"mode_use", "use_org", "use_env", "set_ref", "drop_ref", "server", "image"}
  BY DEF SetMode, UseOrganization, SetEnvironment, UpdateSecretRef, CreateProviderNode,
         ResolveImage, Local, Asks, At
<1>4. Stage(p) \notin {"inspect", "target", "release", "publish"}
  BY <1>3
<1>5. QED
  BY <1>1, <1>2, <1>4, AnsweredSame

LEMMA WriteConfigOK ==
  ASSUME TInv, NEW p \in Clis, WriteConfig(p)
  PROVE  RunEffect(p)
<1> DEFINE c == [org |-> srv.orgs[job[p].org].name, env |-> srv.envs[job[p].env].name,
                 ref |-> job[p].cfg # None /\ job[p].cfg.ref]
           j == [job[p] EXCEPT !.cfg = c]
<1>1. Answer(p, srv, j) /\ Stage(p) = "write_config"
  BY Zenon DEF WriteConfig, Local, Answer, At
<1> HIDE DEF c
<1>2. /\ IsJob(j) /\ j.todo = job[p].todo /\ j.cmd = job[p].cmd /\ j.via = job[p].via
      /\ j.tok = job[p].tok /\ j.ci = job[p].ci /\ j.org = job[p].org
      /\ j.project = job[p].project /\ j.env = job[p].env /\ j.held = job[p].held
      /\ j.next = job[p].next /\ j.item = job[p].item /\ JobTypes(job[p], srv)
  BY <1>1, JobFacts DEF Answer, IsJob
<1> HIDE DEF j
<1>3. JobTypes(j, srv)
  BY <1>2 DEF JobTypes
<1>4. Changes(srv, srv)
  BY GrowsSelf DEF TInv, ServerOK
<1>5. QED
  BY <1>1, <1>2, <1>3, <1>4, Answered

-----------------------------------------------------------------------------
(* The stages that choose what comes next *)

\* The stages of a plain command ask nothing of it.
LEMMA PlacedPlain ==
  ASSUME NEW t, StagesOK(t), Plain(t), NEW j, NEW s
  PROVE  Placed(t, j, s)
BY PlainIsNone DEF Placed

LEMMA SeekingHasNext ==
  ASSUME NEW t, StagesOK(t), Head(t) \in Seeking
  PROVE  Tail(t) # << >> /\ StagesOK(Tail(t)) /\ (Plain(t) => Plain(Tail(t)))
<1>1. Table(t) /\ t # << >> /\ t[Len(t)] \notin Seeking
  BY DEF StagesOK
<1>2. Len(t) # 1
  BY <1>1, SeqFacts
<1>3. Tail(t) # << >>
  BY <1>1, <1>2, SeqFacts
<1>4. QED
  BY <1>3, TailOK

LEMMA SkipOK ==
  ASSUME NEW t, StagesOK(t), Plain(t), NEW st
  PROVE  /\ Skipping(t, st) = << >> \/ (StagesOK(Skipping(t, st)) /\ Plain(Skipping(t, st)))
         /\ st \in Seeking => Skipping(t, st) # << >>
<1>1. CASE Head(t) = st
  BY <1>1, TailOK, SeekingHasNext DEF Skipping
<1>2. CASE Head(t) # st
  BY <1>2 DEF Skipping, StagesOK
<1>3. QED
  BY <1>1, <1>2

\* A command at "inspect" is a whole deploy, or releases nothing.
LEMMA AtInspect ==
  ASSUME NEW t, NEW j, NEW s, Placed(t, j, s), Head(t) = "inspect"
  PROVE  Plain(t) \/ (t = Deploy /\ \A r \in DOMAIN s.releases : s.releases[r].cmd # j.cmd)
<1>1. StagesOK(t) /\ Table(t) /\ t # << >>
  BY DEF Placed, StagesOK
<1>2. ~Releasing(t) /\ ~Polling(t)
  BY <1>1, SeqFacts DEF Releasing, Polling
<1>3. ~Late(t)
  <2>1. t[1] = "inspect" /\ Len(t) \in Nat /\ "inspect" \notin DeployStages
    BY <1>1, SeqFacts DEF DeployStages
  <2>2. CASE Len(t) = 3
    BY <2>1, <2>2 DEF Late
  <2>3. CASE Len(t) # 3
    BY <2>1, <2>3 DEF Late
  <2>4. QED
    BY <2>2, <2>3
<1>4. QED
  BY <1>2, <1>3 DEF Placed, Before

\* What a deploy that has resolved nothing asks of its next stages.
LEMMA PlacedLate ==
  ASSUME NEW u, StagesOK(u), Late(u), ~Resolved(u), NEW j, NEW s,
         \A r \in DOMAIN s.releases : s.releases[r].cmd # j.cmd
  PROVE  Placed(u, j, s)
<1>1. Before(u) /\ ~Releasing(u) /\ ~Polling(u)
  BY PollOK DEF Before, Releasing, Polling
<1>2. QED
  BY <1>1 DEF Placed

LEMMA InspectOK ==
  ASSUME TInv, NEW p \in Clis, Inspect(p)
  PROVE  RunEffect(p)
<1> DEFINE t == job[p].todo
           c == [job[p] EXCEPT !.cfg = cfg]
           d == [job[p] EXCEPT !.cfg = cfg, !.created = cfg = None]
<1>1. /\ pc[p] = "run" /\ UNCHANGED <<srv, disk, overlap, faults, commands>>
      /\ Stage(p) \in {"mode", "need_config", "has_service", "inspect", "load"}
  BY DEF Inspect, files
<1>2. /\ JobTypes(job[p], srv) /\ Placed(t, job[p], srv) /\ IsJob(job[p]) /\ StagesOK(t)
      /\ TablesOK(srv)
  BY <1>1, JobFacts
<1>3. Alike(job[p], c) /\ Alike(job[p], d)
  BY <1>2 DEF Alike, IsJob
<1>4. /\ JobTypes(c, srv) /\ JobTypes(d, srv) /\ \A l : Placed(l, job[p], srv) => Placed(l, c, srv)
  BY <1>2, <1>3, AlikeOK
<1>5. Changes(srv, srv)
  BY <1>2, GrowsSelf
<1>6. \/ End(p)
      \/ Stage(p) # "inspect" /\ Continue(p, job[p])
      \/ Stage(p) = "inspect" /\ GoOn(p, c, Instead(Tail(t)))
      \/ Stage(p) # "inspect" /\ Continue(p, d)
  BY DEF Inspect
<1>7. CASE End(p)
  BY <1>1, <1>7, EndsRun
<1>8. CASE Stage(p) # "inspect" /\ Continue(p, job[p])
  <2>1. Answer(p, srv, job[p])
    BY <1>1, <1>8 DEF Answer
  <2>2. Stage(p) \notin {"inspect", "target", "release", "publish"}
    BY <1>1, <1>8
  <2>3. QED
    BY <1>5, <2>1, <2>2, AnsweredSame
<1>9. CASE Stage(p) # "inspect" /\ Continue(p, d)
  <2>1. Answer(p, srv, d)
    BY <1>1, <1>9 DEF Answer
  <2>2. Stage(p) \notin {"inspect", "target", "release", "publish"}
    BY <1>1, <1>9
  <2> HIDE DEF d
  <2>3. /\ d.todo = job[p].todo /\ d.cmd = job[p].cmd /\ d.via = job[p].via
        /\ d.project = job[p].project /\ d.item = job[p].item
    BY <1>3 DEF Alike
  <2>4. QED
    BY <1>4, <1>5, <2>1, <2>2, <2>3, Answered
<1>10. CASE Stage(p) = "inspect" /\ GoOn(p, c, Instead(Tail(t)))
  <2>1. Head(t) = "inspect"
    BY <1>10 DEF Stage
  <2>2. Placed(Instead(Tail(t)), job[p], srv)
    <3>1. CASE Plain(t)
      <4>1. StagesOK(Tail(t)) /\ Plain(Tail(t))
        BY <1>2, <2>1, <3>1, SeekingHasNext DEF Seeking
      <4>2. QED
        BY <4>1, PlainInspects, PlacedPlain
    <3>2. CASE t = Deploy /\ \A r \in DOMAIN srv.releases : srv.releases[r].cmd # job[p].cmd
      <4> DEFINE u == Instead(Tail(Deploy))
      <4>1. StagesOK(u) /\ Late(u) /\ ~Resolved(u)
        BY DeployInspects
      <4> HIDE DEF u
      <4>2. QED
        BY <3>2, <4>1, PlacedLate DEF u
    <3>3. QED
      BY <1>2, <2>1, <3>1, <3>2, AtInspect
  <2>3. Placed(Instead(Tail(t)), c, srv)
    BY <1>4, <2>2
  <2> HIDE DEF c
  <2>4. c.cmd = job[p].cmd /\ c.via = job[p].via
    BY <1>3 DEF Alike
  <2>5. QED
    BY <1>1, <1>4, <1>10, <2>3, <2>4, Went
<1>11. QED
  BY <1>6, <1>7, <1>8, <1>9, <1>10

\* A number of the answer that the command keeps.
LEMMA KeepsOrg ==
  ASSUME NEW j, NEW s, JobTypes(j, s), NEW o \in 0..Len(s.orgs)
  PROVE  LET k == [j EXCEPT !.org = o] IN
         /\ JobTypes(k, s) /\ k.todo = j.todo /\ k.cmd = j.cmd /\ k.via = j.via
         /\ k.project = j.project /\ k.item = j.item
<1> DEFINE k == [j EXCEPT !.org = o]
<1>1. /\ IsJob(k) /\ k.todo = j.todo /\ k.cmd = j.cmd /\ k.via = j.via /\ k.tok = j.tok
      /\ k.ci = j.ci /\ k.org = o /\ k.project = j.project /\ k.env = j.env /\ k.item = j.item
      /\ k.held = j.held /\ k.next = j.next
  BY DEF JobTypes, IsJob
<1> HIDE DEF k
<1>2. JobTypes(k, s)
  BY <1>1 DEF JobTypes
<1>3. QED
  BY <1>1, <1>2 DEF k

LEMMA KeepsProject ==
  ASSUME NEW j, NEW s, JobTypes(j, s), NEW r \in 0..Len(s.projects)
  PROVE  LET k == [j EXCEPT !.project = r] IN
         JobTypes(k, s) /\ k.todo = j.todo /\ k.cmd = j.cmd /\ k.via = j.via
<1> DEFINE k == [j EXCEPT !.project = r]
<1>1. /\ IsJob(k) /\ k.todo = j.todo /\ k.cmd = j.cmd /\ k.via = j.via /\ k.tok = j.tok
      /\ k.ci = j.ci /\ k.org = j.org /\ k.project = r /\ k.env = j.env
      /\ k.held = j.held /\ k.next = j.next
  BY DEF JobTypes, IsJob
<1> HIDE DEF k
<1>2. JobTypes(k, s)
  BY <1>1 DEF JobTypes
<1>3. QED
  BY <1>1, <1>2 DEF k

LEMMA KeepsEnv ==
  ASSUME NEW j, NEW s, JobTypes(j, s), NEW e \in 0..Len(s.envs)
  PROVE  LET k == [j EXCEPT !.env = e] IN
         JobTypes(k, s) /\ k.todo = j.todo /\ k.cmd = j.cmd /\ k.via = j.via
<1> DEFINE k == [j EXCEPT !.env = e]
<1>1. /\ IsJob(k) /\ k.todo = j.todo /\ k.cmd = j.cmd /\ k.via = j.via /\ k.tok = j.tok
      /\ k.ci = j.ci /\ k.org = j.org /\ k.project = j.project /\ k.env = e
      /\ k.held = j.held /\ k.next = j.next
  BY DEF JobTypes, IsJob
<1> HIDE DEF k
<1>2. JobTypes(k, s)
  BY <1>1 DEF JobTypes
<1>3. QED
  BY <1>1, <1>2 DEF k

LEMMA ResolveOrganizationOK ==
  ASSUME TInv, NEW p \in Clis, ResolveOrganization(p)
  PROVE  RunEffect(p)
<1> DEFINE j     == job[p]
           mine  == OrgsOf(Me(p))
           named == {o \in mine : srv.orgs[o].name = OrganizationInput(j)}
           last  == mine \cap {LastOrganization}
           tail  == Tail(j.todo)
           rest  == Skipping(tail, "make_org")
           less  == Skipping(rest, "remember")
           Goes(o, t) == GoOn(p, [j EXCEPT !.org = o], t)
<1>1. /\ pc[p] = "run" /\ Stage(p) = "org" /\ UNCHANGED <<srv, disk, overlap, faults, commands>>
  BY DEF ResolveOrganization, Asks, At, files
<1>2. /\ JobTypes(j, srv) /\ Placed(j.todo, j, srv) /\ StagesOK(j.todo) /\ TablesOK(srv)
  BY <1>1, JobFacts
<1>3. /\ tail # << >> /\ StagesOK(tail) /\ Plain(tail)
  <2>1. Head(j.todo) = "org"
    BY <1>1 DEF Stage
  <2>2. Plain(j.todo)
    BY <1>2, <2>1, StageIsPlain DEF Placed, DeployStages
  <2>3. QED
    BY <1>2, <2>1, <2>2, SeekingHasNext DEF Seeking
<1>4. rest # << >> /\ StagesOK(rest) /\ Plain(rest)
  BY <1>3, SkipOK DEF Seeking
<1>5. less # << >> => StagesOK(less) /\ Plain(less)
  BY <1>4, SkipOK
<1>6. mine \subseteq Nat /\ mine \subseteq 0..Len(srv.orgs)
  BY <1>2, TablesFacts DEF OrgsOf
<1>7. ASSUME NEW o \in 0..Len(srv.orgs), NEW t, Goes(o, t), t # << >> => StagesOK(t) /\ Plain(t)
      PROVE  RunEffect(p)
  <2> DEFINE k == [j EXCEPT !.org = o]
  <2>1. JobTypes(k, srv) /\ k.cmd = j.cmd /\ k.via = j.via
    BY <1>2, KeepsOrg
  <2>2. GoOn(p, k, t)
    BY <1>7
  <2> HIDE DEF k
  <2>3. t # << >> => Placed(t, k, srv)
    BY <1>7, PlacedPlain
  <2>4. QED
    BY <1>1, <2>1, <2>2, <2>3, Went
<1>8. \/ named # {} /\ Goes(First(named), rest)
      \/ Goes(0, tail)
      \/ Cardinality(mine) = 1 /\ Goes(First(mine), rest)
      \/ last # {} /\ Goes(First(last), less)
      \/ End(p)
  BY Zenon DEF ResolveOrganization
<1> HIDE DEF mine, tail, rest, less, Goes
<1>9. CASE named # {} /\ Goes(First(named), rest)
  <2>1. named \subseteq Nat /\ named \subseteq mine
    BY <1>6
  <2>2. First(named) \in 0..Len(srv.orgs)
    BY <1>6, <1>9, <2>1, FirstIsIn
  <2>3. QED
    BY <1>4, <1>7, <1>9, <2>2
<1>10. CASE Goes(0, tail)
  <2>1. 0 \in 0..Len(srv.orgs)
    BY <1>2, TablesFacts
  <2>2. QED
    BY <1>3, <1>7, <1>10, <2>1
<1>11. CASE Cardinality(mine) = 1 /\ Goes(First(mine), rest)
  <2>1. mine # {}
    BY <1>11, FS_EmptySet
  <2>2. First(mine) \in 0..Len(srv.orgs)
    BY <1>6, <2>1, FirstIsIn
  <2>3. QED
    BY <1>4, <1>7, <1>11, <2>2
<1>12. CASE last # {} /\ Goes(First(last), less)
  <2>1. last \subseteq Nat /\ last \subseteq mine
    BY <1>6
  <2>2. First(last) \in 0..Len(srv.orgs)
    BY <1>6, <1>12, <2>1, FirstIsIn
  <2>3. QED
    BY <1>5, <1>7, <1>12, <2>2
<1>13. CASE End(p)
  BY <1>1, <1>13, EndsRun
<1>14. QED
  BY <1>8, <1>9, <1>10, <1>11, <1>12, <1>13

LEMMA FindsOK ==
  ASSUME TInv, NEW p \in Clis, FindProject(p) \/ FindEnvironment(p)
  PROVE  RunEffect(p)
<1> DEFINE j    == job[p]
           rest == Tail(j.todo)
           P    == ProjectsIn(srv, j.org)
           E    == EnvsIn(srv, j.project, EffectiveEnvironment(j.env_in, j.cfg))
           pj   == [j EXCEPT !.project = First(P)]
           ej   == [j EXCEPT !.env = First(E)]
<1>1. /\ pc[p] = "run" /\ Stage(p) \in {"project", "env"}
      /\ UNCHANGED <<srv, disk, overlap, faults, commands>>
  BY DEF FindProject, FindEnvironment, Find, Asks, At, files
<1>2. /\ JobTypes(j, srv) /\ Placed(j.todo, j, srv) /\ StagesOK(j.todo) /\ TablesOK(srv)
  BY <1>1, JobFacts
<1>3. /\ rest # << >> /\ StagesOK(rest) /\ Plain(rest)
  <2>1. Head(j.todo) \in {"project", "env"}
    BY <1>1 DEF Stage
  <2>2. Plain(j.todo)
    BY <1>2, <2>1, StageIsPlain DEF Placed, DeployStages
  <2>3. QED
    BY <1>2, <2>1, <2>2, SeekingHasNext DEF Seeking
<1>4. ASSUME NEW k, NEW t, GoOn(p, k, t), JobTypes(k, srv), k.cmd = j.cmd, k.via = j.via,
             t # << >> => StagesOK(t) /\ Plain(t)
      PROVE  RunEffect(p)
  <2>1. t # << >> => Placed(t, k, srv)
    BY <1>4, PlacedPlain
  <2>2. QED
    BY <1>1, <1>4, <2>1, Went
<1>5. \/ P # {} /\ GoOn(p, pj, Skipping(rest, "make_project"))
      \/ E # {} /\ GoOn(p, ej, Skipping(rest, "make_env"))
      \/ GoOn(p, j, rest)
      \/ End(p)
  BY Zenon DEF FindProject, FindEnvironment, Find
<1> HIDE DEF P, E
<1>6. CASE P # {} /\ GoOn(p, pj, Skipping(rest, "make_project"))
  <2>1. P \subseteq Nat /\ P \subseteq 0..Len(srv.projects)
    BY <1>2, TablesFacts DEF ProjectsIn, P
  <2>2. First(P) \in 0..Len(srv.projects)
    BY <1>6, <2>1, FirstIsIn
  <2>3. JobTypes(pj, srv) /\ pj.cmd = j.cmd /\ pj.via = j.via
    BY <1>2, <2>2, KeepsProject
  <2> DEFINE t == Skipping(rest, "make_project")
  <2>4. t # << >> => StagesOK(t) /\ Plain(t)
    BY <1>3, SkipOK
  <2> HIDE DEF pj, t
  <2>5. QED
    BY <1>4, <1>6, <2>3, <2>4 DEF t
<1>7. CASE E # {} /\ GoOn(p, ej, Skipping(rest, "make_env"))
  <2>1. E \subseteq Nat /\ E \subseteq 0..Len(srv.envs)
    BY <1>2, TablesFacts DEF EnvsIn, E
  <2>2. First(E) \in 0..Len(srv.envs)
    BY <1>7, <2>1, FirstIsIn
  <2>3. JobTypes(ej, srv) /\ ej.cmd = j.cmd /\ ej.via = j.via
    BY <1>2, <2>2, KeepsEnv
  <2> DEFINE t == Skipping(rest, "make_env")
  <2>4. t # << >> => StagesOK(t) /\ Plain(t)
    BY <1>3, SkipOK
  <2> HIDE DEF ej, t
  <2>5. QED
    BY <1>4, <1>7, <2>3, <2>4 DEF t
<1>8. CASE GoOn(p, j, rest)
  BY <1>2, <1>3, <1>4, <1>8
<1>9. CASE End(p)
  BY <1>1, <1>9, EndsRun
<1>10. QED
  BY <1>5, <1>6, <1>7, <1>8, <1>9

LEMMA CreatesOK ==
  ASSUME TInv, NEW p \in Clis, CreateOrganization(p) \/ CreateProject(p) \/ CreateEnvironment(p)
  PROVE  RunEffect(p)
<1> DEFINE j == job[p]
<1>0. TablesOK(srv)
  BY DEF TInv, ServerOK
<1>1. CASE CreateOrganization(p)
  <2> DEFINE name == OrganizationInput(j)
             s == AddOrg(srv, Me(p), IF name = None THEN "default" ELSE name)
             k == [j EXCEPT !.org = Len(srv.orgs) + 1]
  <2>1. Answer(p, s, k) /\ Stage(p) = "make_org"
    BY <1>1, Zenon DEF CreateOrganization, Call, Answer, Asks, At, files
  <2>2. Changes(srv, s) /\ Len(s.orgs) = Len(srv.orgs) + 1 /\ Len(srv.orgs) \in Nat
    BY <1>0, OrgAdded, TablesFacts
  <2> HIDE DEF s
  <2>3. JobTypes(j, s)
    BY <1>0, <2>1, <2>2, JobFacts, TypesGrow DEF Answer, Changes
  <2>4. Len(srv.orgs) + 1 \in 0..Len(s.orgs)
    BY <2>2
  <2>5. JobTypes(k, s) /\ k.todo = j.todo /\ k.cmd = j.cmd /\ k.via = j.via
    <3> DEFINE o == Len(srv.orgs) + 1
    <3>1. o \in 0..Len(s.orgs)
      BY <2>4
    <3> HIDE DEF o
    <3>2. LET l == [j EXCEPT !.org = o] IN
          JobTypes(l, s) /\ l.todo = j.todo /\ l.cmd = j.cmd /\ l.via = j.via
      BY <2>3, <3>1, KeepsOrg
    <3>3. QED
      BY <3>2 DEF o
  <2> HIDE DEF k
  <2>6. QED
    BY <2>1, <2>2, <2>5, Answered DEF DeployStages
<1>2. CASE CreateProject(p)
  <2> DEFINE s == AddProject(srv, j.org)
             k == [j EXCEPT !.project = Len(srv.projects) + 1]
  <2>1. Answer(p, s, k) /\ Stage(p) = "make_project"
    BY <1>2, Zenon DEF CreateProject, Call, Answer, Asks, At, files
  <2>2. Changes(srv, s) /\ Len(s.projects) = Len(srv.projects) + 1 /\ Len(srv.projects) \in Nat
    BY <1>0, ProjectAdded, TablesFacts
  <2> HIDE DEF s
  <2>3. JobTypes(j, s)
    BY <1>0, <2>1, <2>2, JobFacts, TypesGrow DEF Answer, Changes
  <2>4. Len(srv.projects) + 1 \in 0..Len(s.projects)
    BY <2>2
  <2>5. JobTypes(k, s) /\ k.todo = j.todo /\ k.cmd = j.cmd /\ k.via = j.via
    BY <2>3, <2>4, KeepsProject
  <2> HIDE DEF k
  <2>6. QED
    BY <2>1, <2>2, <2>5, Answered DEF DeployStages
<1>3. CASE CreateEnvironment(p)
  <2> DEFINE s == AddEnv(srv, j.project, EffectiveEnvironment(j.env_in, j.cfg))
             k == [j EXCEPT !.env = Len(srv.envs) + 1]
  <2>1. Answer(p, s, k) /\ Stage(p) = "make_env"
    BY <1>3, Zenon DEF CreateEnvironment, Call, Answer, Asks, At, files
  <2>2. Changes(srv, s) /\ Len(s.envs) = Len(srv.envs) + 1 /\ Len(srv.envs) \in Nat
    BY <1>0, EnvAdded, TablesFacts
  <2> HIDE DEF s
  <2>3. JobTypes(j, s)
    BY <1>0, <2>1, <2>2, JobFacts, TypesGrow DEF Answer, Changes
  <2>4. Len(srv.envs) + 1 \in 0..Len(s.envs)
    BY <2>2
  <2>5. JobTypes(k, s) /\ k.todo = j.todo /\ k.cmd = j.cmd /\ k.via = j.via
    BY <2>3, <2>4, KeepsEnv
  <2> HIDE DEF k
  <2>6. QED
    BY <2>1, <2>2, <2>5, Answered DEF DeployStages
<1>4. QED
  BY <1>1, <1>2, <1>3

-----------------------------------------------------------------------------
(* The requests of a deploy *)

LEMMA ResolveDeployTargetOK ==
  ASSUME TInv, NEW p \in Clis, ResolveDeployTarget(p)
  PROVE  RunEffect(p)
<1> DEFINE j     == job[p]
           name  == OrganizationInput(j)
           found == TargetOrgs(Me(p), name, LastOrganization)
           env   == EffectiveEnvironment(j.env_in, j.cfg)
           a1    == AddOrg(srv, Me(p), IF name = None THEN "default" ELSE name)
           s1    == IF found # {} THEN srv ELSE a1
           o     == IF found # {} THEN First(found) ELSE Len(s1.orgs)
           s2    == IF ProjectsIn(s1, o) # {} THEN s1 ELSE AddProject(s1, o)
           r     == First(ProjectsIn(s2, o))
           s3    == IF EnvsIn(s2, r, env) # {} THEN s2 ELSE AddEnv(s2, r, env)
           e     == First(EnvsIn(s3, r, env))
           k     == [j EXCEPT !.org = o, !.project = r, !.env = e]
<1>0. TablesOK(srv)
  BY DEF TInv, ServerOK
<1>1. Answer(p, s3, k) /\ Stage(p) = "target"
  BY Zenon DEF ResolveDeployTarget, Call, Answer, Asks, At, files
<1>2. found \subseteq DOMAIN srv.orgs
  BY DEF TargetOrgs, OrgsOf
<1>3. Changes(srv, a1) /\ Len(a1.orgs) = Len(srv.orgs) + 1
  BY <1>0, OrgAdded
<1> HIDE DEF found, a1, name, env
<1>4. Changes(srv, s1) /\ TablesOK(s1) /\ o \in DOMAIN s1.orgs
  <2>1. CASE found # {}
    <3>1. found \subseteq Nat
      BY <1>0, <1>2, TablesFacts
    <3>2. o \in DOMAIN srv.orgs
      BY <1>2, <2>1, <3>1, FirstIsIn
    <3>3. QED
      BY <1>0, <2>1, <3>2, GrowsSelf
  <2>2. CASE found = {}
    <3>1. TablesOK(a1) /\ o = Len(a1.orgs) /\ s1 = a1
      BY <1>3, <2>2 DEF Changes
    <3>2. Len(a1.orgs) \in 1..Len(a1.orgs)
      BY <1>0, <1>3, TablesFacts
    <3>3. QED
      BY <1>3, <3>1, <3>2, TablesFacts
  <2>3. QED
    BY <2>1, <2>2
<1> HIDE DEF s1, o
<1>5. Changes(s1, s2) /\ TablesOK(s2) /\ s2.orgs = s1.orgs /\ ProjectsIn(s2, o) # {}
  <2>1. CASE ProjectsIn(s1, o) # {}
    BY <1>4, <2>1, GrowsSelf
  <2>2. CASE ProjectsIn(s1, o) = {}
    <3> DEFINE a2 == AddProject(s1, o)
               n  == Len(s1.projects) + 1
    <3>1. /\ Changes(s1, a2) /\ Len(a2.projects) = n /\ a2.orgs = s1.orgs
          /\ a2.projects[n] = [org |-> o, live |-> TRUE] /\ Len(s1.projects) \in Nat
      BY <1>4, ProjectAdded, TablesFacts
    <3> HIDE DEF a2
    <3>2. TablesOK(a2) /\ n \in DOMAIN a2.projects
      BY <3>1, TablesFacts DEF Changes
    <3>3. n \in ProjectsIn(a2, o)
      BY <3>1, <3>2 DEF ProjectsIn
    <3>4. QED
      BY <2>2, <3>1, <3>2, <3>3 DEF a2
  <2>3. QED
    BY <2>1, <2>2
<1> HIDE DEF s2
<1>6. r \in DOMAIN s2.projects /\ s2.projects[r].org = o
  <2>1. ProjectsIn(s2, o) \subseteq Nat
    BY <1>5, TablesFacts DEF ProjectsIn
  <2>2. r \in ProjectsIn(s2, o)
    BY <1>5, <2>1, FirstIsIn
  <2> HIDE DEF r
  <2>3. QED
    BY <2>2 DEF ProjectsIn
<1> HIDE DEF r
<1>7. /\ Changes(s2, s3) /\ TablesOK(s3) /\ s3.orgs = s2.orgs /\ s3.projects = s2.projects
      /\ EnvsIn(s3, r, env) # {}
  <2>1. CASE EnvsIn(s2, r, env) # {}
    BY <1>5, <2>1, GrowsSelf
  <2>2. CASE EnvsIn(s2, r, env) = {}
    <3> DEFINE a3 == AddEnv(s2, r, env)
               n  == Len(s2.envs) + 1
               x  == a3.envs[n]
    <3>1. /\ Changes(s2, a3) /\ Len(a3.envs) = n /\ a3.orgs = s2.orgs /\ a3.projects = s2.projects
          /\ x.live /\ x.project = r /\ x.name = env /\ Len(s2.envs) \in Nat
      BY <1>5, EnvAdded, TablesFacts
    <3> HIDE DEF a3
    <3>2. TablesOK(a3) /\ n \in DOMAIN a3.envs
      BY <3>1, TablesFacts DEF Changes
    <3>3. n \in EnvsIn(a3, r, env)
      BY <3>1, <3>2 DEF EnvsIn
    <3>4. QED
      BY <2>2, <3>1, <3>2, <3>3 DEF a3
  <2>3. QED
    BY <2>1, <2>2
<1> HIDE DEF s3
<1>8. e \in DOMAIN s3.envs
  <2>1. EnvsIn(s3, r, env) \subseteq Nat /\ EnvsIn(s3, r, env) \subseteq DOMAIN s3.envs
    BY <1>7, TablesFacts DEF EnvsIn
  <2>2. QED
    BY <1>7, <2>1, FirstIsIn
<1> HIDE DEF e
<1>9. Changes(srv, s3)
  <2>1. Changes(srv, s2)
    BY <1>0, <1>4, <1>5, GrowsTransitive
  <2>2. QED
    BY <1>0, <1>7, <2>1, GrowsTransitive
<1>10. ProjectOK(s3, r)
  BY <1>4, <1>5, <1>6, <1>7 DEF ProjectOK
<1>11. /\ o \in 0..Len(s3.orgs) /\ r \in 0..Len(s3.projects) /\ e \in 0..Len(s3.envs)
  BY <1>4, <1>5, <1>6, <1>7, <1>8, TablesFacts
<1>12. /\ JobTypes(j, srv) /\ Placed(j.todo, j, srv) /\ StagesOK(j.todo)
  BY <1>1, JobFacts DEF Answer
<1>13. /\ IsJob(k) /\ k.todo = j.todo /\ k.cmd = j.cmd /\ k.via = j.via /\ k.tok = j.tok
       /\ k.ci = j.ci /\ k.org = o /\ k.project = r /\ k.env = e
       /\ k.held = j.held /\ k.next = j.next
  BY <1>12 DEF JobTypes, IsJob
<1> HIDE DEF k
<1>14. JobTypes(k, s3)
  <2>1. JobTypes(j, s3)
    BY <1>0, <1>7, <1>9, <1>12, TypesGrow DEF Changes
  <2>2. QED
    BY <1>11, <1>13, <2>1 DEF JobTypes
<1> DEFINE t == j.todo
<1>15. Tail(t) # << >> => Placed(Tail(t), k, s3)
  <2> SUFFICES ASSUME Tail(t) # << >> PROVE Placed(Tail(t), k, s3)
    OBVIOUS
  <2>1. StagesOK(Tail(t)) /\ Table(t) /\ t # << >> /\ Head(t) = "target"
    BY <1>1, <1>12, TailOK DEF StagesOK, Stage
  <2>2. CASE Plain(t)
    BY <1>12, <2>1, <2>2, TailOK, PlacedPlain
  <2>3. CASE ~Plain(t)
    <3>1. t # Deploy /\ ~Releasing(t) /\ ~Polling(t)
      BY <2>1, SeqFacts DEF Deploy, Releasing, Polling
    <3>2. Late(t) /\ Before(t)
      BY <1>12, <2>3, <3>1 DEF Placed, Before
    <3>3. Late(Tail(t)) /\ Before(Tail(t)) /\ ~Releasing(Tail(t)) /\ ~Polling(Tail(t))
      BY <1>12, <2>1, <3>2, TailOK, PollOK DEF Before, Releasing, Polling
    <3>4. \A q \in DOMAIN s3.releases : s3.releases[q].cmd # k.cmd
      BY <1>9, <1>12, <1>13, <3>2 DEF Placed, Changes
    <3>5. QED
      BY <1>10, <1>13, <2>1, <3>3, <3>4 DEF Placed
  <2>4. QED
    BY <2>2, <2>3
<1>16. CASE UNCHANGED srv /\ End(p)
  BY <1>1, <1>16, EndsRun DEF Answer
<1>17. CASE srv' = s3 /\ Continue(p, k)
  <2>1. GoOn(p, k, Tail(t)) /\ pc[p] = "run"
    BY <1>1, <1>13, <1>17 DEF Continue, Answer
  <2>2. Ran(p, s3)
    BY <1>13, <1>14, <1>15, <2>1, GoesOn
  <2>3. QED
    BY <1>1, <1>9, <1>17, <2>2, RunStep DEF Answer
<1>18. QED
  BY <1>1, <1>16, <1>17 DEF Answer

\* A request of the command c on releases and deployments.
Releases(s, t, n, c) ==
  /\ ServerOK(t, n) /\ Grows(s, t) /\ Adds(s, t, c) /\ KeepsGrants(s, t) /\ t.users = s.users

LEMMA ReleaseAdded ==
  ASSUME NEW s, NEW n, ServerOK(s, n), NEW r, ProjectOK(s, r), NEW c \in 1..n,
         \A q \in DOMAIN s.releases : s.releases[q].cmd # c
  PROVE  LET t == [s EXCEPT !.releases = Append(@, [project |-> r, cmd |-> c])]
             i == Len(s.releases) + 1
         IN /\ Releases(s, t, n, c) /\ i \in DOMAIN t.releases /\ t.releases[i].cmd = c
            /\ t.deployments = s.deployments
<1> DEFINE x == [project |-> r, cmd |-> c]
           v == Append(s.releases, x)
           t == [s EXCEPT !.releases = v]
           m == Len(s.releases)
<1>1. TablesOK(s) /\ ReleasesOK(s, n) /\ DeploymentsOK(s) /\ Table(s.releases)
  BY DEF ServerOK, TablesOK
<1>2. /\ IsServer(t) /\ t.users = s.users /\ t.drawn = s.drawn /\ t.grants = s.grants
      /\ t.orgs = s.orgs /\ t.projects = s.projects /\ t.envs = s.envs
      /\ t.deployments = s.deployments /\ t.releases = v
  BY <1>1 DEF TablesOK, IsServer
<1>3. /\ Table(v) /\ Len(v) = m + 1 /\ DOMAIN v = 1..(m + 1)
      /\ \A i \in 1..m : v[i] = s.releases[i]
      /\ v[m + 1] = x
  BY <1>1, Appended
<1>4. m \in Nat /\ DOMAIN s.releases = 1..m
  BY <1>1, TablesFacts
<1>5. x.project = r /\ x.cmd = c
  OBVIOUS
<1> HIDE DEF t, v, x, m
<1>6. TablesOK(t)
  BY <1>1, <1>2, <1>3 DEF TablesOK
<1>7. Grows(s, t) /\ KeepsGrants(s, t)
  BY <1>1, <1>2, TablesFacts DEF Grows, KeepsGrants
<1>8. \A q : ProjectOK(s, q) => ProjectOK(t, q)
  BY <1>2 DEF ProjectOK
<1>9. \A i \in DOMAIN v : \/ i \in DOMAIN s.releases /\ v[i] = s.releases[i]
                          \/ i = m + 1 /\ v[i] = x
  BY <1>3, <1>4
<1>10. ReleasesOK(t, n)
  <2>1. ASSUME NEW i \in DOMAIN v
        PROVE  v[i].cmd \in 1..n /\ ProjectOK(t, v[i].project)
    <3>1. CASE i \in DOMAIN s.releases /\ v[i] = s.releases[i]
      BY <1>1, <1>2, <1>8, <3>1 DEF ReleasesOK
    <3>2. CASE i = m + 1 /\ v[i] = x
      BY <1>2, <1>5, <1>8, <3>2
    <3>3. QED
      BY <1>9, <3>1, <3>2
  <2>2. ASSUME NEW i \in DOMAIN v, NEW q \in DOMAIN v, v[i].cmd = v[q].cmd
        PROVE  i = q
    BY <1>1, <1>5, <1>9, <2>2 DEF ReleasesOK
  <2>3. QED
    BY <1>2, <2>1, <2>2 DEF ReleasesOK
<1>11. DeploymentsOK(t)
  <2>1. \A i \in DOMAIN s.releases : i \in DOMAIN v /\ v[i] = s.releases[i]
    BY <1>3, <1>4
  <2>2. QED
    BY <1>1, <1>2, <2>1 DEF DeploymentsOK
<1>12. Adds(s, t, c)
  <2>1. Len(s.releases) <= Len(t.releases)
    BY <1>2, <1>3, <1>4 DEF m
  <2>2. \A i \in DOMAIN s.releases : t.releases[i] = s.releases[i]
    BY <1>2, <1>3, <1>4
  <2>3. Len(s.deployments) \in Nat
    BY <1>1, TablesFacts
  <2>4. QED
    BY <1>2, <1>5, <1>9, <2>1, <2>2, <2>3 DEF Adds
<1>13. m + 1 \in DOMAIN t.releases /\ t.releases[m + 1].cmd = c
  BY <1>2, <1>3, <1>4, <1>5
<1>14. Releases(s, t, n, c) /\ t.deployments = s.deployments
  BY <1>2, <1>6, <1>7, <1>10, <1>11, <1>12 DEF Releases, ServerOK
<1>15. QED
  BY <1>13, <1>14, Zenon DEF t, v, x, m

LEMMA ReleasePublished ==
  ASSUME NEW s, NEW n, ServerOK(s, n), NEW i \in DOMAIN s.releases, NEW e, NEW c,
         c = s.releases[i].cmd
  PROVE  LET t == PublishRelease(s, i, e, c) IN
         /\ Releases(s, t, n, c)
         /\ \E d \in DOMAIN t.deployments : t.deployments[d].token = c
         /\ \A d \in DOMAIN t.deployments : t.deployments[d].token = c =>
              \/ t.deployments[d].env = e
              \/ d \in DOMAIN s.deployments /\ t.deployments[d] = s.deployments[d]
<1>1. TablesOK(s) /\ ReleasesOK(s, n) /\ DeploymentsOK(s) /\ Table(s.deployments)
  BY DEF ServerOK, TablesOK
<1>2. CASE \E d \in DOMAIN s.deployments : s.deployments[d].token = c
  <2>1. PublishRelease(s, i, e, c) = s
    BY <1>2 DEF PublishRelease
  <2>2. QED
    BY <1>1, <1>2, <2>1, GrowsSelf DEF Releases
<1>3. CASE ~\E d \in DOMAIN s.deployments : s.deployments[d].token = c
  <2> DEFINE x == [release |-> i, env |-> e, token |-> c, status |-> "running"]
             v == Append(s.deployments, x)
             t == [s EXCEPT !.deployments = v]
             m == Len(s.deployments)
  <2>1. PublishRelease(s, i, e, c) = t
    BY <1>3 DEF PublishRelease
  <2>2. /\ IsServer(t) /\ t.users = s.users /\ t.drawn = s.drawn /\ t.grants = s.grants
        /\ t.orgs = s.orgs /\ t.projects = s.projects /\ t.envs = s.envs
        /\ t.releases = s.releases /\ t.deployments = v
    BY <1>1 DEF TablesOK, IsServer
  <2>3. /\ Table(v) /\ DOMAIN v = 1..(m + 1) /\ Len(v) = m + 1 /\ v[m + 1] = x
        /\ \A d \in 1..m : v[d] = s.deployments[d]
    BY <1>1, Appended
  <2>4. m \in Nat /\ DOMAIN s.deployments = 1..m
    BY <1>1, TablesFacts
  <2>5. /\ {"release", "token", "env"} \subseteq DOMAIN x /\ x.release = i /\ x.token = c
        /\ x.env = e
    OBVIOUS
  <2> HIDE DEF t, v, x, m
  <2>6. TablesOK(t)
    BY <1>1, <2>2, <2>3 DEF TablesOK
  <2>7. Grows(s, t) /\ KeepsGrants(s, t)
    BY <1>1, <2>2, TablesFacts DEF Grows, KeepsGrants
  <2>8. Adds(s, t, c)
    <3>1. Len(s.deployments) <= Len(v)
      BY <2>3, <2>4 DEF m
    <3>2. \A d \in DOMAIN s.deployments : v[d] = s.deployments[d]
      BY <2>3, <2>4
    <3>3. \A d \in DOMAIN v : d \notin DOMAIN s.deployments => v[d].token = c
      BY <2>3, <2>4, <2>5
    <3>4. Len(s.releases) \in Nat
      BY <1>1, TablesFacts
    <3>5. QED
      BY <2>2, <3>1, <3>2, <3>3, <3>4 DEF Adds
  <2>9. ReleasesOK(t, n)
    BY <1>1, <2>2 DEF ReleasesOK, ProjectOK
  <2>10. \A d \in DOMAIN v : \/ d \in DOMAIN s.deployments /\ v[d] = s.deployments[d]
                             \/ d = m + 1 /\ v[d] = x
    BY <2>3, <2>4
  <2>11. DeploymentsOK(t)
    <3>1. ASSUME NEW d \in DOMAIN v
          PROVE  /\ {"release", "token", "env"} \subseteq DOMAIN v[d]
                 /\ v[d].release \in DOMAIN s.releases
                 /\ v[d].token = s.releases[v[d].release].cmd
      <4>1. CASE d \in DOMAIN s.deployments /\ v[d] = s.deployments[d]
        BY <1>1, <4>1 DEF DeploymentsOK
      <4>2. CASE d = m + 1 /\ v[d] = x
        BY <2>5, <4>2
      <4>3. QED
        BY <2>10, <4>1, <4>2
    <3>2. ASSUME NEW d \in DOMAIN v, NEW f \in DOMAIN v, v[d].token = v[f].token
          PROVE  d = f
      BY <1>1, <1>3, <2>5, <2>10, <3>2 DEF DeploymentsOK
    <3>3. QED
      BY <2>2, <3>1, <3>2 DEF DeploymentsOK
  <2>12. Releases(s, t, n, c)
    BY <2>2, <2>6, <2>7, <2>8, <2>9, <2>11 DEF Releases, ServerOK
  <2>13. m + 1 \in DOMAIN v /\ v[m + 1].token = c
    BY <2>3, <2>4, <2>5
  <2>14. \A d \in DOMAIN v : v[d].env = e \/ (d \in DOMAIN s.deployments /\ v[d] = s.deployments[d])
    BY <2>5, <2>10
  <2>15. QED
    BY <2>1, <2>2, <2>12, <2>13, <2>14
<1>4. QED
  BY <1>2, <1>3

LEMMA RunReleases ==
  ASSUME TInv, NEW p \in Clis, Ran(p, srv'), Releases(srv, srv', commands, job[p].cmd),
         UNCHANGED <<disk, overlap, commands>>, faults' \in {faults, faults + 1}
  PROVE  RunEffect(p)
<1>1. TablesOK(srv) /\ TablesOK(srv') /\ DiskOK(disk, srv) /\ Grows(srv, srv')
  BY DEF TInv, ServerOK, Releases
<1>2. DiskOK(disk', srv')
  BY <1>1, DiskGrows
<1>3. pc[p] # "idle" /\ Moved(p, srv')
  BY DEF Ran
<1>4. QED
  BY <1>2, <1>3 DEF RunEffect, Effect, Releases

\* A command keeps the number of what was created.
LEMMA KeepsItem ==
  ASSUME NEW j, NEW s, JobTypes(j, s), NEW i
  PROVE  LET k == [j EXCEPT !.item = i] IN
         /\ JobTypes(k, s) /\ k.todo = j.todo /\ k.cmd = j.cmd /\ k.via = j.via
         /\ k.item = i /\ k.env = j.env
<1> DEFINE k == [j EXCEPT !.item = i]
<1>1. /\ IsJob(k) /\ k.todo = j.todo /\ k.cmd = j.cmd /\ k.via = j.via /\ k.tok = j.tok
      /\ k.ci = j.ci /\ k.org = j.org /\ k.project = j.project /\ k.env = j.env /\ k.item = i
      /\ k.held = j.held /\ k.next = j.next
  BY DEF JobTypes, IsJob
<1> HIDE DEF k
<1>2. JobTypes(k, s)
  BY <1>1 DEF JobTypes
<1>3. QED
  BY <1>1, <1>2 DEF k

LEMMA CreateReleaseOK ==
  ASSUME TInv, NEW p \in Clis, CreateRelease(p)
  PROVE  RunEffect(p)
<1> DEFINE j == job[p]
           i == Len(srv.releases) + 1
           s == [srv EXCEPT !.releases = Append(@, [project |-> j.project, cmd |-> j.cmd])]
           k == [j EXCEPT !.item = i]
<1>1. /\ pc[p] = "run" /\ Stage(p) = "release" /\ UNCHANGED <<disk, overlap, faults, commands>>
      /\ \/ OwnsProject(Me(p), j.project) /\ srv' = s /\ Continue(p, k)
         \/ UNCHANGED srv /\ End(p)
  BY Zenon DEF CreateRelease, Call, Asks, At, files
<1>2. /\ JobTypes(j, srv) /\ j.cmd \in 1..commands /\ Placed(j.todo, j, srv)
      /\ TablesOK(srv) /\ ServerOK(srv, commands) /\ StagesOK(j.todo)
  BY <1>1, JobFacts
<1>3. CASE UNCHANGED srv /\ End(p)
  BY <1>1, <1>3, EndsRun
<1>4. CASE OwnsProject(Me(p), j.project) /\ srv' = s /\ Continue(p, k)
  <2>1. Before(j.todo) /\ Resolved(j.todo) /\ Releasing(Tail(j.todo))
    BY <1>1, <1>2, AtRelease DEF Placed, Before, Stage
  <2>2. ProjectOK(srv, j.project) /\ \A q \in DOMAIN srv.releases : srv.releases[q].cmd # j.cmd
    BY <1>2, <2>1 DEF Placed
  <2>3. DeploymentsOK(srv)
    BY <1>2 DEF ServerOK
  <2>4. /\ Releases(srv, s, commands, j.cmd) /\ i \in DOMAIN s.releases
        /\ s.releases[i].cmd = j.cmd /\ s.deployments = srv.deployments
    BY <1>2, <2>2, ReleaseAdded
  <2> HIDE DEF s, i
  <2>5. JobTypes(j, s)
    BY <1>2, <2>4, TypesGrow DEF Releases, ServerOK
  <2>6. JobTypes(k, s) /\ k.todo = j.todo /\ k.cmd = j.cmd /\ k.via = j.via /\ k.item = i
    BY <2>5, KeepsItem
  <2> HIDE DEF k
  <2>7. Placed(Tail(j.todo), k, s)
    <3> DEFINE t == <<"publish", "poll">>
    <3>1. Tail(j.todo) = t
      BY <2>1 DEF Releasing
    <3>2. StagesOK(t) /\ ~Before(t) /\ Releasing(t) /\ ~Resolved(t) /\ ~Polling(t)
      BY PollOK DEF Releasing, Resolved, Before
    <3> HIDE DEF t
    <3>3. InItsEnv(k, s)
      BY <2>2, <2>3, <2>4, <2>6 DEF InItsEnv, DeploymentsOK
    <3>4. QED
      BY <2>4, <2>6, <3>1, <3>2, <3>3 DEF Placed
  <2>8. GoOn(p, k, Tail(j.todo))
    BY <1>4, <2>6 DEF Continue
  <2>9. Ran(p, s)
    BY <1>1, <2>6, <2>7, <2>8, GoesOn
  <2>10. QED
    BY <1>1, <1>4, <2>4, <2>9, RunReleases
<1>5. QED
  BY <1>1, <1>3, <1>4

LEMMA PublishesOK ==
  ASSUME TInv, NEW p \in Clis, Publish(p) \/ PublishTimesOut(p)
  PROVE  RunEffect(p)
<1> DEFINE j == job[p]
           s == Published(p)
           i == First({d \in DOMAIN s.deployments : s.deployments[d].token = RequestToken(j)})
           k == [j EXCEPT !.item = i]
           l == [j EXCEPT !.tries = 1]
<1>1. /\ pc[p] = "run" /\ Stage(p) = "publish" /\ UNCHANGED <<disk, overlap, commands>>
      /\ \/ srv' = s /\ Continue(p, k) /\ faults' = faults
         \/ UNCHANGED srv /\ End(p) /\ faults' = faults
         \/ srv' \in {srv, s} /\ Await(p, "run", l) /\ faults' = faults + 1
  BY Zenon DEF Publish, PublishTimesOut, Call, Asks, At, files
<1>2. /\ JobTypes(j, srv) /\ j.cmd \in 1..commands /\ Placed(j.todo, j, srv)
      /\ TablesOK(srv) /\ ServerOK(srv, commands) /\ StagesOK(j.todo)
  BY <1>1, JobFacts
<1>3. Releasing(j.todo) /\ Tail(j.todo) = <<"poll">>
  BY <1>1, <1>2, AtRelease DEF Placed, Stage
<1>4. /\ j.item \in DOMAIN srv.releases /\ srv.releases[j.item].cmd = j.cmd
      /\ InItsEnv(j, srv)
  BY <1>2, <1>3 DEF Placed
<1>5. Releases(srv, s, commands, j.cmd) /\ Releases(srv, srv, commands, j.cmd)
  <2>1. Releases(srv, s, commands, j.cmd)
    BY <1>2, <1>4, ReleasePublished DEF Published, RequestToken
  <2>2. QED
    BY <1>2, <2>1, GrowsSelf DEF Releases
<1>a. /\ \E d \in DOMAIN s.deployments : s.deployments[d].token = j.cmd
      /\ InItsEnv(j, s)
  <2>1. /\ \E d \in DOMAIN s.deployments : s.deployments[d].token = j.cmd
        /\ \A d \in DOMAIN s.deployments : s.deployments[d].token = j.cmd =>
             \/ s.deployments[d].env = j.env
             \/ d \in DOMAIN srv.deployments /\ s.deployments[d] = srv.deployments[d]
    BY <1>2, <1>4, ReleasePublished DEF Published, RequestToken
  <2> HIDE DEF s
  <2>2. QED
    BY <1>4, <2>1 DEF InItsEnv
<1> HIDE DEF s
<1>b. i \in DOMAIN s.deployments /\ s.deployments[i].token = j.cmd
  <2> DEFINE D == {d \in DOMAIN s.deployments : s.deployments[d].token = j.cmd}
  <2>1. D # {} /\ D \subseteq Nat
    BY <1>5, <1>a, TablesFacts DEF Releases, ServerOK
  <2>2. i = First(D)
    BY DEF RequestToken
  <2> HIDE DEF D, i
  <2>3. i \in D
    BY <2>1, <2>2, FirstIsIn
  <2>4. QED
    BY <2>3 DEF D
<1> HIDE DEF i
<1>6. CASE srv' = s /\ Continue(p, k) /\ faults' = faults
  <2>1. JobTypes(j, s)
    BY <1>2, <1>5, TypesGrow DEF Releases, ServerOK
  <2>2. /\ JobTypes(k, s) /\ k.todo = j.todo /\ k.cmd = j.cmd /\ k.via = j.via
        /\ k.item = i /\ k.env = j.env
    BY <2>1, KeepsItem
  <2> HIDE DEF k
  <2>3. Placed(Tail(j.todo), k, s)
    <3> DEFINE t == <<"poll">>
    <3>1. StagesOK(t) /\ ~Before(t) /\ ~Releasing(t) /\ ~Resolved(t) /\ Polling(t)
      BY PollOK DEF Resolved, Before, Polling
    <3> HIDE DEF t
    <3>2. InItsEnv(k, s)
      BY <1>a, <2>2 DEF InItsEnv
    <3>3. Placed(t, k, s)
      BY <1>b, <2>2, <3>1, <3>2 DEF Placed
    <3>4. QED
      BY <1>3, <3>3 DEF t
  <2>4. GoOn(p, k, Tail(j.todo))
    BY <1>6, <2>2 DEF Continue
  <2>5. Ran(p, s)
    BY <1>1, <2>2, <2>3, <2>4, GoesOn
  <2>6. QED
    BY <1>1, <1>5, <1>6, <2>5, RunReleases
<1>7. CASE UNCHANGED srv /\ End(p) /\ faults' = faults
  BY <1>1, <1>7, EndsRun
<1>8. CASE srv' \in {srv, s} /\ Await(p, "run", l) /\ faults' = faults + 1
  <2>1. Alike(j, l)
    BY <1>2 DEF Alike, JobTypes, IsJob
  <2>2. Releases(srv, srv', commands, j.cmd)
    BY <1>5, <1>8
  <2>3. TablesOK(srv') /\ Grows(srv, srv') /\ Adds(srv, srv', j.cmd)
    BY <2>2 DEF Releases, ServerOK
  <2> HIDE DEF l
  <2>4. JobTypes(l, srv')
    BY <1>2, <2>1, <2>3, TypesGrow, AlikeOK
  <2>5. Placed(l.todo, l, srv')
    <3>1. l.todo = j.todo /\ l.item = j.item /\ l.cmd = j.cmd /\ l.env = j.env
      BY <2>1 DEF Alike
    <3>2. ~Before(j.todo) /\ ~Resolved(j.todo) /\ ~Polling(j.todo)
      BY <1>3, PollOK DEF Releasing, Resolved, Before
    <3>3. j.item \in DOMAIN srv'.releases /\ srv'.releases[j.item].cmd = j.cmd
      BY <1>2, <1>4, <2>3, TablesFacts DEF Adds
    <3>4. InItsEnv(l, srv')
      BY <1>4, <1>8, <1>a, <3>1 DEF InItsEnv
    <3>5. QED
      BY <1>2, <1>3, <3>1, <3>2, <3>3, <3>4 DEF Placed
  <2>6. JobOK(l, srv', commands) /\ l.cmd = j.cmd /\ l.via = j.via
    BY <1>2, <2>1, <2>4, <2>5 DEF JobOK, Alike
  <2>7. Ran(p, srv')
    BY <1>1, <1>8, <2>6, Awaits DEF Steps
  <2>8. QED
    BY <1>1, <1>8, <2>2, <2>7, RunReleases
<1>9. QED
  BY <1>1, <1>6, <1>7, <1>8

\* Every step of a command but those on its session.
LEMMA RunsOK ==
  ASSUME TInv, NEW p \in Clis, OnWorkspace(p) \/ Request(p) \/ PublishTimesOut(p)
  PROVE  RunEffect(p)
BY DeletesOK, OnNodeOK, OnAccountOK, PollsOK, OnFilesOK, WriteConfigOK, InspectOK,
   ResolveOrganizationOK, FindsOK, CreatesOK, ResolveDeployTargetOK, CreateReleaseOK,
   PublishesOK, Zenon DEF OnWorkspace, Request

-----------------------------------------------------------------------------
(* The steps on the session *)

LEMMA SessionStep ==
  ASSUME TInv, NEW p \in Clis, pc[p] # "idle", Moved(p, srv'), commands' = commands,
         TablesOK(srv'), Grows(srv, srv'), srv'.releases = srv.releases,
         srv'.deployments = srv.deployments, DiskOK(disk', srv')
  PROVE  Effect(p)
<1>1. ServerOK(srv, commands) /\ TablesOK(srv)
  BY DEF TInv, ServerOK
<1>2. ServerOK(srv', commands)
  BY <1>1, ServerChanges
<1>3. Adds(srv, srv', job[p].cmd)
  BY <1>1, TablesFacts DEF Adds
<1>4. QED
  BY <1>2, <1>3 DEF Effect

\* A job that keeps its place and has another session.
Renewed(j, k, t) ==
  /\ IsJob(k) /\ k.todo = j.todo /\ k.cmd = j.cmd /\ k.ci = j.ci /\ k.org = j.org
  /\ k.project = j.project /\ k.env = j.env /\ k.item = j.item
  /\ k.tok \in PairsOf(t) /\ k.held \in SessionsOf(t) /\ k.next \in SessionsOf(t)

LEMMA RenewedOK ==
  ASSUME NEW j, NEW k, NEW s, NEW t, NEW n, JobOK(j, s, n), TablesOK(s), TablesOK(t),
         Grows(s, t), t.releases = s.releases, t.deployments = s.deployments, Renewed(j, k, t)
  PROVE  JobOK(k, t, n) /\ JobTypes(k, t) /\ Placed(j.todo, k, t)
<1>1. JobTypes(j, t)
  BY TypesGrow DEF JobOK
<1>2. JobTypes(k, t)
  BY <1>1 DEF JobTypes, Renewed
<1>3. Adds(s, t, j.cmd) /\ SameReleases(s, t)
  BY TablesFacts DEF Adds, SameReleases
<1>4. Placed(j.todo, j, t)
  BY <1>3, PlacedGrows DEF JobOK
<1>5. Placed(j.todo, k, t)
  BY <1>4 DEF Placed, Renewed, InItsEnv
<1>6. QED
  BY <1>2, <1>5 DEF JobOK, Renewed

LEMMA SessionsAre ==
  ASSUME NEW s, TablesOK(s)
  PROVE  /\ NoPair \in PairsOf(s) /\ Empty \in SessionsOf(s) /\ Torn \notin SessionsOf(s)
         /\ \A x \in SessionsOf(s) : /\ x.tok \in PairsOf(s) /\ x.anon \in 0..s.drawn
                                     /\ x.org \in 0..Len(s.orgs)
<1>1. s.drawn \in Nat /\ Len(s.grants) \in Nat /\ Len(s.orgs) \in Nat
  BY TablesFacts
<1>2. NoPair \in PairsOf(s)
  BY <1>1 DEF NoPair, PairsOf
<1>3. Empty \in SessionsOf(s)
  BY <1>1, <1>2 DEF Empty, SessionsOf
<1>4. SessionsOf(s) \subseteq [tok : [row : Nat, gen : Nat], anon : Nat, org : Nat]
  BY <1>1 DEF SessionsOf, PairsOf
<1>5. Torn \notin SessionsOf(s)
  BY <1>4, TornAssumption
<1>6. QED
  BY <1>2, <1>3, <1>5 DEF SessionsOf

LEMMA ReadIs ==
  ASSUME TInv, ~Unreadable
  PROVE  Read \in SessionsOf(srv)
<1>1. TablesOK(srv) /\ disk.data \in {None, Torn} \cup SessionsOf(srv)
  BY DEF TInv, ServerOK, DiskOK
<1>2. QED
  BY <1>1, SessionsAre DEF Read, Unreadable

\* The process waits at another step with its session renewed.
LEMMA WaitsRenewed ==
  ASSUME TInv, NEW p \in Clis, pc[p] # "idle", NEW at \in Steps, NEW k, Await(p, at, k),
         NEW t, TablesOK(t), Grows(srv, t), t.releases = srv.releases,
         t.deployments = srv.deployments, Renewed(job[p], k, t)
  PROVE  Moved(p, t) /\ pc'[p] = at /\ job'[p] = k
<1>1. JobOK(job[p], srv, commands) /\ TablesOK(srv)
  BY DEF TInv, ServerOK
<1>2. JobOK(k, t, commands) /\ k.cmd = job[p].cmd
  BY <1>1, RenewedOK DEF Renewed
<1>3. QED
  BY <1>2, Awaits

\* It goes on with its next stage.
LEMMA GoesOnRenewed ==
  ASSUME TInv, NEW p \in Clis, pc[p] # "idle", NEW k, Continue(p, k), Renewed(job[p], k, srv),
         Stage(p) \notin {"inspect", "target", "release", "publish"}
  PROVE  /\ Moved(p, srv) /\ pc'[p] \in {"run", "idle"}
         /\ pc'[p] = "run" => job'[p].via = k.via
<1>1. JobOK(job[p], srv, commands) /\ TablesOK(srv)
  BY DEF TInv, ServerOK
<1>2. JobTypes(k, srv) /\ Placed(job[p].todo, k, srv)
  BY <1>1, GrowsSelf, RenewedOK
<1>3. k.cmd = job[p].cmd /\ k.todo = job[p].todo
  BY DEF Renewed
<1>4. GoOn(p, k, Tail(job[p].todo))
  BY <1>3 DEF Continue
<1>5. Tail(job[p].todo) # << >> => Placed(Tail(job[p].todo), k, srv)
  BY <1>2, PlacedTail DEF Stage
<1>6. QED
  BY <1>2, <1>3, <1>4, <1>5, GoesOn

\* A step that changes nothing but where the process is.
LEMMA OnlyMoved ==
  ASSUME TInv, NEW p \in Clis, pc[p] # "idle", Moved(p, srv), UNCHANGED <<srv, disk, commands>>
  PROVE  Effect(p)
<1>1. TablesOK(srv) /\ DiskOK(disk, srv)
  BY DEF TInv, ServerOK
<1>2. Grows(srv, srv)
  BY <1>1, GrowsSelf
<1>3. QED
  BY <1>1, <1>2, SessionStep

\* The jobs of the session's steps.
LEMMA Renewals ==
  ASSUME NEW j, NEW s, JobTypes(j, s), TablesOK(s)
  PROVE  /\ Renewed(j, j, s)
         /\ \A x \in PairsOf(s) : LET k == [j EXCEPT !.tok = x] IN
              Renewed(j, k, s) /\ k.via = j.via
         /\ \A h \in SessionsOf(s) : LET k == [j EXCEPT !.held = h] IN
              Renewed(j, k, s) /\ k.via = j.via /\ k.held = h /\ k.next = j.next /\ k.tok = j.tok
         /\ \A h \in SessionsOf(s) : LET k == [j EXCEPT !.next = h] IN
              Renewed(j, k, s) /\ k.via = j.via /\ k.held = j.held /\ k.next = h /\ k.tok = j.tok
         /\ \A i : LET k == [j EXCEPT !.ino = i] IN
              /\ Renewed(j, k, s) /\ k.via = j.via /\ k.held = j.held /\ k.next = j.next
              /\ k.tok = j.tok /\ k.ino = i
<1>1. /\ IsJob(j) /\ j.tok \in PairsOf(s) /\ j.held \in SessionsOf(s) /\ j.next \in SessionsOf(s)
  BY DEF JobTypes
<1>2. Renewed(j, j, s)
  BY <1>1 DEF Renewed
<1>3. ASSUME NEW x \in PairsOf(s)
      PROVE  LET k == [j EXCEPT !.tok = x] IN Renewed(j, k, s) /\ k.via = j.via
  BY <1>1 DEF Renewed, IsJob
<1>4. ASSUME NEW h \in SessionsOf(s)
      PROVE  LET k == [j EXCEPT !.held = h] IN
             Renewed(j, k, s) /\ k.via = j.via /\ k.held = h /\ k.next = j.next /\ k.tok = j.tok
  BY <1>1 DEF Renewed, IsJob
<1>5. ASSUME NEW h \in SessionsOf(s)
      PROVE  LET k == [j EXCEPT !.next = h] IN
             Renewed(j, k, s) /\ k.via = j.via /\ k.held = j.held /\ k.next = h /\ k.tok = j.tok
  BY <1>1 DEF Renewed, IsJob
<1>6. ASSUME NEW i
      PROVE  LET k == [j EXCEPT !.ino = i] IN
              /\ Renewed(j, k, s) /\ k.via = j.via /\ k.held = j.held /\ k.next = j.next
              /\ k.tok = j.tok /\ k.ino = i
  BY <1>1 DEF Renewed, IsJob
<1>7. QED
  BY <1>2, <1>3, <1>4, <1>5, <1>6, Zenon

\* What the session's invariant says of the process that moves.
Kept(p) ==
  Session1(p) /\ (Unreadable => pc[p] = "write") /\ (~Unreadable /\ ~Unsaved(p) => Fresh(Read.tok, srv))

LEMMA OnlyMe ==
  ASSUME SInv, NEW p \in Clis, pc[p] # "idle"
  PROVE  /\ ~overlap /\ Holding(p) => ~Unreadable
         /\ Quiet => Kept(p)
         /\ ~overlap => \A q \in Clis : q # p => pc[q] = "idle"
<1>1. ~overlap => \A q \in Clis : q # p => pc[q] = "idle"
  BY DEF SInv, Alone
<1>2. ~overlap /\ Holding(p) => ~Unreadable
  BY DEF SInv, Readable
<1>3. ASSUME Quiet PROVE Kept(p)
  <2>1. \A q \in Clis : q # p => pc[q] = "idle"
    BY <1>1, <1>3 DEF Quiet
  <2>2. Session1(p)
    BY <1>3 DEF SInv
  <2>3. Unreadable => pc[p] = "write"
    BY <1>3, <2>1 DEF SInv
  <2>4. ~Unreadable /\ ~Unsaved(p) => Fresh(Read.tok, srv)
    <3>1. \A q \in Clis : q # p => ~Unsaved(q)
      BY <2>1 DEF Unsaved
    <3>2. QED
      BY <1>3, <3>1 DEF SInv
  <2>5. QED
    BY <2>2, <2>3, <2>4 DEF Kept
<1>4. QED
  BY <1>1, <1>2, <1>3

LEMMA OneMoves ==
  ASSUME SInv, NEW p \in Clis, pc[p] # "idle", NEW s, Moved(p, s), overlap' = overlap,
         faults' \in {faults, faults + 1},
         ~overlap /\ Holding(p)' => ~Unreadable',
         Quiet /\ faults' = faults => Kept(p)'
  PROVE  SInv'
<1>1. \A q \in Clis : q # p => pc'[q] = pc[q]
  BY DEF Moved
<1>2. ~overlap => \A q \in Clis : q # p => pc'[q] = "idle"
  BY <1>1, OnlyMe
<1>3. Alone'
  BY <1>2 DEF Alone
<1>4. Readable'
  <2>1. \A q \in Clis : pc'[q] = "idle" => ~Holding(q)'
    BY DEF Holding
  <2>2. QED
    BY <1>2, <2>1 DEF Readable
<1>5. faults' \in Nat /\ (Quiet' => Quiet /\ faults' = faults)
  BY DEF SInv, Quiet
<1>6. ASSUME Quiet'
      PROVE  /\ \A q \in Clis : Session1(q)'
             /\ Unreadable' => \E q \in Clis : pc'[q] = "write"
             /\ ~Unreadable' /\ (\A q \in Clis : ~Unsaved(q)') => Fresh(Read.tok, srv)'
  <2>1. Kept(p)' /\ ~overlap
    BY <1>5, <1>6 DEF Quiet
  <2>2. \A q \in Clis : pc'[q] = "idle" => Session1(q)'
    BY DEF Session1
  <2>3. \A q \in Clis : Session1(q)'
    BY <1>2, <2>1, <2>2 DEF Kept
  <2>4. QED
    BY <2>1, <2>3 DEF Kept
<1>7. QED
  BY <1>3, <1>4, <1>5, <1>6 DEF SInv

LEMMA FreshKept ==
  ASSUME NEW s, NEW t, TablesOK(s), KeepsGrants(s, t), NEW x \in PairsOf(s)
  PROVE  (Fresh(x, s) => Fresh(x, t)) /\ (Dead(x, s) => Dead(x, t))
<1>1. x = NoPair \/ x.row = 0 \/ x.row \in DOMAIN s.grants
  BY TablesFacts DEF PairsOf
<1>2. QED
  BY <1>1 DEF Fresh, Dead, KeepsGrants, PairsOf

\* The commands' own steps leave the session alone.
LEMMA RunsKeep ==
  ASSUME TInv, SInv, NEW p \in Clis, RunEffect(p)
  PROVE  SInv'
<1>1. /\ pc[p] = "run" /\ pc'[p] \in {"run", "idle"} /\ Moved(p, srv')
      /\ (pc'[p] = "run" => job'[p].via = job[p].via)
      /\ disk' = disk /\ overlap' = overlap /\ faults' \in {faults, faults + 1}
      /\ KeepsGrants(srv, srv')
  BY DEF RunEffect, Ran
<1>2. Read' = Read /\ Unreadable' = Unreadable
  BY <1>1 DEF Read, Unreadable
<1>3. ~Holding(p)' /\ ~Unsaved(p) /\ ~Unsaved(p)'
  BY <1>1 DEF Holding, Unsaved
<1>4. ASSUME Quiet PROVE Kept(p)'
  <2>1. Session1(p) /\ ~Unreadable /\ Fresh(Read.tok, srv)
    BY <1>1, <1>3, <1>4, OnlyMe DEF Kept
  <2>2. TablesOK(srv) /\ Read.tok \in PairsOf(srv)
    BY <2>1, ReadIs, SessionsAre DEF TInv, ServerOK
  <2>3. Fresh(Read.tok, srv)'
    BY <1>1, <1>2, <2>1, <2>2, FreshKept DEF Fresh
  <2>4. Session1(p)'
    BY <1>1, <2>1 DEF Session1
  <2>5. QED
    BY <1>2, <2>1, <2>3, <2>4 DEF Kept
<1>5. QED
  BY <1>1, <1>3, <1>4, OneMoves

\* The outcomes of looking for a session: the command ends, goes on with the one
\* it has found, or waits to have it refreshed or an account restored.
LEMMA AuthenticateOK ==
  ASSUME TInv, SInv, NEW p \in Clis, Authenticate(p) \/ Unauthorized(p)
  PROVE  Effect(p) /\ SInv'
<1> DEFINE j == job[p]
           h == [j EXCEPT !.held = Read]
           Took(x) == Stage(p) \in {"auth", "auth_create"} /\ Continue(p, [j EXCEPT !.tok = x])
<1>1. pc[p] = "run" /\ UNCHANGED <<disk, srv, overlap, faults, commands>>
  BY DEF Authenticate, Unauthorized, At, files
<1>2. JobTypes(j, srv) /\ TablesOK(srv) /\ IsJob(j)
  BY <1>1, JobFacts
<1>3. h.ci = j.ci /\ h.held = Read
  BY <1>2 DEF IsJob
<1>4. \/ End(p)
      \/ Took([row |-> j.ci, gen |-> 1])
      \/ ~Unreadable /\ Took(Read.tok)
      \/ ~Unreadable /\ Await(p, "refresh", h)
      \/ ~Unreadable /\ Read.tok = NoPair /\ Await(p, "bootstrap", h)
  <2>1. CASE Authenticate(p)
    <3>1. \/ h.ci # 0 /\ Took([row |-> h.ci, gen |-> 1])
          \/ End(p)
          \/ ~Unreadable /\ Took(h.held.tok)
          \/ ~Unreadable /\ Await(p, "refresh", h)
          \/ ~Unreadable /\ h.held.tok = NoPair /\ (Await(p, "bootstrap", h) \/ End(p))
      BY <2>1, Zenon DEF Authenticate, At, WithoutSession
    <3> HIDE DEF Took, h
    <3>2. QED
      BY <1>3, <3>1, Zenon
  <2>2. CASE Unauthorized(p)
    <3>1. \/ End(p)
          \/ ~Unreadable /\ Await(p, "refresh", h)
          \/ ~Unreadable /\ h.held.tok = NoPair /\ (Await(p, "bootstrap", h) \/ End(p))
      BY <2>2, Zenon DEF Unauthorized, WithoutSession
    <3> HIDE DEF Took, h
    <3>2. QED
      BY <1>3, <3>1, Zenon
  <2>3. QED
    BY <2>1, <2>2
<1>5. Read' = Read /\ Unreadable' = Unreadable /\ Fresh(Read.tok, srv)' = Fresh(Read.tok, srv)
  BY <1>1 DEF Read, Unreadable, Fresh
<1>6. ASSUME Quiet PROVE Session1(p) /\ ~Unreadable /\ Fresh(Read.tok, srv) /\ j.via = ""
  BY <1>1, <1>6, OnlyMe DEF Kept, Unsaved, Session1
<1>7. ASSUME Moved(p, srv), pc'[p] \in {"run", "idle"}, pc'[p] = "run" => job'[p].via = j.via
      PROVE  Effect(p) /\ SInv'
  <2>1. Effect(p)
    BY <1>1, <1>7, OnlyMoved
  <2>2. ~Holding(p)' /\ ~Unsaved(p)'
    BY <1>7 DEF Holding, Unsaved
  <2>3. Quiet => Kept(p)'
    BY <1>5, <1>6, <1>7 DEF Kept, Session1
  <2>4. QED
    BY <1>1, <1>7, <2>1, <2>2, <2>3, OneMoves
<1>8. CASE End(p)
  BY <1>7, <1>8, Ends
<1>9. ASSUME NEW x \in PairsOf(srv), Took(x) PROVE Effect(p) /\ SInv'
  <2> DEFINE k == [j EXCEPT !.tok = x]
  <2>1. Renewed(j, k, srv) /\ k.via = j.via
    BY <1>2, Renewals
  <2>2. Continue(p, k) /\ Stage(p) \notin {"inspect", "target", "release", "publish"}
    BY <1>9
  <2> HIDE DEF k
  <2>3. QED
    BY <1>1, <1>7, <2>1, <2>2, GoesOnRenewed
<1>10. CASE Took([row |-> j.ci, gen |-> 1])
  <2>1. [row |-> j.ci, gen |-> 1] \in PairsOf(srv)
    BY <1>2 DEF JobTypes, PairsOf
  <2>2. QED
    BY <1>9, <1>10, <2>1
<1>11. CASE ~Unreadable /\ Took(Read.tok)
  <2>1. Read.tok \in PairsOf(srv)
    BY <1>2, <1>11, ReadIs, SessionsAre
  <2>2. QED
    BY <1>9, <1>11, <2>1
<1>12. ASSUME ~Unreadable, NEW at \in {"refresh", "bootstrap"}, Await(p, at, h),
              at = "bootstrap" => Read.tok = NoPair
       PROVE  Effect(p) /\ SInv'
  <2>1. Renewed(j, h, srv) /\ h.via = j.via /\ h.held = Read
    BY <1>2, <1>12, ReadIs, Renewals
  <2> HIDE DEF h
  <2>2. at \in Steps
    BY <1>12 DEF Steps
  <2>3. Moved(p, srv) /\ pc'[p] = at /\ job'[p] = h
    BY <1>1, <1>2, <1>12, <2>1, <2>2, GrowsSelf, WaitsRenewed
  <2>4. Effect(p)
    BY <1>1, <2>3, OnlyMoved
  <2>5. ~Unsaved(p)'
    BY <2>3 DEF Unsaved
  <2>6. Quiet => Kept(p)'
    BY <1>5, <1>6, <1>12, <2>1, <2>3 DEF Kept, Session1, Dead
  <2>7. QED
    BY <1>1, <1>5, <1>12, <2>3, <2>4, <2>5, <2>6, OneMoves
<1>13. QED
  BY <1>4, <1>8, <1>10, <1>11, <1>12

\* Without a session that works: the anonymous account, or the end.
LEMMA GivesUp ==
  ASSUME TInv, NEW p \in Clis, pc[p] # "idle", NEW t, TablesOK(t), Grows(srv, t),
         t.releases = srv.releases, t.deployments = srv.deployments, WithoutSession(p, job[p])
  PROVE  Moved(p, t) /\ (pc'[p] = "idle" \/ (pc'[p] = "bootstrap" /\ job'[p] = job[p]))
<1>1. JobTypes(job[p], srv) /\ TablesOK(srv)
  BY JobFacts
<1>2. JobTypes(job[p], t)
  BY <1>1, TypesGrow
<1>3. Renewed(job[p], job[p], t)
  BY <1>2, Renewals
<1>4. CASE Await(p, "bootstrap", job[p])
  BY <1>3, <1>4, WaitsRenewed DEF Steps
<1>5. CASE End(p)
  BY <1>5, Ends
<1>6. QED
  BY <1>4, <1>5 DEF WithoutSession

LEMMA RefreshOK ==
  ASSUME TInv, SInv, NEW p \in Clis, Refresh(p)
  PROVE  Effect(p) /\ SInv'
<1> DEFINE j == job[p]
           t == j.held.tok
           s == Rotate(srv, t.row)
           n == [t EXCEPT !.gen = @ + 1]
           k == [j EXCEPT !.tok = n, !.via = "refresh", !.human = IsHuman(UserOf(t))]
<1>1. /\ pc[p] = "refresh" /\ UNCHANGED <<disk, lapsed, overlap, faults, commands>>
      /\ \/ RefreshActive(t) /\ srv' = s /\ Await(p, "persist", k)
         \/ ~RefreshActive(t) /\ UNCHANGED srv /\ WithoutSession(p, j)
  BY Zenon DEF Refresh, files
<1>2. JobTypes(j, srv) /\ TablesOK(srv) /\ IsJob(j) /\ DiskOK(disk, srv)
  BY <1>1, JobFacts DEF TInv
<1>3. t \in PairsOf(srv)
  BY <1>2, SessionsAre DEF JobTypes
<1>4. Read' = Read /\ Unreadable' = Unreadable
  BY <1>1 DEF Read, Unreadable
<1>5. ~overlap => ~Unreadable
  BY <1>1, OnlyMe DEF Holding
<1>6. ASSUME Quiet PROVE ~Unreadable /\ Fresh(Read.tok, srv) /\ j.via = "" /\ t = Read.tok
  BY <1>1, <1>5, <1>6, OnlyMe DEF Kept, Unsaved, Session1, Quiet
<1>7. CASE RefreshActive(t) /\ srv' = s /\ Await(p, "persist", k)
  <2>1. /\ TablesOK(s) /\ Grows(srv, s) /\ s.releases = srv.releases
        /\ s.deployments = srv.deployments /\ Len(s.grants) = Len(srv.grants)
        /\ \A g \in DOMAIN srv.grants :
             s.grants[g].gen = IF g = t.row THEN srv.grants[g].gen + 1 ELSE srv.grants[g].gen
    BY <1>2, Rotated
  <2> HIDE DEF s
  <2>2. n \in PairsOf(s) /\ n.row = t.row /\ n.gen = t.gen + 1
    BY <1>3, <2>1 DEF PairsOf
  <2>3. t.row # 0 /\ t.row \in DOMAIN srv.grants /\ srv.grants[t.row].gen = t.gen
    BY <1>2, <1>3, <1>7, TablesFacts DEF RefreshActive, PairsOf
  <2>4. Fresh(n, s)
    BY <2>1, <2>2, <2>3 DEF Fresh
  <2> HIDE DEF n
  <2>5. JobTypes(j, s)
    BY <1>2, <2>1, TypesGrow
  <2>6. Renewed(j, k, s) /\ k.via = "refresh" /\ k.tok = n
    BY <1>2, <2>2, <2>5 DEF Renewed, JobTypes, IsJob
  <2> HIDE DEF k
  <2>7. Moved(p, s) /\ pc'[p] = "persist" /\ job'[p] = k
    BY <1>1, <1>7, <2>1, <2>6, WaitsRenewed DEF Steps
  <2>8. Effect(p)
    BY <1>1, <1>2, <1>7, <2>1, <2>7, DiskGrows, SessionStep
  <2>9. Unsaved(p)'
    BY <2>6, <2>7 DEF Unsaved
  <2>10. Quiet => Session1(p)'
    <3> SUFFICES ASSUME Quiet PROVE Session1(p)'
      OBVIOUS
    <3>1. t = Read.tok /\ Read' = Read
      BY <1>4, <1>6
    <3>2. job'[p].tok.row = Read'.tok.row
      BY <2>2, <2>6, <2>7, <3>1
    <3>3. Fresh(job[p].tok, srv)'
      BY <1>7, <2>4, <2>6, <2>7 DEF Fresh
    <3>4. QED
      BY <2>6, <2>7, <3>2, <3>3 DEF Session1
  <2>11. Quiet => Kept(p)'
    BY <1>4, <1>6, <2>9, <2>10 DEF Kept
  <2>12. QED
    BY <1>1, <1>4, <1>5, <2>7, <2>8, <2>11, OneMoves
<1>8. CASE ~RefreshActive(t) /\ UNCHANGED srv /\ WithoutSession(p, j)
  <2>1. Moved(p, srv) /\ (pc'[p] = "idle" \/ (pc'[p] = "bootstrap" /\ job'[p] = j))
    BY <1>1, <1>2, <1>8, GivesUp, GrowsSelf
  <2>2. Effect(p)
    BY <1>1, <1>8, <2>1, OnlyMoved
  <2>3. ASSUME Quiet PROVE Kept(p)'
    <3>1. Fresh(Read.tok, srv)' /\ Dead(Read.tok, srv)'
      BY <1>1, <1>4, <1>6, <1>8, <2>3 DEF Fresh, Dead, RefreshActive
    <3>2. Session1(p)'
      BY <1>6, <2>1, <2>3, <3>1 DEF Session1
    <3>3. QED
      BY <1>4, <1>6, <2>3, <3>1, <3>2 DEF Kept
  <2>4. QED
    BY <1>1, <1>4, <1>5, <2>1, <2>2, <2>3, OneMoves
<1>9. QED
  BY <1>1, <1>7, <1>8

LEMMA RefreshLostOK ==
  ASSUME TInv, SInv, NEW p \in Clis, RefreshLost(p)
  PROVE  Effect(p) /\ SInv'
<1> DEFINE s == Rotate(srv, job[p].held.tok.row)
<1>1. /\ pc[p] = "refresh" /\ UNCHANGED <<disk, overlap, commands>> /\ faults' = faults + 1
      /\ srv' \in {srv, s} /\ WithoutSession(p, job[p])
  BY DEF RefreshLost, files
<1>2. TablesOK(srv) /\ DiskOK(disk, srv) /\ faults \in Nat
  BY DEF TInv, ServerOK, SInv
<1>3. /\ TablesOK(s) /\ Grows(srv, s) /\ s.releases = srv.releases
      /\ s.deployments = srv.deployments /\ Grows(srv, srv)
  BY <1>2, Rotated, GrowsSelf
<1> HIDE DEF s
<1>4. /\ TablesOK(srv') /\ Grows(srv, srv') /\ srv'.releases = srv.releases
      /\ srv'.deployments = srv.deployments
  BY <1>1, <1>2, <1>3
<1>5. Moved(p, srv') /\ DiskOK(disk', srv')
  BY <1>1, <1>2, <1>4, GivesUp, DiskGrows
<1>6. Effect(p)
  BY <1>1, <1>4, <1>5, SessionStep
<1>7. ~overlap => ~Unreadable'
  BY <1>1, OnlyMe DEF Holding, Unreadable
<1>8. QED
  BY <1>1, <1>2, <1>5, <1>6, <1>7, OneMoves

LEMMA BootstrapOK ==
  ASSUME TInv, SInv, NEW p \in Clis, BootstrapAnonymous(p)
  PROVE  Effect(p) /\ SInv'
<1> DEFINE j     == job[p]
           known == j.held.anon
           id    == IF known = 0 THEN srv.drawn + 1 ELSE known
           bound == {u \in DOMAIN srv.users : srv.users[u] = id /\ u \notin srv.claimed}
           drawn == IF known = 0 THEN id ELSE srv.drawn
           users == IF bound = {} THEN Append(srv.users, id) ELSE srv.users
           s1    == [srv EXCEPT !.drawn = drawn, !.users = users]
           u     == IF bound = {} THEN Len(s1.users) ELSE First(bound)
           s2    == Issue(s1, u, FALSE)
           n     == [row |-> Len(s2.grants), gen |-> 1]
           k     == [j EXCEPT !.held.anon = id, !.via = "bootstrap", !.tok = n, !.human = FALSE]
<1>1. /\ pc[p] = "bootstrap" /\ UNCHANGED <<disk, lapsed, overlap, faults, commands>>
      /\ srv' = s2 /\ Await(p, "persist", k)
  BY Zenon DEF BootstrapAnonymous, files
<1>2. JobTypes(j, srv) /\ TablesOK(srv) /\ IsJob(j) /\ DiskOK(disk, srv)
  BY <1>1, JobFacts DEF TInv
<1>3. j.held \in SessionsOf(srv) /\ known \in 0..srv.drawn /\ srv.drawn \in Nat
  BY <1>2, SessionsAre, TablesFacts DEF JobTypes
<1>4. drawn \in Nat /\ srv.drawn <= drawn /\ id \in 0..drawn
  BY <1>3
<1> HIDE DEF id, drawn, bound, users
<1>5. /\ IsServer(s1) /\ s1.drawn = drawn /\ s1.grants = srv.grants /\ s1.orgs = srv.orgs
      /\ s1.projects = srv.projects /\ s1.envs = srv.envs /\ s1.releases = srv.releases
      /\ s1.deployments = srv.deployments
  BY <1>2 DEF TablesOK, IsServer
<1> HIDE DEF s1, u
<1>6. TablesOK(s1) /\ Grows(srv, s1) /\ KeepsGrants(srv, s1)
  BY <1>2, <1>4, <1>5, TablesFacts DEF TablesOK, Grows, KeepsGrants
<1>7. /\ Changes(s1, s2) /\ Len(s2.grants) = Len(srv.grants) + 1
      /\ s2.grants[Len(srv.grants) + 1].gen = 1
  BY <1>5, <1>6, Issued
<1>8. s2.drawn = drawn
  BY <1>5 DEF Issue, IsServer
<1> HIDE DEF s2
<1>9. /\ TablesOK(s2) /\ s2.releases = srv.releases /\ s2.deployments = srv.deployments
  BY <1>5, <1>7 DEF Changes
<1>10. KeepsGrants(srv, s2)
  BY <1>5, <1>7 DEF Changes, KeepsGrants
<1>11. Grows(srv, s2)
  <2>1. Grows(s1, s2)
    BY <1>7 DEF Changes
  <2>2. /\ Len(srv.grants) <= Len(s2.grants)
    BY <1>5, <2>1 DEF Grows
  <2>3. QED
    BY <1>4, <1>5, <1>8, <2>1 DEF Grows
<1>12. n \in PairsOf(s2) /\ Fresh(n, s2)
  <2>1. Len(srv.grants) \in Nat
    BY <1>2, TablesFacts
  <2>2. QED
    BY <1>7, <2>1 DEF PairsOf, Fresh
<1> HIDE DEF n
<1>13. JobTypes(j, s2) /\ j.held \in SessionsOf(s2)
  BY <1>2, <1>9, <1>11, TypesGrow DEF JobTypes
<1>14. [j.held EXCEPT !.anon = id] \in SessionsOf(s2)
  BY <1>4, <1>8, <1>13 DEF SessionsOf
<1>15. Renewed(j, k, s2) /\ k.via = "bootstrap" /\ k.tok = n
  BY <1>2, <1>12, <1>13, <1>14 DEF Renewed, JobTypes, IsJob
<1> HIDE DEF k
<1>16. Moved(p, s2) /\ pc'[p] = "persist" /\ job'[p] = k
  BY <1>1, <1>9, <1>11, <1>15, WaitsRenewed DEF Steps
<1>17. Effect(p)
  BY <1>1, <1>2, <1>9, <1>11, <1>16, DiskGrows, SessionStep
<1>18. Read' = Read /\ Unreadable' = Unreadable
  BY <1>1 DEF Read, Unreadable
<1>19. ~overlap => ~Unreadable
  BY <1>1, OnlyMe DEF Holding
<1>20. ASSUME Quiet PROVE Kept(p)'
  <2>1. ~Unreadable /\ Fresh(Read.tok, srv) /\ Dead(Read.tok, srv)
    BY <1>1, <1>19, <1>20, OnlyMe DEF Kept, Unsaved, Session1, Quiet
  <2>2. Read.tok \in PairsOf(srv)
    BY <1>2, <2>1, ReadIs, SessionsAre
  <2>3. Fresh(Read.tok, s2) /\ Dead(Read.tok, s2)
    BY <1>2, <1>10, <2>1, <2>2, FreshKept
  <2>4. Fresh(Read.tok, srv)' /\ Dead(Read.tok, srv)' /\ Fresh(job[p].tok, srv)'
    BY <1>1, <1>12, <1>15, <1>16, <1>18, <2>3 DEF Fresh, Dead
  <2>5. Session1(p)'
    BY <1>15, <1>16, <2>4 DEF Session1
  <2>6. QED
    BY <1>18, <2>1, <2>4, <2>5 DEF Kept
<1>21. QED
  BY <1>1, <1>16, <1>17, <1>18, <1>19, <1>20, OneMoves

LEMMA SignInOK ==
  ASSUME TInv, SInv, NEW p \in Clis, SignIn(p)
  PROVE  Effect(p) /\ SInv'
<1> DEFINE j == job[p]
           s == Issue(srv, Human, FALSE)
           n == [row |-> Len(srv.grants) + 1, gen |-> 1]
           k == [j EXCEPT !.tok = n, !.via = "login", !.human = TRUE]
<1>1. /\ pc[p] = "run" /\ Stage(p) = "login" /\ UNCHANGED <<disk, overlap, faults, commands>>
      /\ srv' = s /\ Await(p, "persist", k)
  BY Zenon DEF SignIn, At, files
<1>2. JobTypes(j, srv) /\ TablesOK(srv) /\ IsJob(j) /\ DiskOK(disk, srv)
  BY <1>1, JobFacts DEF TInv
<1>3. /\ Changes(srv, s) /\ Len(s.grants) = Len(srv.grants) + 1
      /\ s.grants[Len(srv.grants) + 1].gen = 1
  BY <1>2, Issued
<1> HIDE DEF s
<1>4. /\ TablesOK(s) /\ Grows(srv, s) /\ KeepsGrants(srv, s) /\ s.releases = srv.releases
      /\ s.deployments = srv.deployments
  BY <1>3 DEF Changes
<1>5. n \in PairsOf(s) /\ Fresh(n, s)
  <2>1. Len(srv.grants) \in Nat
    BY <1>2, TablesFacts
  <2>2. QED
    BY <1>3, <2>1 DEF PairsOf, Fresh
<1> HIDE DEF n
<1>6. JobTypes(j, s)
  BY <1>2, <1>4, TypesGrow
<1>7. Renewed(j, k, s) /\ k.via = "login" /\ k.tok = n /\ k.todo = j.todo
  BY <1>2, <1>5, <1>6 DEF Renewed, JobTypes, IsJob
<1> HIDE DEF k
<1>8. Moved(p, s) /\ pc'[p] = "persist" /\ job'[p] = k
  BY <1>1, <1>4, <1>7, WaitsRenewed DEF Steps
<1>9. Effect(p)
  BY <1>1, <1>2, <1>4, <1>8, DiskGrows, SessionStep
<1>10. Read' = Read /\ Unreadable' = Unreadable
  BY <1>1 DEF Read, Unreadable
<1>11. ~Holding(p)'
  BY <1>7, <1>8 DEF Holding
<1>12. ASSUME Quiet PROVE Kept(p)'
  <2>1. ~Unreadable /\ Fresh(Read.tok, srv)
    BY <1>1, <1>12, OnlyMe DEF Kept, Unsaved
  <2>2. Read.tok \in PairsOf(srv)
    BY <1>2, <2>1, ReadIs, SessionsAre
  <2>3. Fresh(Read.tok, s)
    BY <1>2, <1>4, <2>1, <2>2, FreshKept
  <2>4. Fresh(Read.tok, srv)' /\ Fresh(job[p].tok, srv)'
    BY <1>1, <1>5, <1>7, <1>8, <1>10, <2>3 DEF Fresh
  <2>5. Stage(p)' = "login"
    BY <1>1, <1>7, <1>8 DEF Stage
  <2>6. Session1(p)'
    BY <1>7, <1>8, <2>4, <2>5 DEF Session1
  <2>7. QED
    BY <1>10, <2>1, <2>4, <2>6 DEF Kept
<1>13. QED
  BY <1>1, <1>8, <1>9, <1>11, <1>12, OneMoves

\* What is written to the file.
LEMMA DiskIs ==
  ASSUME NEW s, NEW i \in Nat, NEW x \in {None, Torn} \cup SessionsOf(s)
  PROVE  DiskOK([ino |-> i, data |-> x], s)
BY DEF DiskOK

LEMMA SignOutOK ==
  ASSUME TInv, SInv, NEW p \in Clis, SignOut(p)
  PROVE  Effect(p) /\ SInv'
<1>1. /\ pc[p] = "run" /\ Stage(p) = "logout" /\ UNCHANGED <<srv, overlap, faults, commands>>
      /\ disk' = [disk EXCEPT !.data = None] /\ Continue(p, job[p])
  BY DEF SignOut, At
<1>2. JobTypes(job[p], srv) /\ TablesOK(srv) /\ DiskOK(disk, srv)
  BY <1>1, JobFacts DEF TInv
<1>3. disk' = [ino |-> disk.ino, data |-> None] /\ disk.ino \in Nat
  <2>1. disk = [ino |-> disk.ino, data |-> disk.data] /\ disk.ino \in Nat
    BY <1>2 DEF DiskOK
  <2>2. DOMAIN disk = {"ino", "data"}
    BY <2>1
  <2>3. QED
    BY <1>1, <2>1, <2>2
<1>4. DiskOK(disk', srv')
  <2>1. DiskOK([ino |-> disk.ino, data |-> None], srv)
    BY <1>3, DiskIs
  <2>2. QED
    BY <1>1, <1>3, <2>1
<1>5. Renewed(job[p], job[p], srv)
  BY <1>2, Renewals
<1>6. /\ Moved(p, srv) /\ pc'[p] \in {"run", "idle"}
      /\ pc'[p] = "run" => job'[p].via = job[p].via
  BY <1>1, <1>5, GoesOnRenewed
<1>7. Effect(p)
  BY <1>1, <1>2, <1>4, <1>6, GrowsSelf, SessionStep
<1>8. ~Unreadable' /\ Read' = Empty
  BY <1>3, TornAssumption DEF Unreadable, Read
<1>9. ASSUME Quiet PROVE Kept(p)'
  <2>1. job[p].via = ""
    BY <1>1, <1>9, OnlyMe DEF Kept, Session1
  <2>2. Fresh(Read.tok, srv)'
    BY <1>8 DEF Fresh, Empty
  <2>3. Session1(p)'
    BY <1>6, <2>1 DEF Session1
  <2>4. QED
    BY <1>8, <2>2, <2>3 DEF Kept
<1>10. QED
  BY <1>1, <1>6, <1>7, <1>8, <1>9, OneMoves

LEMMA PersistOK ==
  ASSUME TInv, SInv, NEW p \in Clis, Persist(p)
  PROVE  Effect(p) /\ SInv'
<1> DEFINE j    == job[p]
           anon == IF j.human THEN 0 ELSE IF j.via = "bootstrap" THEN j.held.anon ELSE Read.anon
           n    == [Read EXCEPT !.tok = j.tok, !.anon = anon]
           k    == [j EXCEPT !.next = n]
<1>1. /\ pc[p] = "persist" /\ UNCHANGED <<srv, disk, lapsed, overlap, faults, commands>>
      /\ \/ ~Unreadable /\ Await(p, "truncate", k)
         \/ Unreadable /\ j.via = "refresh" /\ WithoutSession(p, j)
         \/ Unreadable /\ End(p)
  BY Zenon DEF Persist, files
<1>2. JobTypes(j, srv) /\ TablesOK(srv)
  BY <1>1, JobFacts
<1>3. Read' = Read /\ Unreadable' = Unreadable
  BY <1>1 DEF Read, Unreadable
<1>4. Quiet => ~Unreadable
  BY <1>1, OnlyMe DEF Kept
<1>5. CASE ~Unreadable /\ Await(p, "truncate", k)
  <2>1. Read \in SessionsOf(srv) /\ anon \in 0..srv.drawn /\ j.tok \in PairsOf(srv)
    <3>1. Read \in SessionsOf(srv) /\ j.tok \in PairsOf(srv) /\ j.held \in SessionsOf(srv)
      BY <1>2, <1>5, ReadIs DEF JobTypes
    <3>2. srv.drawn \in Nat /\ Read.anon \in 0..srv.drawn /\ j.held.anon \in 0..srv.drawn
      BY <1>2, <3>1, SessionsAre, TablesFacts
    <3>3. QED
      BY <3>1, <3>2
  <2> HIDE DEF anon
  <2>2. n \in SessionsOf(srv) /\ n.tok = j.tok
    BY <2>1 DEF SessionsOf
  <2> HIDE DEF n
  <2>3. Renewed(j, k, srv) /\ k.via = j.via /\ k.next = n /\ k.todo = j.todo
    BY <1>2, <2>2, Renewals DEF Renewed
  <2> HIDE DEF k
  <2>4. Moved(p, srv) /\ pc'[p] = "truncate" /\ job'[p] = k
    BY <1>1, <1>2, <1>5, <2>3, GrowsSelf, WaitsRenewed DEF Steps
  <2>5. Effect(p)
    BY <1>1, <2>4, OnlyMoved
  <2>6. ASSUME Quiet PROVE Kept(p)'
    <3>1. /\ j.via \in {"refresh", "bootstrap", "login"} /\ Fresh(j.tok, srv)
          /\ (j.via = "login" => Stage(p) = "login")
          /\ (j.via = "bootstrap" => Dead(Read.tok, srv))
          /\ (j.via = "refresh" => j.tok.row = Read.tok.row)
          /\ (~Unsaved(p) => Fresh(Read.tok, srv))
      BY <1>1, <1>5, <2>6, OnlyMe DEF Kept, Session1
    <3>2. Fresh(job[p].next.tok, srv)' /\ (j.via = "bootstrap" => Dead(Read.tok, srv)')
      BY <1>1, <1>3, <2>2, <2>3, <2>4, <3>1 DEF Fresh, Dead
    <3>3. Stage(p)' = Stage(p) /\ job'[p].via = j.via
      BY <2>3, <2>4 DEF Stage
    <3>4. job'[p].via \in {"", "refresh"} => job'[p].next.tok.row = Read'.tok.row
      BY <1>3, <2>2, <2>3, <2>4, <3>1
    <3>5. Session1(p)'
      BY <2>4, <3>1, <3>2, <3>3, <3>4 DEF Session1
    <3>6. ~Unsaved(p)' => Fresh(Read.tok, srv)'
      BY <1>1, <1>3, <2>4, <3>1, <3>3 DEF Unsaved, Fresh
    <3>7. QED
      BY <1>3, <1>4, <2>6, <3>5, <3>6 DEF Kept
  <2>7. QED
    BY <1>1, <1>3, <1>5, <2>4, <2>5, <2>6, OneMoves
<1>6. CASE Unreadable /\ j.via = "refresh" /\ WithoutSession(p, j)
  <2>1. Moved(p, srv)
    BY <1>1, <1>2, <1>6, GivesUp, GrowsSelf
  <2>2. Effect(p)
    BY <1>1, <2>1, OnlyMoved
  <2>3. overlap
    BY <1>1, <1>6, OnlyMe DEF Holding
  <2>4. QED
    BY <1>1, <2>1, <2>2, <2>3, OneMoves DEF Quiet
<1>7. CASE Unreadable /\ End(p)
  <2>1. Moved(p, srv) /\ pc'[p] = "idle"
    BY <1>7, Ends
  <2>2. Effect(p) /\ ~Holding(p)' /\ ~Quiet
    BY <1>1, <1>4, <1>7, <2>1, OnlyMoved DEF Holding
  <2>3. QED
    BY <1>1, <2>1, <2>2, OneMoves
<1>8. QED
  BY <1>1, <1>5, <1>6, <1>7

LEMMA RememberOrganizationOK ==
  ASSUME TInv, SInv, NEW p \in Clis, RememberOrganization(p)
  PROVE  Effect(p) /\ SInv'
<1> DEFINE j == job[p]
           n == [Read EXCEPT !.org = j.org]
           k == [j EXCEPT !.next = n]
<1>1. /\ pc[p] = "run" /\ Stage(p) = "remember"
      /\ UNCHANGED <<srv, disk, overlap, faults, commands>>
      /\ \/ Unreadable /\ Continue(p, j)
         \/ ~Unreadable /\ Await(p, "truncate", k)
  BY Zenon DEF RememberOrganization, At, files
<1>2. JobTypes(j, srv) /\ TablesOK(srv)
  BY <1>1, JobFacts
<1>3. Read' = Read /\ Unreadable' = Unreadable
  BY <1>1 DEF Read, Unreadable
<1>4. ASSUME Quiet PROVE ~Unreadable /\ Fresh(Read.tok, srv) /\ j.via = ""
  BY <1>1, <1>4, OnlyMe DEF Kept, Unsaved, Session1
<1>5. CASE Unreadable /\ Continue(p, j)
  <2>1. Renewed(j, j, srv)
    BY <1>2, Renewals
  <2>2. Moved(p, srv) /\ pc'[p] \in {"run", "idle"}
    BY <1>1, <1>5, <2>1, GoesOnRenewed
  <2>3. Effect(p) /\ ~Holding(p)' /\ ~Quiet
    BY <1>1, <1>4, <1>5, <2>2, OnlyMoved DEF Holding
  <2>4. QED
    BY <1>1, <2>2, <2>3, OneMoves
<1>6. CASE ~Unreadable /\ Await(p, "truncate", k)
  <2>1. Read \in SessionsOf(srv) /\ j.org \in 0..Len(srv.orgs)
    BY <1>2, <1>6, ReadIs DEF JobTypes
  <2>2. n \in SessionsOf(srv) /\ n.tok = Read.tok
    BY <2>1 DEF SessionsOf
  <2> HIDE DEF n
  <2>3. Renewed(j, k, srv) /\ k.via = j.via /\ k.next = n
    BY <1>2, <2>2, Renewals
  <2> HIDE DEF k
  <2>4. Moved(p, srv) /\ pc'[p] = "truncate" /\ job'[p] = k
    BY <1>1, <1>2, <1>6, <2>3, GrowsSelf, WaitsRenewed DEF Steps
  <2>5. Effect(p)
    BY <1>1, <2>4, OnlyMoved
  <2>6. ASSUME Quiet PROVE Kept(p)'
    <3>1. Fresh(job[p].next.tok, srv)' /\ Fresh(Read.tok, srv)'
      BY <1>1, <1>3, <1>4, <2>2, <2>3, <2>4, <2>6 DEF Fresh
    <3>2. job'[p].via = "" /\ job'[p].next.tok.row = Read'.tok.row
      BY <1>3, <1>4, <2>2, <2>3, <2>4, <2>6
    <3>3. Session1(p)'
      BY <2>4, <3>1, <3>2 DEF Session1
    <3>4. QED
      BY <1>3, <1>6, <3>1, <3>3 DEF Kept
  <2>7. QED
    BY <1>1, <1>3, <1>6, <2>4, <2>5, <2>6, OneMoves
<1>7. QED
  BY <1>1, <1>5, <1>6

LEMMA TruncateOK ==
  ASSUME TInv, SInv, NEW p \in Clis, Truncate(p)
  PROVE  Effect(p) /\ SInv'
<1> DEFINE j == job[p]
           i == IF disk.data = None THEN disk.ino + 1 ELSE disk.ino
           k == [j EXCEPT !.ino = disk'.ino]
<1>1. /\ pc[p] = "truncate" /\ UNCHANGED <<srv, overlap, faults, commands>>
      /\ disk' = [ino |-> i, data |-> Torn] /\ Await(p, "write", k)
  BY DEF Truncate
<1>2. JobTypes(j, srv) /\ TablesOK(srv) /\ disk.ino \in Nat
  BY <1>1, JobFacts DEF TInv, DiskOK
<1>3. i \in Nat /\ Unreadable'
  BY <1>1, <1>2 DEF Unreadable
<1> HIDE DEF i
<1>4. DiskOK(disk', srv')
  <2>1. DiskOK([ino |-> i, data |-> Torn], srv)
    BY <1>3, DiskIs
  <2>2. QED
    BY <1>1, <2>1
<1>5. /\ Renewed(j, k, srv) /\ k.via = j.via /\ k.next = j.next /\ k.ino = disk'.ino
  BY <1>2, Renewals
<1> HIDE DEF k
<1>6. Moved(p, srv) /\ pc'[p] = "write" /\ job'[p] = k
  BY <1>1, <1>2, <1>5, GrowsSelf, WaitsRenewed DEF Steps
<1>7. Effect(p)
  BY <1>1, <1>2, <1>4, <1>6, GrowsSelf, SessionStep
<1>8. ~Holding(p)'
  BY <1>6 DEF Holding
<1>9. ASSUME Quiet PROVE Kept(p)'
  <2>1. Fresh(j.next.tok, srv)
    BY <1>1, <1>9, OnlyMe DEF Kept, Session1
  <2>2. Fresh(job[p].next.tok, srv)' /\ disk'.ino = job'[p].ino
    BY <1>1, <1>5, <1>6, <2>1 DEF Fresh
  <2>3. Session1(p)'
    BY <1>3, <1>6, <2>2 DEF Session1
  <2>4. QED
    BY <1>3, <1>6, <2>3 DEF Kept
<1>10. QED
  BY <1>1, <1>6, <1>7, <1>8, <1>9, OneMoves

LEMMA InspectTail ==
  ASSUME NEW t, NEW k, NEW s, Placed(t, k, s), Head(t) = "inspect"
  PROVE  Placed(Tail(t), k, s)
<1>1. CASE Plain(t)
  BY <1>1, SeekingHasNext, PlacedPlain DEF Seeking, Placed
<1>2. CASE t = Deploy /\ \A r \in DOMAIN s.releases : s.releases[r].cmd # k.cmd
  <2> DEFINE u == Tail(Deploy)
  <2>1. StagesOK(u) /\ Late(u) /\ ~Resolved(u)
    BY DeployInspects
  <2> HIDE DEF u
  <2>2. QED
    BY <1>2, <2>1, PlacedLate DEF u
<1>3. QED
  BY <1>1, <1>2, AtInspect

\* After its session was written, a command goes on where it was.
LEMMA Resumes ==
  ASSUME TInv, NEW p \in Clis, pc[p] # "idle", Resume(p, job[p])
  PROVE  /\ Moved(p, srv) /\ pc'[p] \in {"run", "idle"}
         /\ pc'[p] = "run" => job'[p].via = ""
<1> DEFINE j == job[p]
           c == [j EXCEPT !.held = Empty, !.via = "", !.next = Empty, !.human = FALSE, !.ino = 0]
           d == [c EXCEPT !.again = TRUE, !.tries = 0]
<1>1. JobTypes(j, srv) /\ TablesOK(srv) /\ IsJob(j) /\ Empty \in SessionsOf(srv)
  BY JobFacts, SessionsAre
<1>2. Renewed(j, c, srv) /\ c.via = ""
  BY <1>1 DEF Renewed, JobTypes, IsJob
<1>3. Renewed(j, d, srv) /\ d.via = ""
  BY <1>2 DEF Renewed, IsJob
<1>4. \/ Stage(p) \in LocalStages /\ Continue(p, c)
      \/ Await(p, "run", d)
  BY DEF Resume
<1> HIDE DEF c, d
<1>5. CASE Stage(p) \in LocalStages /\ Continue(p, c)
  <2>1. CASE Stage(p) # "inspect"
    <3>1. Stage(p) \notin {"inspect", "target", "release", "publish"}
      BY <1>5, <2>1 DEF LocalStages
    <3>2. QED
      BY <1>2, <1>5, <3>1, GoesOnRenewed
  <2>2. CASE Stage(p) = "inspect"
    <3> DEFINE t == Tail(j.todo)
    <3>1. JobOK(j, srv, commands) /\ TablesOK(srv)
      BY DEF TInv, ServerOK
    <3>2. JobTypes(c, srv) /\ Placed(j.todo, c, srv)
      BY <1>2, <3>1, GrowsSelf, RenewedOK
    <3>3. Placed(t, c, srv)
      BY <2>2, <3>2, InspectTail DEF Stage
    <3>4. GoOn(p, c, t) /\ c.cmd = j.cmd
      BY <1>2, <1>5 DEF Continue, Renewed
    <3> HIDE DEF t
    <3>5. QED
      BY <1>2, <3>2, <3>3, <3>4, GoesOn
  <2>3. QED
    BY <2>1, <2>2
<1>6. CASE Await(p, "run", d)
  BY <1>1, <1>3, <1>6, GrowsSelf, WaitsRenewed DEF Steps
<1>7. QED
  BY <1>4, <1>5, <1>6

LEMMA WriteFileOK ==
  ASSUME TInv, SInv, NEW p \in Clis, WriteFile(p)
  PROVE  Effect(p) /\ SInv'
<1> DEFINE j == job[p]
<1>1. /\ pc[p] = "write" /\ UNCHANGED <<srv, overlap, faults, commands>> /\ Resume(p, j)
      /\ \/ disk' = disk /\ (disk.ino # j.ino \/ disk.data = None)
         \/ disk' = [disk EXCEPT !.data = j.next]
         \/ disk' = [disk EXCEPT !.data = Torn] /\ disk.data # Torn
  BY DEF WriteFile
<1>2. JobTypes(j, srv) /\ TablesOK(srv) /\ j.next \in SessionsOf(srv) /\ DiskOK(disk, srv)
  BY <1>1, JobFacts DEF TInv, JobTypes
<1>3. /\ \A x : [disk EXCEPT !.data = x] = [ino |-> disk.ino, data |-> x]
      /\ disk.ino \in Nat
  <2>1. disk = [ino |-> disk.ino, data |-> disk.data] /\ disk.ino \in Nat
    BY <1>2 DEF DiskOK
  <2>2. DOMAIN disk = {"ino", "data"}
    BY <2>1
  <2>3. QED
    BY <2>1, <2>2
<1>4. DiskOK(disk', srv')
  <2>1. /\ DiskOK([ino |-> disk.ino, data |-> Torn], srv)
        /\ DiskOK([ino |-> disk.ino, data |-> j.next], srv)
    BY <1>2, <1>3, DiskIs
  <2>2. QED
    BY <1>1, <1>2, <1>3, <2>1
<1>5. /\ Moved(p, srv) /\ pc'[p] \in {"run", "idle"} /\ (pc'[p] = "run" => job'[p].via = "")
  BY <1>1, Resumes
<1>6. Effect(p)
  BY <1>1, <1>2, <1>4, <1>5, GrowsSelf, SessionStep
<1>7. ~Holding(p)'
  BY <1>5 DEF Holding
<1>8. ASSUME Quiet PROVE Kept(p)'
  <2>1. disk.data = Torn /\ disk.ino = j.ino /\ Fresh(j.next.tok, srv)
    BY <1>1, <1>8, OnlyMe DEF Kept, Session1, Unreadable
  <2>2. disk'.data = j.next
    BY <1>1, <1>3, <2>1, TornAssumption
  <2>3. ~Unreadable'
    BY <1>2, <2>2, SessionsAre DEF Unreadable
  <2>4. Fresh(Read.tok, srv)'
    BY <1>1, <2>1, <2>2 DEF Read, Fresh, Empty
  <2>5. Session1(p)'
    BY <1>5 DEF Session1
  <2>6. QED
    BY <2>3, <2>4, <2>5 DEF Kept
<1>9. QED
  BY <1>1, <1>5, <1>6, <1>7, <1>8, OneMoves

LEMMA StopOK ==
  ASSUME TInv, SInv, NEW p \in Clis, Stop(p)
  PROVE  Effect(p) /\ SInv'
<1>1. /\ pc[p] # "idle" /\ End(p) /\ faults' = faults + 1 /\ faults \in Nat
      /\ UNCHANGED <<srv, disk, overlap, commands>>
  BY DEF Stop, files, SInv
<1>2. Moved(p, srv) /\ pc'[p] = "idle"
  BY <1>1, Ends
<1>3. Effect(p) /\ ~Holding(p)'
  BY <1>1, <1>2, OnlyMoved DEF Holding
<1>4. QED
  BY <1>1, <1>2, <1>3, OneMoves

LEMMA SessionOK ==
  ASSUME TInv, SInv, NEW p \in Clis, Session(p) \/ RefreshLost(p) \/ Stop(p)
  PROVE  Effect(p) /\ SInv'
BY AuthenticateOK, RefreshOK, RefreshLostOK, BootstrapOK, SignInOK, SignOutOK, PersistOK,
   RememberOrganizationOK, TruncateOK, WriteFileOK, StopOK, Zenon DEF Session

-----------------------------------------------------------------------------
(* A command starts *)

\* The last number of a command may grow.
LEMMA MoreCommands ==
  ASSUME NEW s, NEW n \in Nat, ServerOK(s, n)
  PROVE  ServerOK(s, n + 1)
<1>1. \A c \in 1..n : c \in 1..(n + 1)
  OBVIOUS
<1>2. QED
  BY <1>1 DEF ServerOK, ReleasesOK

LEMMA NewJobOK ==
  ASSUME NEW prog \in Programs, NEW n \in Nat, NEW org, NEW env, NEW mode,
         NEW s, ServerOK(s, n), NEW ci \in 0..Len(s.grants)
  PROVE  LET j == NewJob(prog, n + 1, org, env, mode, ci) IN
         JobOK(j, s, n + 1) /\ j.via = "" /\ j.cmd = n + 1
<1> DEFINE j == NewJob(prog, n + 1, org, env, mode, ci)
<1>1. /\ IsJob(j) /\ j.todo = prog /\ j.cmd = n + 1 /\ j.ci = ci /\ j.tok = NoPair
      /\ j.org = 0 /\ j.project = 0 /\ j.env = 0 /\ j.item = 0 /\ j.held = Empty
      /\ j.next = Empty /\ j.via = ""
  BY DEF NewJob, IsJob
<1> HIDE DEF j
<1>2. TablesOK(s) /\ NoPair \in PairsOf(s) /\ Empty \in SessionsOf(s)
  BY SessionsAre DEF ServerOK
<1>3. JobTypes(j, s)
  <2>1. /\ 0 \in 0..Len(s.orgs) /\ 0 \in 0..Len(s.projects) /\ 0 \in 0..Len(s.envs)
    BY <1>2, TablesFacts
  <2>2. QED
    BY <1>1, <1>2, <2>1, Zenon DEF JobTypes
<1>4. \A r \in DOMAIN s.releases : s.releases[r].cmd # j.cmd
  <2>1. \A c \in 1..n : c # n + 1
    OBVIOUS
  <2>2. \A r \in DOMAIN s.releases : s.releases[r].cmd \in 1..n
    BY DEF ServerOK, ReleasesOK
  <2>3. QED
    BY <1>1, <2>1, <2>2, Zenon
<1>5. Placed(prog, j, s)
  <2>1. StagesOK(prog) /\ (prog = Deploy \/ Plain(prog))
    BY ProgramsOK
  <2>2. CASE Plain(prog)
    BY <2>1, <2>2, PlacedPlain
  <2>3. CASE prog = Deploy
    <3>1. Deploy[1] = "inspect" /\ ~Releasing(Deploy) /\ ~Polling(Deploy) /\ ~Late(Deploy)
      <4>1. Deploy[1] = "inspect" /\ Len(Deploy) = 8 /\ "inspect" \notin DeployStages
        BY DEF Deploy, DeployStages
      <4>2. ~Releasing(Deploy) /\ ~Polling(Deploy)
        BY <4>1 DEF Releasing, Polling
      <4>3. QED
        BY <4>1, <4>2 DEF Late
    <3>2. QED
      BY <1>4, <2>1, <2>3, <3>1 DEF Placed, Before, Resolved
  <2>4. QED
    BY <2>1, <2>2, <2>3
<1>6. JobOK(j, s, n + 1)
  <2>1. n + 1 \in 1..(n + 1)
    OBVIOUS
  <2>2. QED
    BY <1>1, <1>3, <1>5, <2>1, Zenon DEF JobOK
<1>7. QED
  BY <1>1, <1>6 DEF j

LEMMA StartOK ==
  ASSUME TInv, SInv, NEW p \in Clis, Start(p)
  PROVE  TInv' /\ SInv'
<1> DEFINE busy == {q \in Clis \ {p} : pc[q] # "idle"}
           n    == commands + 1
<1>1. /\ pc[p] = "idle" /\ commands' = n /\ UNCHANGED <<disk, srv, faults>>
      /\ overlap' = (overlap \/ busy # {})
  BY DEF Start, files
<1>2. ServerOK(srv, commands) /\ TablesOK(srv) /\ commands \in Nat /\ DiskOK(disk, srv)
  BY DEF TInv, ServerOK
<1>3. ServerOK(srv, n) /\ n \in Nat
  BY <1>2, MoreCommands
<1>4. PICK prog \in Programs :
        \E org \in IF prog \in WithOrg THEN OrgNames \cup {None} ELSE {None},
           env \in IF prog \in WithEnv THEN EnvNames ELSE {None},
           mode \in IF prog = ModeUse THEN {"solo", "shared"} ELSE {"shared"},
           ci \in IF prog = Deploy
                  THEN {0} \cup {r \in DOMAIN srv.grants : srv.grants[r].ci} ELSE {0} :
          Await(p, "run", NewJob(prog, n, org, env, mode, ci))
  BY Zenon DEF Start
<1>5. PICK org \in IF prog \in WithOrg THEN OrgNames \cup {None} ELSE {None},
           env \in IF prog \in WithEnv THEN EnvNames ELSE {None},
           mode \in IF prog = ModeUse THEN {"solo", "shared"} ELSE {"shared"},
           ci \in IF prog = Deploy
                  THEN {0} \cup {r \in DOMAIN srv.grants : srv.grants[r].ci} ELSE {0} :
          Await(p, "run", NewJob(prog, n, org, env, mode, ci))
  BY <1>4, Zenon
<1> DEFINE j == NewJob(prog, n, org, env, mode, ci)
<1>6. JobOK(j, srv, n) /\ j.via = "" /\ j.cmd = n /\ Await(p, "run", j)
  <2>1. ci \in {0} \cup DOMAIN srv.grants
    OBVIOUS
  <2>2. ci \in 0..Len(srv.grants)
    BY <1>2, <2>1, TablesFacts
  <2>3. ASSUME NEW a, NEW b, NEW c
        PROVE  LET k == NewJob(prog, commands + 1, a, b, c, ci) IN
               JobOK(k, srv, commands + 1) /\ k.via = "" /\ k.cmd = commands + 1
    BY <1>2, <2>2, NewJobOK, Zenon
  <2>4. JobOK(j, srv, n) /\ j.via = "" /\ j.cmd = n
    BY <2>3, Zenon
  <2>5. QED
    BY <1>5, <2>4, Zenon
<1> HIDE DEF j
<1>7. /\ pc' \in [Clis -> Steps] /\ pc'[p] = "run" /\ job' = [q \in Clis |-> job'[q]]
      /\ job'[p] = j /\ \A q \in Clis : q # p => pc'[q] = pc[q] /\ job'[q] = job[q]
  <2>1. /\ pc' = [pc EXCEPT ![p] = "run"] /\ job' = [job EXCEPT ![p] = j]
        /\ pc \in [Clis -> Steps] /\ job = [q \in Clis |-> job[q]]
    BY <1>6 DEF Await, TInv
  <2>2. QED
    BY <2>1 DEF Steps
<1>8. ASSUME NEW q \in Clis, q # p, pc'[q] # "idle"
      PROVE  /\ JobOK(job'[q], srv', n) /\ job'[q].cmd # n
             /\ job'[q] = job[q] /\ pc[q] # "idle"
  <2>1. pc'[q] = pc[q] /\ job'[q] = job[q] /\ JobOK(job[q], srv, commands)
    BY <1>7, <1>8 DEF TInv
  <2>2. job[q].cmd \in 1..commands /\ commands \in Nat
    BY <1>2, <2>1 DEF JobOK
  <2>3. job[q].cmd \in 1..n /\ job[q].cmd # n
    BY <2>2
  <2>4. QED
    BY <1>1, <1>8, <2>1, <2>3 DEF JobOK
<1>9. TInv'
  <2>1. \A q \in Clis : pc'[q] # "idle" => JobOK(job'[q], srv', n)
    BY <1>1, <1>6, <1>7, <1>8
  <2>2. ASSUME NEW q \in Clis, NEW r \in Clis, pc'[q] # "idle", pc'[r] # "idle",
               job'[q].cmd = job'[r].cmd
        PROVE  q = r
    <3>1. CASE q = p \/ r = p
      BY <1>6, <1>7, <1>8, <2>2, <3>1
    <3>2. CASE q # p /\ r # p
      BY <1>8, <2>2, <3>2 DEF TInv
    <3>3. QED
      BY <3>1, <3>2
  <2>3. QED
    BY <1>1, <1>2, <1>3, <1>7, <2>1, <2>2 DEF TInv
<1>10. Read' = Read /\ Unreadable' = Unreadable /\ Fresh(Read.tok, srv)' = Fresh(Read.tok, srv)
  BY <1>1 DEF Read, Unreadable, Fresh
<1>11. ~overlap' => ~overlap /\ \A q \in Clis : pc[q] = "idle" /\ (q # p => pc'[q] = "idle")
  BY <1>1, <1>7
<1>12. Alone' /\ Readable'
  BY <1>7, <1>11 DEF Alone, Readable, Holding
<1>13. ASSUME Quiet'
       PROVE  /\ \A q \in Clis : Session1(q)'
              /\ Unreadable' => \E q \in Clis : pc'[q] = "write"
              /\ ~Unreadable' /\ (\A q \in Clis : ~Unsaved(q)') => Fresh(Read.tok, srv)'
  <2>1. Quiet /\ \A q \in Clis : pc[q] = "idle" /\ (q # p => pc'[q] = "idle")
    BY <1>1, <1>11, <1>13 DEF Quiet
  <2>2. \A q \in Clis : Session1(q)'
    BY <1>6, <1>7, <2>1 DEF Session1
  <2>3. ~Unreadable /\ Fresh(Read.tok, srv)
    BY <2>1 DEF SInv, Unsaved
  <2>4. QED
    BY <1>10, <2>2, <2>3
<1>14. SInv'
  BY <1>1, <1>12, <1>13 DEF SInv
<1>15. QED
  BY <1>9, <1>14

-----------------------------------------------------------------------------
(* What happens around the commands *)

\* The control plane changes by itself, or not at all.
Around ==
  /\ UNCHANGED <<disk, pc, job, overlap, faults, commands>>
  /\ ServerOK(srv', commands) /\ Grows(srv, srv') /\ KeepsGrants(srv, srv')
  /\ srv'.users = srv.users /\ SameReleases(srv, srv') /\ lapsed \subseteq lapsed'

LEMMA AroundOK ==
  ASSUME TInv, SInv, Around
  PROVE  TInv' /\ SInv'
<1>1. /\ UNCHANGED <<disk, pc, job, overlap, faults, commands>> /\ TablesOK(srv) /\ TablesOK(srv')
      /\ ServerOK(srv', commands) /\ Grows(srv, srv') /\ KeepsGrants(srv, srv')
      /\ SameReleases(srv, srv') /\ DiskOK(disk, srv) /\ lapsed \subseteq lapsed'
  BY DEF Around, TInv, ServerOK
<1>2. DiskOK(disk', srv')
  BY <1>1, DiskGrows
<1>3. ASSUME NEW p \in Clis, pc[p] # "idle" PROVE JobOK(job[p], srv', commands)
  <2>1. JobOK(job[p], srv, commands) /\ JobTypes(job[p], srv)
    BY <1>3 DEF TInv, JobOK
  <2>2. JobTypes(job[p], srv')
    BY <1>1, <2>1, TypesGrow
  <2>3. Adds(srv, srv', job[p].cmd)
    BY <1>1, TablesFacts DEF Adds, SameReleases
  <2>4. Placed(job[p].todo, job[p], srv')
    BY <1>1, <2>1, <2>3, PlacedGrows DEF JobOK
  <2>5. QED
    BY <2>1, <2>2, <2>4 DEF JobOK
<1>4. TInv'
  BY <1>1, <1>2, <1>3 DEF TInv
<1>5. Read' = Read /\ Unreadable' = Unreadable
  BY <1>1 DEF Read, Unreadable
<1>6. \A x \in PairsOf(srv) : (Fresh(x, srv) => Fresh(x, srv')) /\ (Dead(x, srv) => Dead(x, srv'))
  BY <1>1, FreshKept
<1>7. Alone' /\ Readable' /\ (Quiet' <=> Quiet)
  BY <1>1, <1>5 DEF SInv, Alone, Readable, Holding, Quiet
<1>8. ASSUME Quiet
      PROVE  /\ \A p \in Clis : Session1(p)'
             /\ Unreadable' => \E p \in Clis : pc'[p] = "write"
             /\ ~Unreadable' /\ (\A p \in Clis : ~Unsaved(p)') => Fresh(Read.tok, srv)'
  <2>1. ASSUME NEW p \in Clis PROVE Session1(p)'
    <3>1. Session1(p)
      BY <1>8 DEF SInv
    <3>2. CASE pc[p] = "idle"
      BY <1>1, <3>2 DEF Session1
    <3>3. CASE pc[p] # "idle"
      <4>1. job[p].tok \in PairsOf(srv) /\ job[p].next.tok \in PairsOf(srv)
        BY <1>1, <3>3, JobFacts, SessionsAre DEF JobTypes
      <4>2. \/ pc[p] \notin {"bootstrap", "persist", "truncate"}
            \/ Read.tok \in PairsOf(srv)
            \/ pc[p] = "persist" /\ job[p].via = "login"
        <5>1. Holding(p) => ~Unreadable
          BY <1>8 DEF SInv, Readable, Quiet
        <5>2. ~Unreadable => Read.tok \in PairsOf(srv)
          BY <1>1, ReadIs, SessionsAre
        <5>3. QED
          BY <5>1, <5>2 DEF Holding
      <4>3. /\ Fresh(job[p].tok, srv) => Fresh(job[p].tok, srv)'
            /\ Fresh(job[p].next.tok, srv) => Fresh(job[p].next.tok, srv)'
        BY <1>1, <1>6, <4>1 DEF Fresh
      <4>4. Read.tok \in PairsOf(srv) /\ Dead(Read.tok, srv) => Dead(Read.tok, srv)'
        BY <1>1, <1>5, <1>6 DEF Dead
      <4>5. Stage(p)' = Stage(p) /\ Unreadable' = Unreadable
        BY <1>1, <1>5 DEF Stage
      <4> DEFINE j == job[p]
      <4>6. /\ pc[p] \in {"run", "refresh", "bootstrap"} => j.via = ""
            /\ pc[p] \in {"persist", "truncate"} /\ j.via = "login" => Stage(p)' = "login"
            /\ pc[p] = "refresh" => j.held.tok = Read'.tok
            /\ pc[p] = "persist" /\ j.via = "refresh" => j.tok.row = Read'.tok.row
            /\ pc[p] = "truncate" /\ j.via \in {"", "refresh"} => j.next.tok.row = Read'.tok.row
            /\ pc[p] = "write" => Unreadable' /\ disk'.ino = j.ino
        <5>1. /\ pc[p] \in {"run", "refresh", "bootstrap"} => j.via = ""
              /\ pc[p] \in {"persist", "truncate"} /\ j.via = "login" => Stage(p) = "login"
              /\ pc[p] = "refresh" => j.held.tok = Read.tok
              /\ pc[p] = "persist" /\ j.via = "refresh" => j.tok.row = Read.tok.row
              /\ pc[p] = "truncate" /\ j.via \in {"", "refresh"} => j.next.tok.row = Read.tok.row
              /\ pc[p] = "write" => Unreadable /\ disk.ino = j.ino
          BY <3>1, Zenon DEF Session1
        <5>2. pc[p] \in {"persist", "truncate"} /\ j.via = "login" => Stage(p)' = "login"
          BY <4>5, <5>1
        <5>3. pc[p] = "write" => Unreadable'
          BY <4>5, <5>1
        <5>4. pc[p] = "write" => disk'.ino = j.ino
          BY <1>1, <5>1
        <5>5. pc[p] = "refresh" => j.held.tok = Read'.tok
          BY <1>5, <5>1
        <5>6. QED
          BY <1>5, <5>1, <5>2, <5>3, <5>4, <5>5
      <4>7. /\ pc[p] = "persist" => /\ j.via \in {"refresh", "bootstrap", "login"}
                                    /\ Fresh(job[p].tok, srv)'
            /\ pc[p] = "truncate" => j.via \in {"", "refresh", "bootstrap", "login"}
            /\ pc[p] \in {"truncate", "write"} => Fresh(job[p].next.tok, srv)'
        BY <3>1, <4>3 DEF Session1
      <4>8. /\ pc[p] = "bootstrap" => Dead(Read.tok, srv)'
            /\ pc[p] \in {"persist", "truncate"} /\ j.via = "bootstrap" => Dead(Read.tok, srv)'
        BY <3>1, <4>2, <4>4 DEF Session1
      <4>9. pc' = pc /\ job' = job
        BY <1>1
      <4>10. QED
        BY <4>6, <4>7, <4>8, <4>9 DEF Session1
    <3>4. QED
      BY <3>2, <3>3
  <2>2. Unreadable' => \E p \in Clis : pc'[p] = "write"
    BY <1>1, <1>5, <1>8 DEF SInv
  <2>3. ~Unreadable' /\ (\A p \in Clis : ~Unsaved(p)') => Fresh(Read.tok, srv)'
    <3> SUFFICES ASSUME ~Unreadable', \A p \in Clis : ~Unsaved(p)' PROVE Fresh(Read.tok, srv)'
      OBVIOUS
    <3>1. Fresh(Read.tok, srv) /\ Read.tok \in PairsOf(srv)
      BY <1>1, <1>5, <1>8, ReadIs, SessionsAre DEF SInv, Unsaved
    <3>2. QED
      BY <1>1, <1>5, <1>6, <3>1 DEF Fresh
  <2>4. QED
    BY <2>1, <2>2, <2>3
<1>9. SInv'
  BY <1>1, <1>7, <1>8 DEF SInv
<1>10. QED
  BY <1>4, <1>9

LEMMA WorldOK ==
  ASSUME TInv, \/ AccessExpires \/ RefreshExpires \/ ClaimOpened \/ RolloutSettles
               \/ DiagnoseAnswered \/ UNCHANGED vars
  PROVE  Around
<1>1. UNCHANGED <<disk, pc, job, overlap, faults, commands>> /\ lapsed \subseteq lapsed'
  BY DEF AccessExpires, RefreshExpires, ClaimOpened, RolloutSettles, DiagnoseAnswered, vars, files
<1>2. ServerOK(srv, commands) /\ TablesOK(srv) /\ DeploymentsOK(srv) /\ Table(srv.deployments)
  BY DEF TInv, ServerOK, TablesOK
<1>3. ASSUME Changes(srv, srv') PROVE Around
  BY <1>1, <1>2, <1>3, ServerChanges DEF Around, Changes, SameReleases
<1>4. CASE AccessExpires \/ RefreshExpires \/ UNCHANGED vars
  <2>1. srv' = srv
    BY <1>4 DEF AccessExpires, RefreshExpires, vars
  <2>2. QED
    BY <1>2, <1>3, <2>1, GrowsSelf
<1>5. CASE ClaimOpened
  <2>1. PICK u \in srv.claims : srv' = [srv EXCEPT !.claims = @ \ {u}, !.claimed = @ \cup {u}]
    BY <1>5 DEF ClaimOpened
  <2>2. /\ IsServer(srv') /\ srv'.users = srv.users /\ srv'.drawn = srv.drawn
        /\ srv'.grants = srv.grants /\ srv'.orgs = srv.orgs /\ srv'.projects = srv.projects
        /\ srv'.releases = srv.releases /\ srv'.deployments = srv.deployments
        /\ srv'.envs = srv.envs
    BY <1>2, <2>1 DEF TablesOK, IsServer
  <2>3. QED
    BY <1>2, <1>3, <2>2, OtherTables DEF TablesOK
<1>6. CASE DiagnoseAnswered
  <2>1. PICK d \in DOMAIN srv.diagnoses : srv' = [srv EXCEPT !.diagnoses[d] = "done"]
    BY <1>6, Zenon DEF DiagnoseAnswered
  <2>2. /\ IsServer(srv') /\ srv'.users = srv.users /\ srv'.drawn = srv.drawn
        /\ srv'.grants = srv.grants /\ srv'.orgs = srv.orgs /\ srv'.projects = srv.projects
        /\ srv'.releases = srv.releases /\ srv'.deployments = srv.deployments
        /\ srv'.envs = srv.envs
    BY <1>2, <2>1 DEF TablesOK, IsServer
  <2>3. QED
    BY <1>2, <1>3, <2>2, OtherTables DEF TablesOK
<1>7. CASE RolloutSettles
  <2>1. PICK d \in DOMAIN srv.deployments : srv' = [srv EXCEPT !.deployments[d].status = "ended"]
    BY <1>7, Zenon DEF RolloutSettles
  <2> DEFINE v == [srv.deployments EXCEPT ![d].status = "ended"]
  <2>2. /\ IsServer(srv') /\ srv'.users = srv.users /\ srv'.drawn = srv.drawn
        /\ srv'.grants = srv.grants /\ srv'.orgs = srv.orgs /\ srv'.projects = srv.projects
        /\ srv'.releases = srv.releases /\ srv'.deployments = v /\ srv'.envs = srv.envs
    BY <1>2, <2>1 DEF TablesOK, IsServer
  <2>3. Table(v) /\ DOMAIN v = DOMAIN srv.deployments
    BY <1>2, RowChanged
  <2>4. \A e \in DOMAIN v : /\ {"release", "token", "env"} \subseteq DOMAIN v[e]
                            /\ v[e].env = srv.deployments[e].env
                            /\ v[e].release = srv.deployments[e].release
                            /\ v[e].token = srv.deployments[e].token
    BY <1>2, <2>3 DEF DeploymentsOK
  <2> HIDE DEF v
  <2>5. TablesOK(srv')
    BY <1>2, <2>2, <2>3 DEF TablesOK
  <2>6. Grows(srv, srv') /\ KeepsGrants(srv, srv')
    BY <1>2, <2>2, TablesFacts DEF Grows, KeepsGrants
  <2>7. ReleasesOK(srv', commands) /\ DeploymentsOK(srv')
    BY <1>2, <2>2, <2>3, <2>4 DEF ServerOK, ReleasesOK, ProjectOK, DeploymentsOK
  <2>8. QED
    BY <1>1, <2>2, <2>3, <2>4, <2>5, <2>6, <2>7 DEF Around, ServerOK, SameReleases
<1>8. QED
  BY <1>4, <1>5, <1>6, <1>7

-----------------------------------------------------------------------------
(* The invariant *)

\* The accounts a control plane may begin with.
InitialUsers == {<<0>>, <<0, 1>>}

LEMMA InitialOK ==
  ASSUME NEW users \in InitialUsers, NEW n \in Nat
  PROVE  /\ ServerOK(InitialServer(users), n) /\ Len(users) \in 1..2
         /\ Len(InitialServer(users).grants) = Len(users)
         /\ Len(InitialServer(users).orgs) = Len(users)
         /\ InitialServer(users).drawn = Len(users) - 1
         /\ InitialServer(users).grants[Len(users)].gen = 1
<1> DEFINE s  == InitialServer(users)
           m  == Len(users)
           gs == [u \in DOMAIN users |-> [user |-> u, gen |-> 1, live |-> TRUE, ci |-> FALSE]]
           os == [u \in DOMAIN users |-> [owner |-> u, name |-> "default", trial |-> u # Human,
                                          registry |-> FALSE]]
           x  == [org |-> Len(users), live |-> TRUE]
           y  == [project |-> 1, name |-> "production", live |-> TRUE, secret |-> FALSE,
                  direct |-> TRUE]
<1>1. m \in 1..2 /\ DOMAIN users = 1..m
  BY DEF InitialUsers
<1>2. /\ IsServer(s) /\ s.drawn = m - 1 /\ s.grants = gs /\ s.orgs = os /\ s.projects = <<x>>
      /\ s.envs = <<y>> /\ s.releases = << >> /\ s.deployments = << >>
  BY DEF InitialServer, IsServer
<1>3. /\ gs \in [1..m -> Range(gs)] /\ os \in [1..m -> Range(os)]
  BY <1>1 DEF Range
<1>4. /\ \A u \in 1..m : /\ {"user", "gen", "live"} \subseteq DOMAIN gs[u] /\ gs[u].gen = 1
                         /\ "owner" \in DOMAIN os[u]
      /\ "org" \in DOMAIN x /\ DOMAIN gs = 1..m /\ DOMAIN os = 1..m
  BY <1>1
<1> HIDE DEF s, m, gs, os, x, y
<1>5. gs \in Seq(Range(gs)) /\ os \in Seq(Range(os))
  BY <1>1, <1>3, SeqDef
<1>6. Table(gs) /\ Table(os) /\ Len(gs) = m /\ Len(os) = m
  BY <1>1, <1>4, <1>5, LenProperties DEF Table
<1>7. Table(<<x>>) /\ Table(<<y>>) /\ DOMAIN <<x>> = 1..1 /\ <<x>>[1] = x
  <2>1. <<x>> \in Seq({x}) /\ <<y>> \in Seq({y}) /\ DOMAIN <<x>> = 1..1 /\ <<x>>[1] = x
    OBVIOUS
  <2>2. QED
    BY <2>1, OverItsRange
<1>8. Table(<< >>) /\ DOMAIN << >> = {}
  <2>1. << >> \in Seq({}) /\ DOMAIN << >> = {}
    OBVIOUS
  <2>2. QED
    BY <2>1, OverItsRange
<1>9. TablesOK(s)
  BY <1>1, <1>2, <1>4, <1>6, <1>7, <1>8 DEF TablesOK
<1>10. ReleasesOK(s, n) /\ DeploymentsOK(s)
  BY <1>2, <1>8 DEF ReleasesOK, DeploymentsOK
<1>11. ServerOK(s, n)
  BY <1>9, <1>10 DEF ServerOK
<1>12. s.grants[m].gen = 1 /\ Len(s.grants) = m /\ Len(s.orgs) = m
  BY <1>1, <1>2, <1>4, <1>6
<1>13. QED
  BY <1>1, <1>2, <1>11, <1>12 DEF s, m

LEMMA InitOK ==
  ASSUME Init
  PROVE  IInv
<1>1. PICK users \in InitialUsers :
        /\ srv = InitialServer(users)
        /\ \/ disk = [ino |-> 0, data |-> None]
           \/ disk = [ino |-> 1, data |-> [tok |-> [row |-> Len(users), gen |-> 1],
                                           anon |-> Len(users) - 1, org |-> Len(users)]]
  BY Zenon DEF Init, InitialUsers
<1>2. /\ overlap = FALSE /\ faults = 0 /\ commands = 0
      /\ pc = [p \in Clis |-> "idle"] /\ job = [p \in Clis |-> NoJob]
  BY DEF Init
<1> DEFINE m == Len(users)
           x == [tok |-> [row |-> m, gen |-> 1], anon |-> m - 1, org |-> m]
<1>3. /\ ServerOK(srv, 0) /\ m \in 1..2 /\ Len(srv.grants) = m /\ Len(srv.orgs) = m
      /\ srv.drawn = m - 1 /\ srv.grants[m].gen = 1
  BY <1>1, InitialOK
<1>4. disk = [ino |-> 0, data |-> None] \/ disk = [ino |-> 1, data |-> x]
  BY <1>1
<1> HIDE DEF m
<1>5. x \in SessionsOf(srv) /\ Fresh(x.tok, srv)
  BY <1>3 DEF SessionsOf, PairsOf, Fresh
<1>6. TablesOK(srv) /\ Torn \notin SessionsOf(srv)
  BY <1>3, SessionsAre DEF ServerOK
<1> HIDE DEF x
<1>7. DiskOK(disk, srv)
  <2>1. /\ DiskOK([ino |-> 0, data |-> None], srv)
        /\ DiskOK([ino |-> 1, data |-> x], srv)
    BY <1>5, DiskIs
  <2>2. QED
    BY <1>4, <2>1
<1>8. \A p \in Clis : pc[p] = "idle"
  BY <1>2
<1>9. TInv
  BY <1>2, <1>3, <1>7, <1>8 DEF TInv, Steps
<1>10. ~Unreadable
  BY <1>4, <1>5, <1>6, TornAssumption DEF Unreadable
<1>11. Fresh(Read.tok, srv)
  <2>1. Read = Empty \/ Read = x
    BY <1>4 DEF Read
  <2>2. Fresh(Empty.tok, srv)
    BY DEF Empty, Fresh
  <2>3. QED
    BY <1>5, <2>1, <2>2
<1>12. SInv
  BY <1>2, <1>8, <1>10, <1>11 DEF SInv, Alone, Readable, Holding, Session1
<1>13. QED
  BY <1>9, <1>12 DEF IInv

LEMMA NextOK ==
  ASSUME IInv, [Next]_vars
  PROVE  IInv'
<1>1. TInv /\ SInv
  BY DEF IInv
<1>2. CASE \E p \in Clis : Start(p) \/ Step(p) \/ RefreshLost(p) \/ PublishTimesOut(p) \/ Stop(p)
  <2>1. PICK p \in Clis : Start(p) \/ Step(p) \/ RefreshLost(p) \/ PublishTimesOut(p) \/ Stop(p)
    BY <1>2
  <2>2. CASE Start(p)
    BY <1>1, <2>2, StartOK DEF IInv
  <2>3. CASE Session(p) \/ RefreshLost(p) \/ Stop(p)
    BY <1>1, <2>3, SessionOK, EffectOK DEF IInv
  <2>4. CASE OnWorkspace(p) \/ Request(p) \/ PublishTimesOut(p)
    <3>1. RunEffect(p)
      BY <1>1, <2>4, RunsOK
    <3>2. Effect(p)
      BY <3>1 DEF RunEffect
    <3>3. QED
      BY <1>1, <3>1, <3>2, RunsKeep, EffectOK DEF IInv
  <2>5. QED
    BY <2>1, <2>2, <2>3, <2>4 DEF Step
<1>3. CASE \/ AccessExpires \/ RefreshExpires \/ ClaimOpened \/ RolloutSettles
           \/ DiagnoseAnswered \/ UNCHANGED vars
  BY <1>1, <1>3, WorldOK, AroundOK DEF IInv
<1>4. QED
  BY <1>2, <1>3 DEF Next, Finished

(* The two invariants hold of every reachable state: what a command has    *)
(* resolved exists at the control plane, and as long as no two commands    *)
(* run at once, the file and the process know the same session.            *)
THEOREM Invariants == Spec => []IInv
<1>1. Init => IInv
  BY InitOK
<1>2. IInv /\ [Next]_vars => IInv'
  BY NextOK
<1>3. QED
  BY <1>1, <1>2, PTL DEF Spec

-----------------------------------------------------------------------------
(* What follows from it *)

(* Type correctness of the commands of app.go: the session on the disk and *)
(* every organization, project and environment a command names exist.      *)
THEOREM TypesHold == Spec => []TypeOK
<1>1. IInv => TypeOK
  <2> SUFFICES ASSUME IInv PROVE TypeOK
    OBVIOUS
  <2>1. TInv /\ TablesOK(srv) /\ DeploymentsOK(srv)
    BY DEF IInv, TInv, ServerOK
  <2>2. Auths = SessionsOf(srv)
    BY DEF Auths, SessionsOf, PairsOf
  <2>3. disk.data \in {None, Torn} \cup Auths
    BY <2>1, <2>2 DEF TInv, DiskOK
  <2>4. ASSUME NEW p \in Clis, pc[p] # "idle"
        PROVE  /\ job[p].tok.row \in 0..Len(srv.grants) /\ job[p].org \in 0..Len(srv.orgs)
               /\ job[p].project \in 0..Len(srv.projects) /\ job[p].env \in 0..Len(srv.envs)
               /\ job[p].held \in Auths /\ job[p].todo # << >>
    BY <2>1, <2>2, <2>4, JobFacts DEF JobTypes, PairsOf
  <2>5. QED
    BY <2>1, <2>3, <2>4 DEF TypeOK, DeploymentsOK
<1>2. QED
  BY <1>1, Invariants, PTL

LEMMA AtMostOne ==
  ASSUME NEW S, \A x, y \in S : x = y
  PROVE  Cardinality(S) <= 1
<1>1. CASE S = {}
  BY <1>1, FS_EmptySet
<1>2. CASE S # {}
  <2>1. PICK x \in S : TRUE
    BY <1>2
  <2>2. S = {x}
    BY <2>1
  <2>3. QED
    BY <2>2, FS_Singleton
<1>3. QED
  BY <1>1, <1>2

(* A deploy creates one release and one deployment at the most, for any    *)
(* number of commands beside each other, expired tokens and timeouts: its  *)
(* request token is its own, and a stage that has released is behind it    *)
(* (authSession.Call, publishReleaseWithRetry).                            *)
THEOREM NothingHappensTwice == Spec => []NothingTwice
<1>1. IInv => NothingTwice
  <2> SUFFICES ASSUME IInv, NEW c \in 1..commands
               PROVE  LET R == {r \in DOMAIN srv.releases : srv.releases[r].cmd = c}
                          D == {d \in DOMAIN srv.deployments : srv.deployments[d].release \in R}
                      IN Cardinality(R) <= 1 /\ Cardinality(D) <= 1
    BY DEF NothingTwice
  <2> DEFINE R == {r \in DOMAIN srv.releases : srv.releases[r].cmd = c}
             D == {d \in DOMAIN srv.deployments : srv.deployments[d].release \in R}
  <2>1. ReleasesOK(srv, commands) /\ DeploymentsOK(srv)
    BY DEF IInv, TInv, ServerOK
  <2>2. \A x, y \in R : x = y
    BY <2>1 DEF ReleasesOK
  <2>3. \A d \in D : srv.deployments[d].token = c
    BY <2>1 DEF DeploymentsOK
  <2>4. \A x, y \in D : x = y
    BY <2>1, <2>3 DEF DeploymentsOK
  <2> HIDE DEF R, D
  <2>5. Cardinality(R) <= 1 /\ Cardinality(D) <= 1
    BY <2>2, <2>4, AtMostOne
  <2>6. QED
    BY <2>5 DEF R, D
<1>2. QED
  BY <1>1, Invariants, PTL

(* A deploy waits for the deployment of its own release in the environment *)
(* it has resolved, for any number of commands beside it and whatever was  *)
(* repeated or timed out (publishReleaseWithRetry, pollDeploymentProgress).*)
THEOREM OutcomeIsItsOwn == Spec => []OwnOutcome
<1>1. IInv => OwnOutcome
  <2> SUFFICES ASSUME IInv, NEW p \in Clis, pc[p] # "idle", Stage(p) = "poll"
               PROVE  LET d == srv.deployments[job[p].item]
                      IN srv.releases[d.release].cmd = job[p].cmd /\ d.env = job[p].env
    BY DEF OwnOutcome
  <2>1. Placed(job[p].todo, job[p], srv) /\ StagesOK(job[p].todo) /\ DeploymentsOK(srv)
    BY JobFacts DEF IInv, ServerOK
  <2>2. Polling(job[p].todo)
    BY <2>1, AtPoll DEF Placed, Stage
  <2>3. /\ job[p].item \in DOMAIN srv.deployments /\ InItsEnv(job[p], srv)
        /\ srv.deployments[job[p].item].token = job[p].cmd
    BY <2>1, <2>2 DEF Placed
  <2>4. QED
    BY <2>1, <2>3 DEF DeploymentsOK, InItsEnv
<1>2. QED
  BY <1>1, Invariants, PTL

(* After commands one at a time and without a failure, auth.json is        *)
(* readable and has the tokens the control plane expects next: no rotation *)
(* of a refresh token is forgotten (auth.Manager.Refresh, persist).        *)
THEOREM SessionIsKept == Spec => []SessionKept
<1>1. IInv => SessionKept
  <2> SUFFICES ASSUME IInv, Quiet, Idle
               PROVE  /\ disk.data # Torn
                      /\ disk.data # None /\ Read.tok # NoPair =>
                           Read.tok.gen = srv.grants[Read.tok.row].gen
    BY DEF SessionKept
  <2>1. ~Unreadable
    BY DEF IInv, SInv, Idle
  <2>2. Fresh(Read.tok, srv)
    BY <2>1 DEF IInv, SInv, Idle, Unsaved
  <2>3. QED
    BY <2>1, <2>2 DEF Fresh, Unreadable
<1>2. QED
  BY <1>1, Invariants, PTL

(* One command at a time and without a failure, what is written over a     *)
(* session that is neither revoked nor older than its refresh token lives  *)
(* belongs to the same account, unless it is auth login: only a session    *)
(* the control plane refuses is replaced by one of another account         *)
(* (EnsureAuthenticated, BootstrapAnonymous).                              *)
THEOREM AccountIsKept == Spec => []AccountKept
<1>1. IInv => AccountKept
  <2> SUFFICES ASSUME IInv, NEW p \in Clis, Quiet, pc[p] = "truncate", Stage(p) # "login",
                      Read.tok # NoPair, srv.grants[Read.tok.row].live, Read.tok \notin lapsed
               PROVE  UserOf(job[p].next.tok) = UserOf(Read.tok)
    BY DEF AccountKept
  <2>1. Session1(p)
    BY DEF IInv, SInv
  <2>2. job[p].via \notin {"login", "bootstrap"}
    BY <2>1 DEF Session1, Dead
  <2>3. job[p].next.tok.row = Read.tok.row
    BY <2>1, <2>2 DEF Session1
  <2>4. QED
    BY <2>3 DEF UserOf
<1>2. QED
  BY <1>1, Invariants, PTL

LEMMA UsersKept ==
  ASSUME IInv, [Next]_vars, ~overlap, Unreadable
  PROVE  srv'.users = srv.users
<1>1. TInv /\ SInv /\ TablesOK(srv)
  BY DEF IInv, TInv, ServerOK
<1>2. CASE \E p \in Clis : Start(p) \/ Step(p) \/ RefreshLost(p) \/ PublishTimesOut(p) \/ Stop(p)
  <2>1. PICK p \in Clis : Start(p) \/ Step(p) \/ RefreshLost(p) \/ PublishTimesOut(p) \/ Stop(p)
    BY <1>2
  <2>2. CASE OnWorkspace(p) \/ Request(p) \/ PublishTimesOut(p)
    BY <1>1, <2>2, RunsOK DEF RunEffect
  <2>3. CASE BootstrapAnonymous(p)
    BY <2>3, <1>1 DEF BootstrapAnonymous, SInv, Readable, Holding
  <2>4. CASE Refresh(p) \/ RefreshLost(p)
    <3> DEFINE s == Rotate(srv, job[p].held.tok.row)
    <3>1. srv' \in {srv, s}
      BY <2>4 DEF Refresh, RefreshLost
    <3>2. s.users = srv.users
      BY <1>1, Rotated
    <3> HIDE DEF s
    <3>3. QED
      BY <3>1, <3>2
  <2>5. CASE SignIn(p)
    <3> DEFINE s == Issue(srv, Human, FALSE)
    <3>1. srv' = s
      BY <2>5 DEF SignIn
    <3>2. s.users = srv.users
      BY <1>1, Issued DEF Changes
    <3> HIDE DEF s
    <3>3. QED
      BY <3>1, <3>2
  <2>6. CASE Start(p) \/ Authenticate(p) \/ Unauthorized(p) \/ SignOut(p) \/ Persist(p)
               \/ RememberOrganization(p) \/ Truncate(p) \/ WriteFile(p) \/ Stop(p)
    BY <2>6, Zenon DEF Start, Authenticate, Unauthorized, SignOut, Persist, RememberOrganization,
            Truncate, WriteFile, Stop
  <2>7. QED
    BY <2>1, <2>2, <2>3, <2>4, <2>5, <2>6 DEF Step, Session
<1>3. CASE \/ AccessExpires \/ RefreshExpires \/ ClaimOpened \/ RolloutSettles
           \/ DiagnoseAnswered \/ UNCHANGED vars
  BY <1>1, <1>3, WorldOK DEF Around
<1>4. QED
  BY <1>2, <1>3 DEF Next, Finished

(* As long as no two commands have run at once, no step creates an account *)
(* over an auth.json that is half written, whatever has been killed before *)
(* (EnsureAuthenticated, which stops at a file it cannot read).            *)
THEOREM TornFileFailsClosed == Spec => TornFailsClosed
<1> DEFINE A == ~overlap /\ Unreadable => Len(srv'.users) = Len(srv.users)
<1>1. IInv /\ [Next]_vars => [A]_vars
  BY UsersKept
<1>2. TornFailsClosed <=> [][A]_vars
  BY DEF TornFailsClosed
<1> HIDE DEF A
<1>3. QED
  BY <1>1, <1>2, Invariants, PTL DEF Spec
=============================================================================
