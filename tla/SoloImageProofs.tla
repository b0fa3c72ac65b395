-------------------------- MODULE SoloImageProofs ---------------------------
(***************************************************************************)
(* The images of SoloWorkflow: what a command found on a node, or sent     *)
(* there, disk care does not take away before the command has ended.       *)
(*                                                                         *)
(* Disk care decides on a store of revisions, and the store changes with   *)
(* every document the agent comes to.  Hence the invariant is not that the *)
(* image is there, but that it is also safe from each cleanup that may     *)
(* come before the agent loads a document that is not on the node yet:     *)
(* after the document it has loaded, after the one in the override file,   *)
(* and after both.  The steps of an agent keep all three (DiskCareProofs); *)
(* the publication of a further document, by the command that sent its     *)
(* images, puts these at the front of their windows.                       *)
(***************************************************************************)
EXTENDS SoloDocumentProofs, DiskCareProofs

-----------------------------------------------------------------------------
(* The inductive invariant *)

HostOK(h) ==
  /\ DOMAIN h = {"agent", "override", "loaded", "tasks", "last", "status", "images", "store"}
  /\ h.images \subseteq Commits /\ h.store \in [Envs -> Seq(Commits)]
  /\ Images(h.override) \subseteq Commits /\ Images(h.loaded) \subseteq Commits

\* What command j has sent is planned for its node, and what was safe still is.
SentOK(j, h) ==
  \A s \in j.sent :
    /\ s[1] \in Nodes /\ s[2] \in Commits /\ s[2] \in Images(j.plan[s[1]])
    /\ s[3] => s[2] \in h[s[1]].images /\ Safe(h[s[1]], s[2])

PlanOK(w) == \A n \in DOMAIN w : DOMAIN w[n].envs \subseteq Envs

\* A process at step at, with variables j, and the hosts h.  Only the holder of
\* the lock plans and sends.
ProcessOK(at, j, h) ==
  /\ at = "idle" => j = NoJob
  /\ at # "idle" => IsJob(j) /\ SentOK(j, h)
  /\ at \notin Locked \cup {"idle"} => j.sent = {}
  /\ at \in Locked => PlanOK(j.plan)

ImageInv ==
  /\ \A n \in Nodes : HostOK(host[n])
  /\ \A p \in Clis : ProcessOK(pc[p], job[p], host)

\* The rest of the types.
CountsOK ==
  servers \subseteq Nodes /\ faults \in 0..MaxFaults /\ commands \in 0..MaxCommands

-----------------------------------------------------------------------------
(* What happens to a host *)

LEMMA CurrentOf ==
  ASSUME NEW d, Images(d) \subseteq Commits
  PROVE  IsCurrent(ReleasesOf(d), Commits)
BY DEF Images, Range, IsCurrent

LEMMA SparedIs ==
  ASSUME NEW store, DOMAIN store = Envs, NEW c
  PROVE  Spared(store, c) <=> \/ \E e \in Envs : c \in Newest(store[e])
                              \/ \A e \in Envs : c \notin Range(store[e])
BY DEF Spared

\* Safe, for the three stores one by one.
LEMMA SafeIs ==
  ASSUME NEW h, HostOK(h), NEW c,
         NEW seen, seen = Upsert(h.store, ReleasesOf(h.loaded)),
         NEW next, next = Upsert(h.store, ReleasesOf(h.override)),
         NEW last, last = Upsert(seen, ReleasesOf(h.override))
  PROVE  /\ seen \in [Envs -> Seq(Commits)] /\ next \in [Envs -> Seq(Commits)]
         /\ last \in [Envs -> Seq(Commits)]
         /\ Safe(h, c) <=> Spared(seen, c) /\ Spared(next, c) /\ Spared(last, c)
<1>1. /\ IsCurrent(ReleasesOf(h.loaded), Commits) /\ IsCurrent(ReleasesOf(h.override), Commits)
      /\ h.store \in [Envs -> Seq(Commits)]
  BY CurrentOf DEF HostOK
<1>2. seen \in [Envs -> Seq(Commits)] /\ next \in [Envs -> Seq(Commits)]
  BY <1>1, UpsertType
<1>3. last \in [Envs -> Seq(Commits)]
  BY <1>1, <1>2, UpsertType
<1>4. DOMAIN seen = Envs /\ DOMAIN next = Envs /\ DOMAIN last = Envs
  BY <1>2, <1>3
<1>5. Upcoming(h) = {seen, next, last}
  BY DEF Upcoming
<1>6. Safe(h, c) <=> \A store \in {seen, next, last} :
                       \/ \E e \in Envs : c \in Newest(store[e])
                       \/ \A e \in Envs : c \notin Range(store[e])
  BY <1>5 DEF Safe
<1>7. Safe(h, c) <=> \A store \in {seen, next, last} : Spared(store, c)
  BY <1>4, <1>6, SparedIs
<1>8. QED
  BY <1>2, <1>3, <1>7

\* What is there and safe is there and safe after.
Gentle(h, g) == \A c \in h.images : Safe(h, c) => c \in g.images /\ Safe(g, c)

\* Nothing changed that Safe depends on.
LEMMA HostAlike ==
  ASSUME NEW h, HostOK(h), NEW g, DOMAIN g = DOMAIN h, g.override = h.override,
         g.loaded = h.loaded, g.store = h.store, g.images = h.images
  PROVE  HostOK(g) /\ Gentle(h, g)
<1>1. HostOK(g)
  BY DEF HostOK
<1>2. Upcoming(g) = Upcoming(h)
  BY DEF Upcoming
<1>3. QED
  BY <1>1, <1>2 DEF Gentle, Safe

\* The agent takes up the document of the override file.
LEMMA HostLoads ==
  ASSUME NEW h, HostOK(h), NEW g, DOMAIN g = DOMAIN h, g.override = h.override,
         g.loaded = h.override, g.store = h.store, g.images = h.images
  PROVE  HostOK(g) /\ Gentle(h, g)
<1>1. HostOK(g)
  BY DEF HostOK
<1>2. PICK next : next = Upsert(h.store, ReleasesOf(h.override))
  OBVIOUS
<1>3. h.store \in [Envs -> Seq(Commits)] /\ IsCurrent(ReleasesOf(h.override), Commits)
  BY CurrentOf DEF HostOK
<1>4. Upsert(next, ReleasesOf(h.override)) = next
  BY <1>2, <1>3, UpsertTwice
<1>5. Upcoming(g) = {next}
  BY <1>2, <1>4 DEF Upcoming
<1>6. next \in Upcoming(h)
  BY <1>2 DEF Upcoming
<1>7. QED
  BY <1>1, <1>5, <1>6 DEF Gentle, Safe

\* The uninstall script takes the store and both documents.
LEMMA HostCleared ==
  ASSUME NEW h, h.images \subseteq Commits
  PROVE  HostOK(Uninstalled(h, FALSE)) /\ Gentle(h, Uninstalled(h, FALSE))
<1>1. PICK g : g = Uninstalled(h, FALSE)
  OBVIOUS
<1>2. /\ DOMAIN g = {"agent", "override", "loaded", "tasks", "last", "status", "images", "store"}
      /\ g.override = None /\ g.loaded = None /\ g.images = h.images
      /\ g.store = [e \in Envs |-> << >>]
  BY <1>1 DEF Uninstalled, Bare
<1>3. ReleasesOf(None) = << >> /\ Images(None) = {}
  BY DEF ReleasesOf, Images, Range
<1>4. g.store \in [Envs -> Seq(Commits)]
  BY <1>2
<1>5. HostOK(g)
  BY <1>2, <1>3, <1>4 DEF HostOK
<1>6. Upsert(g.store, << >>) = g.store
  BY <1>2 DEF Upsert
<1>7. Upcoming(g) = {g.store}
  BY <1>2, <1>3, <1>6 DEF Upcoming
<1>8. \A e \in Envs : Range(g.store[e]) = {}
  BY <1>2 DEF Range
<1>9. QED
  BY <1>1, <1>2, <1>5, <1>7, <1>8 DEF Gentle, Safe

\* A cleanup, whatever of it fails.
LEMMA HostCares ==
  ASSUME NEW h, HostOK(h), NEW R, R \subseteq Doomed(h), NEW g, DOMAIN g = DOMAIN h,
         g.override = h.override, g.loaded = h.loaded, g.images = h.images \ R,
         \/ g.store = h.store
         \/ g.store = DropRemovedImages(Upserted(h), Retained(h), R)
  PROVE  HostOK(g) /\ Gentle(h, g)
<1>1. PICK l : l = ReleasesOf(h.loaded)
  OBVIOUS
<1>2. PICK o : o = ReleasesOf(h.override)
  OBVIOUS
<1>3. /\ h.store \in [Envs -> Seq(Commits)] /\ IsCurrent(l, Commits) /\ IsCurrent(o, Commits)
  BY <1>1, <1>2, CurrentOf DEF HostOK
<1>4. PICK seen : seen = Upsert(h.store, l)
  OBVIOUS
<1>5. PICK last : last = Upsert(seen, o)
  OBVIOUS
<1>6. seen \in [Envs -> Seq(Commits)] /\ last \in [Envs -> Seq(Commits)]
  BY <1>3, <1>4, <1>5, UpsertType
<1>7. Upserted(h) = seen /\ Retained(h) = RetainedReleases(seen, l)
  BY <1>1, <1>4 DEF Upserted, Retained
<1>8. ASSUME NEW c, Safe(h, c) PROVE Spared(seen, c) /\ Spared(last, c) /\ c \notin R
  <2>1. Spared(seen, c) /\ Spared(last, c)
    BY <1>1, <1>2, <1>4, <1>5, <1>8, SafeIs
  <2>2. c \notin PruneCandidates(seen, RetainedReleases(seen, l))
    BY <1>6, <2>1, SparedStays
  <2>3. QED
    BY <1>7, <2>1, <2>2 DEF Doomed
<1>9. CASE g.store = h.store
  <2>1. HostOK(g)
    BY <1>9 DEF HostOK
  <2>2. Upcoming(g) = Upcoming(h)
    BY <1>9 DEF Upcoming
  <2>3. ASSUME NEW c, Safe(h, c) PROVE Safe(g, c)
    BY <2>2, <2>3 DEF Safe
  <2>4. QED
    BY <1>8, <2>1, <2>3 DEF Gentle
<1>10. CASE g.store = DropRemovedImages(Upserted(h), Retained(h), R)
  <2>1. PICK kept : kept = DropRemovedImages(seen, RetainedReleases(seen, l), R)
    OBVIOUS
  <2>2. kept \in [Envs -> Seq(Commits)] /\ Upsert(kept, l) = kept
    <3>1. PICK store \in [Envs -> Seq(Commits)] : store = h.store
      BY <1>3
    <3>2. PICK ret : ret = RetainedReleases(seen, l)
      OBVIOUS
    <3>3. seen = Upsert(store, l) /\ kept = DropRemovedImages(seen, ret, R)
      BY <1>4, <2>1, <3>1, <3>2
    <3>4. QED
      BY <1>3, <3>2, <3>3, UpsertDropped
  <2>3. g.store = kept
    BY <1>7, <1>10, <2>1
  <2>4. HostOK(g)
    BY <2>2, <2>3 DEF HostOK
  <2>5. PICK next : next = Upsert(kept, o)
    OBVIOUS
  <2>6. next \in [Envs -> Seq(Commits)]
    BY <1>3, <2>2, <2>5, UpsertType
  <2>7. ASSUME NEW c, Safe(h, c) PROVE Safe(g, c)
    <3>1. Thins(seen, kept, c)
      BY <1>6, <1>8, <2>1, <2>7, DropThins
    <3>2. Thins(last, next, c)
      BY <1>3, <1>5, <1>6, <2>2, <2>5, <3>1, UpsertThins
    <3>3. Spared(kept, c)
      BY <1>6, <1>8, <2>2, <2>7, <3>1, SparedThins
    <3>4. Spared(next, c)
      BY <1>6, <1>8, <2>6, <2>7, <3>2, SparedThins
    <3>5. /\ kept = Upsert(g.store, ReleasesOf(g.loaded))
          /\ next = Upsert(g.store, ReleasesOf(g.override))
          /\ next = Upsert(kept, ReleasesOf(g.override))
      BY <1>1, <1>2, <2>2, <2>3, <2>5
    <3>6. QED
      BY <2>4, <3>3, <3>4, <3>5, SafeIs
  <2>8. QED
    BY <1>8, <2>4, <2>7 DEF Gentle
<1>11. QED
  BY <1>9, <1>10

LEMMA CareIs ==
  ASSUME NEW h, HostOK(h)
  PROVE  /\ HostOK(Care(h)) /\ Gentle(h, Care(h))
         /\ \A g \in CareFailing(h) : HostOK(g) /\ Gentle(h, g)
<1>1. ASSUME NEW R \in SUBSET Doomed(h), NEW g, g = RemoveImages(h, R)
      PROVE  HostOK(g) /\ Gentle(h, g)
  <2>1. /\ DOMAIN g = DOMAIN h /\ g.override = h.override /\ g.loaded = h.loaded
        /\ g.images = h.images \ R /\ g.store = h.store
    BY <1>1 DEF RemoveImages, HostOK
  <2>2. QED
    BY <2>1, HostCares
<1>2. ASSUME NEW R \in SUBSET Doomed(h), NEW g, g = RemoveImages(SaveStore(h, R), R)
      PROVE  HostOK(g) /\ Gentle(h, g)
  <2>1. PICK s : s = DropRemovedImages(Upserted(h), Retained(h), R)
    OBVIOUS
  <2>2. g = [[h EXCEPT !.store = s] EXCEPT !.images = @ \ R]
    BY <1>2, <2>1 DEF RemoveImages, SaveStore
  <2>3. /\ DOMAIN g = DOMAIN h /\ g.override = h.override /\ g.loaded = h.loaded
        /\ g.images = h.images \ R /\ g.store = s
    BY <2>2 DEF HostOK
  <2>4. QED
    BY <2>1, <2>3, HostCares
<1>3. HostOK(Care(h)) /\ Gentle(h, Care(h))
  BY <1>2 DEF Care
<1>4. ASSUME NEW g \in CareFailing(h) PROVE HostOK(g) /\ Gentle(h, g)
  <2>1. PICK R \in SUBSET Doomed(h) :
          g = RemoveImages(h, R) \/ g = RemoveImages(SaveStore(h, R), R)
    BY DEF CareFailing
  <2>2. QED
    BY <1>1, <1>2, <2>1
<1>5. QED
  BY <1>3, <1>4

\* The document whose images were sent: they come to the front.
LEMMA HostPublished ==
  ASSUME NEW h, HostOK(h), NEW d, Images(d) \subseteq Commits, DOMAIN d.envs \subseteq Envs
  PROVE  /\ HostOK(SetOverride(h, d)) /\ SetOverride(h, d).images = h.images
         /\ \A c \in Images(d) : Safe(h, c) => Safe(SetOverride(h, d), c)
<1>1. PICK g : g = SetOverride(h, d)
  OBVIOUS
<1>2. /\ DOMAIN g = DOMAIN h /\ g.override = d /\ g.loaded = h.loaded
      /\ g.images = h.images /\ g.store = h.store
  BY <1>1 DEF SetOverride, HostOK
<1>3. HostOK(g)
  BY <1>2 DEF HostOK
<1>4. ASSUME NEW c \in Images(d), Safe(h, c) PROVE Safe(g, c)
  <2>1. PICK o : o = ReleasesOf(d)
    OBVIOUS
  <2>2. IsCurrent(o, Commits) /\ h.store \in [Envs -> Seq(Commits)]
    BY <2>1, CurrentOf DEF HostOK
  <2>3. PICK e \in DOMAIN o : c = o[e]
    BY <1>4, <2>1 DEF Images, Range
  <2>4. e \in Envs
    BY <2>1, <2>3 DEF ReleasesOf
  <2>5. ASSUME NEW store \in [Envs -> Seq(Commits)] PROVE Spared(Upsert(store, o), c)
    <3>1. PICK u : u = Upsert(store, o)
      OBVIOUS
    <3>2. u \in [Envs -> Seq(Commits)]
      BY <2>2, <3>1, UpsertType
    <3>3. e \in DOMAIN store /\ e \in DOMAIN u /\ c \in Commits
      BY <2>2, <2>3, <2>4, <3>2 DEF IsCurrent
    <3>4. u[e] = Front(store[e], c)
      BY <2>3, <3>1, <3>3, UpsertAt
    <3>5. c \in Newest(u[e])
      BY <2>4, <3>3, <3>4, FrontNewest
    <3>6. QED
      BY <3>1, <3>3, <3>5 DEF Spared
  <2>6. PICK seen : seen = Upsert(h.store, ReleasesOf(h.loaded))
    OBVIOUS
  <2>7. seen \in [Envs -> Seq(Commits)] /\ Spared(seen, c)
    BY <1>4, <2>6, SafeIs
  <2>8. Spared(Upsert(h.store, o), c) /\ Spared(Upsert(seen, o), c)
    BY <2>2, <2>5, <2>7
  <2>9. QED
    BY <1>2, <1>3, <2>1, <2>6, <2>7, <2>8, SafeIs
<1>5. QED
  BY <1>1, <1>2, <1>3, <1>4

-----------------------------------------------------------------------------
(* What happens to a process *)

LEMMA ProcessGentle ==
  ASSUME NEW at, NEW j, NEW h, NEW g, ProcessOK(at, j, h), \A n \in Nodes : Gentle(h[n], g[n])
  PROVE  ProcessOK(at, j, g)
<1>1. SentOK(j, h) => SentOK(j, g)
  BY DEF SentOK, Gentle
<1>2. QED
  BY <1>1 DEF ProcessOK

\* A command that goes on with what it planned and sent.
LEMMA ProcessSame ==
  ASSUME NEW at \in Locked, NEW j, NEW h, ProcessOK(at, j, h), NEW to \in Locked,
         NEW k, IsJob(k), k.plan = j.plan, k.sent = j.sent
  PROVE  ProcessOK(to, k, h)
BY DEF ProcessOK, SentOK, Locked

\* A command that has sent nothing.
LEMMA ProcessFresh ==
  ASSUME NEW to, to # "idle", NEW k, NEW h, IsJob(k), k.sent = {}, PlanOK(k.plan)
  PROVE  ProcessOK(to, k, h)
BY DEF ProcessOK, SentOK

\* A process without the lock does not depend on the hosts.
LEMMA ProcessElsewhere ==
  ASSUME NEW at, at \notin Locked, NEW j, NEW h, NEW g, ProcessOK(at, j, h)
  PROVE  ProcessOK(at, j, g)
BY DEF ProcessOK, SentOK

LEMMA PlanIsOK ==
  ASSUME NEW st, NEW S
  PROVE  PlanOK(Plan(st, S))
BY DEF PlanOK, Plan, Document, Released, AttachedTo

LEMMA EmptyPlan == PlanOK(<< >>)
BY NoPlan DEF PlanOK

LEMMA JobIs ==
  ASSUME NEW op, NEW e, NEW n
  PROVE  LET j == Job(op, e, n) IN IsJob(j) /\ j.sent = {} /\ j.plan = << >> /\ PlanOK(j.plan)
<1>1. PICK j : j = Job(op, e, n)
  OBVIOUS
<1>2. IsJob(j) /\ j.sent = {} /\ j.plan = << >>
  BY <1>1 DEF Job, IsJob
<1>3. QED
  BY <1>1, <1>2, EmptyPlan

LEMMA PlannedIs ==
  ASSUME NEW j, IsJob(j), NEW st, NEW S
  PROVE  LET k == Planned(j, st, S) IN IsJob(k) /\ k.sent = {} /\ PlanOK(k.plan)
<1>1. PICK w : w = Plan(st, S)
  OBVIOUS
<1>2. PICK k : k = Planned(j, st, S)
  OBVIOUS
<1>3. k = [j EXCEPT !.plan = w, !.todo = S, !.bad = {}, !.gone = {}, !.sent = {}]
  BY <1>1, <1>2 DEF Planned
<1>4. IsJob(k) /\ k.sent = {} /\ k.plan = w
  BY <1>3 DEF IsJob
<1>5. QED
  BY <1>1, <1>2, <1>4, PlanIsOK

-----------------------------------------------------------------------------
(* Steps *)

\* One process goes somewhere, and no host takes an image away that is safe.
LEMMA ImageStep ==
  ASSUME IInv, ImageInv, NEW p \in Clis, NEW at, NEW j, ProcessOK(at, j, host'),
         pc' = [pc EXCEPT ![p] = at], job' = [job EXCEPT ![p] = j],
         \A n \in Nodes : HostOK(host'[n]) /\ Gentle(host[n], host'[n])
  PROVE  ImageInv'
<1>1. LockOK
  BY DEF IInv, FInv
<1>2. ASSUME NEW q \in Clis PROVE ProcessOK(pc'[q], job'[q], host')
  <2>1. CASE q = p
    BY <1>1, <2>1 DEF LockOK
  <2>2. CASE q # p
    <3>1. pc'[q] = pc[q] /\ job'[q] = job[q]
      BY <1>1, <2>2 DEF LockOK
    <3>2. ProcessOK(pc[q], job[q], host')
      BY ProcessGentle DEF ImageInv
    <3>3. QED
      BY <3>1, <3>2
  <2>3. QED
    BY <2>1, <2>2
<1>3. QED
  BY <1>2 DEF ImageInv

\* One process goes somewhere.
LEMMA ImageMoves ==
  ASSUME IInv, ImageInv, NEW p \in Clis, NEW at, NEW j, ProcessOK(at, j, host),
         pc' = [pc EXCEPT ![p] = at], job' = [job EXCEPT ![p] = j], host' = host
  PROVE  ImageInv'
<1>1. \A n \in Nodes : HostOK(host'[n]) /\ Gentle(host[n], host'[n])
  BY DEF ImageInv, Gentle
<1>2. QED
  BY <1>1, ImageStep

\* It stays where it is.
LEMMA ImageWorks ==
  ASSUME IInv, ImageInv, NEW p \in Clis, NEW j, ProcessOK(pc[p], j, host),
         pc' = pc, job' = [job EXCEPT ![p] = j], host' = host
  PROVE  ImageInv'
<1>1. pc' = [pc EXCEPT ![p] = pc[p]]
  BY DEF IInv, FInv, LockOK
<1>2. QED
  BY <1>1, ImageMoves

\* It ends.
LEMMA ImageReturns ==
  ASSUME IInv, ImageInv, NEW p \in Clis, Return(p), host' = host
  PROVE  ImageInv'
<1>1. ProcessOK("idle", NoJob, host)
  BY DEF ProcessOK, Locked
<1>2. pc' = [pc EXCEPT ![p] = "idle"] /\ job' = [job EXCEPT ![p] = NoJob]
  BY DEF Return
<1>3. QED
  BY <1>1, <1>2, ImageMoves

LEMMA ImageSame ==
  ASSUME IInv, ImageInv, pc' = pc, job' = job, host' = host
  PROVE  ImageInv'
BY DEF ImageInv

\* Another time for a report is noted.
LEMMA LaterIs ==
  ASSUME NEW n, NEW p \in Clis, ProcessOK(pc[p], job[p], host)
  PROVE  ProcessOK(pc[p], Later(n)[p], host)
<1>1. CASE Later(n)[p] = job[p]
  BY <1>1
<1>2. CASE Later(n)[p] # job[p]
  <2>1. /\ pc[p] \in {"baseline", "publish", "wait"}
        /\ Later(n)[p] = [job[p] EXCEPT !.since = @ \cup {n}]
    BY <1>2 DEF Later
  <2>2. IsJob(job[p])
    BY <2>1 DEF ProcessOK
  <2>3. PICK k : k = [job[p] EXCEPT !.since = @ \cup {n}]
    OBVIOUS
  <2>4. IsJob(k) /\ k.plan = job[p].plan /\ k.sent = job[p].sent
    BY <2>2, <2>3 DEF IsJob
  <2>5. ProcessOK(pc[p], k, host)
    BY <2>1, <2>4, ProcessSame DEF Locked
  <2>6. QED
    BY <2>1, <2>3, <2>5
<1>3. QED
  BY <1>1, <1>2

\* One host changes, and takes no image away that is safe.
LEMMA ImageHost ==
  ASSUME IInv, ImageInv, NEW n \in Nodes, NEW g, HostOK(g), Gentle(host[n], g),
         host' = [host EXCEPT ![n] = g], pc' = pc, job' = job \/ job' = Later(n)
  PROVE  ImageInv'
<1>1. HostsOK
  BY DEF IInv, DInv
<1>2. \A m \in Nodes : host'[m] = IF m = n THEN g ELSE host[m]
  BY <1>1 DEF HostsOK
<1>3. \A m \in Nodes : HostOK(host'[m]) /\ Gentle(host[m], host'[m])
  BY <1>2 DEF ImageInv, Gentle
<1>4. \A p \in Clis : ProcessOK(pc[p], job'[p], host)
  BY LaterIs DEF ImageInv
<1>5. \A p \in Clis : ProcessOK(pc'[p], job'[p], host')
  BY <1>3, <1>4, ProcessGentle
<1>6. QED
  BY <1>3, <1>5 DEF ImageInv

LEMMA ImageReport ==
  ASSUME IInv, ImageInv, NEW n \in Nodes, NEW s, NEW h, HostOK(h), Gentle(host[n], h),
         Reported(n, s, h)
  PROVE  ImageInv'
<1>1. PICK g : g = [h EXCEPT !.status = s, !.last = s]
  OBVIOUS
<1>2. host' = [host EXCEPT ![n] = g] /\ job' = Later(n) /\ pc' = pc
  BY <1>1 DEF Reported
<1>3. /\ DOMAIN g = DOMAIN h /\ g.override = h.override /\ g.loaded = h.loaded
      /\ g.store = h.store /\ g.images = h.images
  BY <1>1 DEF HostOK
<1>4. HostOK(g) /\ Gentle(h, g)
  BY <1>3, HostAlike
<1>5. Gentle(host[n], g)
  BY <1>4 DEF Gentle
<1>6. QED
  BY <1>2, <1>4, <1>5, ImageHost

LEMMA HostSame ==
  ASSUME NEW h, HostOK(h)
  PROVE  Gentle(h, h)
BY DEF Gentle

\* The agents.
LEMMA ImageAgent ==
  ASSUME IInv, ImageInv, NEW n \in Nodes,
         \/ AgentLoads(n) \/ AgentTaskEnds(n) \/ AgentSettles(n) \/ AgentTaskRuns(n)
         \/ AgentTaskFails(n) \/ AgentSick(n) \/ AgentFails(n) \/ AgentLacksImage(n)
         \/ AgentCareFails(n) \/ AgentCaresAgain(n)
  PROVE  ImageInv'
<1>1. PICK h : h = host[n]
  OBVIOUS
<1>2. HostOK(h) /\ HostsOK
  BY <1>1 DEF ImageInv, IInv, DInv
<1>3. CASE AgentLoads(n)
  <2>1. PICK T : T = {e \in DOMAIN h.override.envs : h.override.envs[e].task}
    OBVIOUS
  <2>2. PICK g : g = [h EXCEPT !.loaded = h.override, !.last = None, !.tasks = T]
    OBVIOUS
  <2>3. host' = [host EXCEPT ![n] = g]
    BY <1>1, <1>2, <1>3, <2>1, <2>2 DEF AgentLoads, HostsOK
  <2>4. /\ DOMAIN g = DOMAIN h /\ g.override = h.override /\ g.loaded = h.override
        /\ g.store = h.store /\ g.images = h.images
    BY <1>2, <2>2 DEF HostOK
  <2>5. HostOK(g) /\ Gentle(h, g)
    BY <1>2, <2>4, HostLoads
  <2>6. pc' = pc /\ job' = job
    BY <1>3 DEF AgentLoads, cliVars
  <2>7. QED
    BY <1>1, <2>3, <2>5, <2>6, ImageHost
<1>4. CASE AgentTaskEnds(n)
  <2>1. PICK e : host' = [host EXCEPT ![n].tasks = @ \ {e}]
    BY <1>4 DEF AgentTaskEnds
  <2>2. PICK g : g = [h EXCEPT !.tasks = @ \ {e}]
    OBVIOUS
  <2>3. host' = [host EXCEPT ![n] = g]
    BY <1>1, <1>2, <2>1, <2>2 DEF HostsOK
  <2>4. /\ DOMAIN g = DOMAIN h /\ g.override = h.override /\ g.loaded = h.loaded
        /\ g.store = h.store /\ g.images = h.images
    BY <1>2, <2>2 DEF HostOK
  <2>5. HostOK(g) /\ Gentle(h, g)
    BY <1>2, <2>4, HostAlike
  <2>6. pc' = pc /\ job' = job
    BY <1>4 DEF AgentTaskEnds, cliVars
  <2>7. QED
    BY <1>1, <2>3, <2>5, <2>6, ImageHost
<1>5. CASE AgentSettles(n) \/ AgentSick(n)
  <2>1. PICK s : Reported(n, s, Care(h))
    BY <1>1, <1>5 DEF AgentSettles, AgentSick, Report
  <2>2. QED
    BY <1>1, <1>2, <2>1, CareIs, ImageReport
<1>6. CASE AgentTaskRuns(n) \/ AgentTaskFails(n) \/ AgentFails(n) \/ AgentLacksImage(n)
  <2>1. PICK s : Reported(n, s, h)
    BY <1>1, <1>6 DEF AgentTaskRuns, AgentTaskFails, AgentFails, AgentLacksImage, Report
  <2>2. QED
    BY <1>1, <1>2, <2>1, HostSame, ImageReport
<1>7. CASE AgentCareFails(n)
  <2>1. PICK g \in CareFailing(h) : Reported(n, Settled(host[n].loaded, {}), g)
    BY <1>1, <1>7 DEF AgentCareFails
  <2>2. QED
    BY <1>1, <1>2, <2>1, CareIs, ImageReport
<1>8. CASE AgentCaresAgain(n)
  <2>1. host' = [host EXCEPT ![n] = Care(h)] /\ (job' = job \/ job' = Later(n)) /\ pc' = pc
    BY <1>1, <1>8 DEF AgentCaresAgain
  <2>2. QED
    BY <1>1, <1>2, <2>1, CareIs, ImageHost
<1>9. QED
  BY <1>3, <1>4, <1>5, <1>6, <1>7, <1>8

-----------------------------------------------------------------------------
(* Commands that change a host *)

\* One host changes: the others are as they were.
LEMMA OneHost ==
  ASSUME IInv, ImageInv, NEW n \in Nodes, NEW g, HostOK(g), host' = [host EXCEPT ![n] = g]
  PROVE  /\ host'[n] = g /\ \A m \in Nodes : m # n => host'[m] = host[m]
         /\ \A m \in Nodes : HostOK(host'[m])
         /\ Gentle(host[n], g) => \A m \in Nodes : Gentle(host[m], host'[m])
<1>1. HostsOK
  BY DEF IInv, DInv
<1>2. host'[n] = g /\ \A m \in Nodes : m # n => host'[m] = host[m]
  BY <1>1 DEF HostsOK
<1>3. \A m \in Nodes : HostOK(host'[m])
  BY <1>2 DEF ImageInv
<1>4. \A m \in Nodes : Gentle(host[m], host[m])
  BY DEF Gentle
<1>5. QED
  BY <1>2, <1>3, <1>4

LEMMA InstalledIs ==
  ASSUME NEW h, HostOK(h)
  PROVE  /\ HostOK(Installed(h)) /\ Gentle(h, Installed(h))
         /\ \A keep \in BOOLEAN : HostOK(Uninstalled(h, keep)) /\ Gentle(h, Uninstalled(h, keep))
<1>1. ASSUME NEW g, g = Installed(h) \/ g = Uninstalled(h, TRUE)
      PROVE  HostOK(g) /\ Gentle(h, g)
  <2>1. /\ DOMAIN g = DOMAIN h /\ g.override = h.override /\ g.loaded = h.loaded
        /\ g.store = h.store /\ g.images = h.images
    BY <1>1 DEF Installed, Uninstalled, HostOK
  <2>2. QED
    BY <2>1, HostAlike
<1>2. HostOK(Uninstalled(h, FALSE)) /\ Gentle(h, Uninstalled(h, FALSE))
  BY HostCleared DEF HostOK
<1>3. QED
  BY <1>1, <1>2

LEMMA ImageAgentCommands ==
  ASSUME IInv, ImageInv, NEW p, NEW n \in Nodes,
         AgentInstall(p, n) \/ \E keep \in BOOLEAN : AgentUninstall(p, n, keep)
  PROVE  ImageInv'
<1>1. HostOK(host[n])
  BY DEF ImageInv
<1>2. pc' = pc /\ job' = job
  BY DEF AgentInstall, AgentUninstall, cliVars
<1>3. PICK g : host' = [host EXCEPT ![n] = g] /\ HostOK(g) /\ Gentle(host[n], g)
  BY <1>1, InstalledIs DEF AgentInstall, AgentUninstall
<1>4. QED
  BY <1>2, <1>3, ImageHost

LEMMA Entry ==
  ASSUME NEW a, NEW b, NEW c
  PROVE  <<a, b, c>>[1] = a /\ <<a, b, c>>[2] = b /\ <<a, b, c>>[3] = c
OBVIOUS

\* A further image: it is there now, and safe if it is noted as safe.
LEMMA ImageSendImage ==
  ASSUME IInv, ImageInv, NEW p \in Clis, NEW n \in Nodes, NEW c \in Commits, SendImage(p, n, c)
  PROVE  ImageInv'
<1>1. PICK h : h = host[n]
  OBVIOUS
<1>2. PICK g : g = Transferred(h, c)
  OBVIOUS
<1>3. PICK s : s = <<n, c, Safe(h, c)>>
  OBVIOUS
<1>4. PICK k : k = [job[p] EXCEPT !.sent = @ \cup {s}]
  OBVIOUS
<1>5. /\ pc[p] = "publish" /\ c \in Images(job[p].plan[n])
      /\ host' = [host EXCEPT ![n] = g] /\ job' = [job EXCEPT ![p] = k] /\ pc' = pc
  BY <1>1, <1>2, <1>3, <1>4 DEF SendImage
<1>6. LockOK /\ HostOK(h) /\ IsJob(job[p]) /\ ProcessOK("publish", job[p], host)
  BY <1>1, <1>5 DEF ImageInv, ProcessOK, IInv, FInv
<1>7. /\ DOMAIN g = DOMAIN h /\ g.override = h.override /\ g.loaded = h.loaded
      /\ g.store = h.store /\ g.images = h.images \cup {c}
  BY <1>2, <1>6 DEF HostOK, Transferred
<1>8. Upcoming(g) = Upcoming(h)
  BY <1>7 DEF Upcoming
<1>9. HostOK(g) /\ \A d : Safe(h, d) => Safe(g, d)
  BY <1>6, <1>7, <1>8 DEF HostOK, Safe
<1>10. Gentle(h, g)
  BY <1>7, <1>9 DEF Gentle
<1>11. /\ host'[n] = g
       /\ \A m \in Nodes : HostOK(host'[m]) /\ Gentle(host[m], host'[m])
  BY <1>1, <1>5, <1>9, <1>10, OneHost
<1>12. IsJob(k) /\ k.plan = job[p].plan /\ k.sent = job[p].sent \cup {s}
  BY <1>4, <1>6 DEF IsJob
<1>13. s[1] = n /\ s[2] = c /\ (s[3] => Safe(h, c))
  BY <1>3, Entry
<1>14. SentOK(job[p], host')
  BY <1>6, <1>11, ProcessGentle DEF ProcessOK
<1>15. SentOK(k, host')
  <2>1. ASSUME NEW t \in k.sent
        PROVE  /\ t[1] \in Nodes /\ t[2] \in Commits /\ t[2] \in Images(k.plan[t[1]])
               /\ t[3] => t[2] \in host'[t[1]].images /\ Safe(host'[t[1]], t[2])
    <3>1. CASE t = s
      BY <1>5, <1>7, <1>9, <1>11, <1>12, <1>13, <3>1
    <3>2. CASE t \in job[p].sent
      BY <1>12, <1>14, <3>2 DEF SentOK
    <3>3. QED
      BY <1>12, <3>1, <3>2
  <2>2. QED
    BY <2>1 DEF SentOK
<1>16. ProcessOK("publish", k, host')
  BY <1>6, <1>12, <1>15 DEF ProcessOK, Locked
<1>17. pc' = [pc EXCEPT ![p] = "publish"]
  BY <1>5, <1>6 DEF LockOK
<1>18. QED
  BY <1>5, <1>11, <1>16, <1>17, ImageStep

\* Nobody else has sent anything: only the holder of the lock matters.
LEMMA ImageHolderStep ==
  ASSUME IInv, ImageInv, NEW p \in Clis, lock \in {p, NoCli}, NEW at, NEW j,
         ProcessOK(at, j, host'),
         pc' = [pc EXCEPT ![p] = at], job' = [job EXCEPT ![p] = j],
         \A n \in Nodes : HostOK(host'[n])
  PROVE  ImageInv'
<1>1. LockOK
  BY DEF IInv, FInv
<1>2. ASSUME NEW q \in Clis PROVE ProcessOK(pc'[q], job'[q], host')
  <2>1. CASE q = p
    BY <1>1, <2>1 DEF LockOK
  <2>2. CASE q # p
    <3>1. pc'[q] = pc[q] /\ job'[q] = job[q] /\ pc[q] \notin Locked
      BY <1>1, <2>2, NameAssumption DEF LockOK
    <3>2. ProcessOK(pc[q], job[q], host')
      BY <3>1, ProcessElsewhere DEF ImageInv
    <3>3. QED
      BY <3>1, <3>2
  <2>3. QED
    BY <2>1, <2>2
<1>3. QED
  BY <1>2 DEF ImageInv

\* The document is written: all of its images were sent.
LEMMA ImagePublishNode ==
  ASSUME IInv, ImageInv, NEW p \in Clis, NEW n \in Nodes, PublishNode(p, n)
  PROVE  ImageInv'
<1>1. PICK j : j = job[p]
  OBVIOUS
<1>2. PICK d : d = j.plan[n]
  OBVIOUS
<1>3. PICK g : g = SetOverride(host[n], d)
  OBVIOUS
<1>4. PICK k : k = [j EXCEPT !.todo = @ \ {n}]
  OBVIOUS
<1>5. /\ pc[p] = "publish" /\ n \in j.todo /\ Images(d) \subseteq Sent(p, n)
      /\ host' = [host EXCEPT ![n] = g] /\ job' = [job EXCEPT ![p] = k] /\ pc' = pc
  BY <1>1, <1>2, <1>3, <1>4 DEF PublishNode
<1>6. /\ LockOK /\ lock = p /\ HostOK(host[n]) /\ IsJob(j) /\ ProcessOK("publish", j, host)
      /\ DocsOK("publish", j, file, behind, host)
  <2>1. pc[p] \in Locked
    BY <1>5 DEF Locked
  <2>2. QED
    BY <1>1, <1>5, <2>1, DocHolder DEF ImageInv, ProcessOK, IInv, FInv, LockOK
<1>7. n \in DOMAIN j.plan /\ DOMAIN d.envs \subseteq Envs
  BY <1>2, <1>5, <1>6 DEF DocsOK, WrittenOK, ProcessOK, PlanOK, Locked
<1>8. SentOK(j, host)
  BY <1>6 DEF ProcessOK
<1>9. Images(d) \subseteq Commits
  BY <1>1, <1>5, <1>8 DEF Sent, SentOK
<1>10. /\ HostOK(g) /\ g.images = host[n].images
       /\ \A c \in Images(d) : Safe(host[n], c) => Safe(g, c)
  BY <1>3, <1>6, <1>7, <1>9, HostPublished
<1>11. /\ host'[n] = g /\ \A m \in Nodes : m # n => host'[m] = host[m]
       /\ \A m \in Nodes : HostOK(host'[m])
  BY <1>5, <1>10, OneHost
<1>12. IsJob(k) /\ k.plan = j.plan /\ k.sent = j.sent
  BY <1>4, <1>6 DEF IsJob
<1>13. SentOK(k, host')
  <2>1. ASSUME NEW t \in k.sent
        PROVE  /\ t[1] \in Nodes /\ t[2] \in Commits /\ t[2] \in Images(k.plan[t[1]])
               /\ t[3] => t[2] \in host'[t[1]].images /\ Safe(host'[t[1]], t[2])
    <3>1. /\ t[1] \in Nodes /\ t[2] \in Commits /\ t[2] \in Images(j.plan[t[1]])
          /\ t[3] => t[2] \in host[t[1]].images /\ Safe(host[t[1]], t[2])
      BY <1>8, <1>12 DEF SentOK
    <3>2. CASE t[1] = n
      BY <1>2, <1>10, <1>11, <1>12, <3>1, <3>2
    <3>3. CASE t[1] # n
      BY <1>11, <1>12, <3>1, <3>3
    <3>4. QED
      BY <3>2, <3>3
  <2>2. QED
    BY <2>1 DEF SentOK
<1>14. ProcessOK("publish", k, host')
  BY <1>6, <1>12, <1>13 DEF ProcessOK, Locked
<1>15. pc' = [pc EXCEPT ![p] = "publish"]
  BY <1>5, <1>6 DEF LockOK
<1>16. QED
  BY <1>5, <1>6, <1>11, <1>14, <1>15, ImageHolderStep

-----------------------------------------------------------------------------
(* The other steps of a command *)

\* With what it planned and sent.
LEMMA ImageGoes ==
  ASSUME IInv, ImageInv, NEW p \in Clis, pc[p] \in Locked, NEW to \in Locked,
         NEW k, IsJob(k), k.plan = job[p].plan, k.sent = job[p].sent,
         pc' = [pc EXCEPT ![p] = to], job' = [job EXCEPT ![p] = k], host' = host
  PROVE  ImageInv'
<1>1. ProcessOK(pc[p], job[p], host)
  BY DEF ImageInv
<1>2. ProcessOK(to, k, host)
  BY <1>1, ProcessSame
<1>3. QED
  BY <1>2, ImageMoves

LEMMA ImageStays ==
  ASSUME IInv, ImageInv, NEW p \in Clis, pc[p] \in Locked,
         NEW k, IsJob(k), k.plan = job[p].plan, k.sent = job[p].sent,
         pc' = pc, job' = [job EXCEPT ![p] = k], host' = host
  PROVE  ImageInv'
<1>1. pc' = [pc EXCEPT ![p] = pc[p]]
  BY DEF IInv, FInv, LockOK
<1>2. QED
  BY <1>1, ImageGoes

\* With nothing sent yet.
LEMMA ImagePlans ==
  ASSUME IInv, ImageInv, NEW p \in Clis, NEW to, to # "idle",
         NEW k, IsJob(k), k.sent = {}, PlanOK(k.plan),
         pc' = [pc EXCEPT ![p] = to], job' = [job EXCEPT ![p] = k], host' = host
  PROVE  ImageInv'
<1>1. ProcessOK(to, k, host)
  BY ProcessFresh
<1>2. QED
  BY <1>1, ImageMoves

LEMMA ImageHolds ==
  ASSUME IInv, ImageInv, NEW p \in Clis, NEW to, to # "idle",
         NEW k, IsJob(k), k.sent = {}, PlanOK(k.plan), Hold(p, to, k), host' = host
  PROVE  ImageInv'
BY ImagePlans DEF Hold, Go

LEMMA ImageEnds ==
  ASSUME IInv, ImageInv, NEW p \in Clis,
         \/ Crash(p) \/ PublishAborts(p) \/ ConfigWrite(p) \/ ServerNotReady(p)
         \/ NodeInstallFails(p) \/ PublishEnds(p) \/ NodeCreated(p) \/ DetachEnds(p)
         \/ WaitReadFails(p) \/ WaitTimeout(p) \/ WaitSettled(p) \/ StatusRecover(p)
         \/ NodeUndone(p) \/ NodeRemoved(p)
  PROVE  ImageInv'
<1>1. Return(p) /\ host' = host
  BY DEF Crash, PublishAborts, ConfigWrite, ServerNotReady, NodeInstallFails, PublishEnds,
         NodeCreated, DetachEnds, WaitReadFails, WaitTimeout, WaitSettled, Finish,
         StatusRecover, NodeUndone, NodeRemoved
<1>2. QED
  BY <1>1, ImageReturns

LEMMA HolderJob ==
  ASSUME IInv, NEW p \in Clis, pc[p] \in Locked
  PROVE  IsJob(job[p]) /\ LockOK
BY DocHolder

LEMMA ImagePublishFails ==
  ASSUME IInv, ImageInv, NEW p \in Clis, NEW n \in Nodes, PublishFails(p, n)
  PROVE  ImageInv'
<1>1. pc[p] \in Locked /\ pc' = pc /\ host' = host
  BY DEF PublishFails, Locked
<1>2. PICK j : j = job[p]
  OBVIOUS
<1>3. IsJob(j) /\ LockOK
  BY <1>1, <1>2, HolderJob
<1>4. PICK T : job' = [job EXCEPT ![p] = [j EXCEPT !.todo = @ \ {n}, !.bad = @ \cup {n}, !.gone = T]]
  <2>1. CASE host[n].agent
    <3>1. job' = [job EXCEPT ![p] = [j EXCEPT !.todo = @ \ {n}, !.bad = @ \cup {n}, !.gone = j.gone]]
      BY <1>2, <1>3, <2>1 DEF PublishFails, LockOK, IsJob
    <3>2. QED
      BY <3>1
  <2>2. CASE ~host[n].agent
    <3>1. job' = [job EXCEPT ![p] = [j EXCEPT !.todo = @ \ {n}, !.bad = @ \cup {n},
                                              !.gone = j.gone \cup {n}]]
      BY <1>2, <1>3, <2>2 DEF PublishFails, LockOK, IsJob
    <3>2. QED
      BY <3>1
  <2>3. QED
    BY <2>1, <2>2
<1>5. PICK k : k = [j EXCEPT !.todo = @ \ {n}, !.bad = @ \cup {n}, !.gone = T]
  OBVIOUS
<1>6. IsJob(k) /\ k.plan = j.plan /\ k.sent = j.sent
  BY <1>3, <1>5 DEF IsJob
<1>7. QED
  BY <1>1, <1>2, <1>4, <1>5, <1>6, ImageStays

LEMMA ImageReads ==
  ASSUME IInv, ImageInv, NEW p \in Clis, BaselineRead(p) \/ WaitRead(p) \/ WaitAgain(p)
  PROVE  ImageInv'
<1>1. pc[p] \in Locked /\ host' = host
  BY DEF BaselineRead, WaitRead, WaitAgain, Locked
<1>2. PICK j : j = job[p]
  OBVIOUS
<1>3. IsJob(j) /\ LockOK
  BY <1>1, <1>2, HolderJob
<1>4. CASE BaselineRead(p)
  <2>1. PICK T, U : job' = [job EXCEPT ![p].sweep = T, ![p].since = U]
    BY <1>4 DEF BaselineRead
  <2>2. PICK k : k = [j EXCEPT !.sweep = T, !.since = U]
    OBVIOUS
  <2>3. job' = [job EXCEPT ![p] = k] /\ pc' = pc
    BY <1>2, <1>3, <1>4, <2>1, <2>2 DEF LockOK, BaselineRead
  <2>4. IsJob(k) /\ k.plan = j.plan /\ k.sent = j.sent
    BY <1>3, <2>2 DEF IsJob
  <2>5. QED
    BY <1>1, <1>2, <2>3, <2>4, ImageStays
<1>5. CASE WaitRead(p) /\ Return(p)
  BY <1>1, <1>5, ImageReturns
<1>6. ASSUME NEW T, NEW U, job' = [job EXCEPT ![p].sweep = T, ![p].clean = U], pc' = pc
      PROVE  ImageInv'
  <2>1. PICK k : k = [j EXCEPT !.sweep = T, !.clean = U]
    OBVIOUS
  <2>2. job' = [job EXCEPT ![p] = k]
    BY <1>2, <1>3, <1>6, <2>1 DEF LockOK
  <2>3. IsJob(k) /\ k.plan = j.plan /\ k.sent = j.sent
    BY <1>3, <2>1 DEF IsJob
  <2>4. QED
    BY <1>1, <1>2, <1>6, <2>2, <2>3, ImageStays
<1>7. CASE WaitRead(p) /\ ~Return(p)
  <2>1. PICK T, U : job' = [job EXCEPT ![p].sweep = T, ![p].clean = U] /\ pc' = pc
    BY <1>7 DEF WaitRead, Finish
  <2>2. QED
    BY <1>6, <2>1
<1>8. CASE WaitAgain(p)
  BY <1>6, <1>8 DEF WaitAgain
<1>9. QED
  BY <1>4, <1>5, <1>7, <1>8

LEMMA ImageRecords ==
  ASSUME IInv, ImageInv, NEW p \in Clis, DeployPublish(p) \/ DeployRecord(p) \/ NodeSaved(p)
  PROVE  ImageInv'
<1>1. pc[p] \in Locked /\ host' = host
  BY DEF DeployPublish, DeployRecord, NodeSaved, Published, Locked
<1>2. PICK j : j = job[p]
  OBVIOUS
<1>3. IsJob(j)
  BY <1>1, <1>2, HolderJob
<1>4. CASE DeployPublish(p)
  BY <1>1, <1>2, <1>3, <1>4, ImageGoes DEF DeployPublish, Go, Locked
<1>5. CASE DeployRecord(p)
  <2>1. PICK st, S, i : Go(p, "wait", [j EXCEPT !.st = st, !.sweep = S, !.clean = TRUE, !.dep = i])
    BY <1>2, <1>5 DEF DeployRecord
  <2>2. PICK k : k = [j EXCEPT !.st = st, !.sweep = S, !.clean = TRUE, !.dep = i]
    OBVIOUS
  <2>3. IsJob(k) /\ k.plan = j.plan /\ k.sent = j.sent
    BY <1>3, <2>2 DEF IsJob
  <2>4. QED
    BY <1>1, <1>2, <2>1, <2>2, <2>3, ImageGoes DEF Go, Locked
<1>6. CASE NodeSaved(p)
  <2>1. PICK st, reg : Go(p, "install", [j EXCEPT !.st = st, !.next = reg])
    BY <1>2, <1>6 DEF NodeSaved
  <2>2. PICK k : k = [j EXCEPT !.st = st, !.next = reg]
    OBVIOUS
  <2>3. IsJob(k) /\ k.plan = j.plan /\ k.sent = j.sent
    BY <1>3, <2>2 DEF IsJob
  <2>4. QED
    BY <1>1, <1>2, <2>1, <2>2, <2>3, ImageGoes DEF Go, Locked
<1>7. QED
  BY <1>4, <1>5, <1>6

LEMMA ImageRollback ==
  ASSUME IInv, ImageInv, NEW p \in Clis, RollbackPublish(p) \/ RollbackPublished(p)
  PROVE  ImageInv'
<1>1. pc[p] \in Locked /\ host' = host
  BY DEF RollbackPublish, RollbackPublished, Published, Locked
<1>2. PICK j : j = job[p]
  OBVIOUS
<1>3. IsJob(j)
  BY <1>1, <1>2, HolderJob
<1>4. CASE Return(p)
  BY <1>1, <1>4, ImageReturns
<1>5. CASE RollbackPublish(p) /\ ~Return(p)
  <2>1. PICK st, S : Go(p, "publish", Planned(j, st, S))
    BY <1>2, <1>5 DEF RollbackPublish
  <2>2. PICK k : k = Planned(j, st, S)
    OBVIOUS
  <2>3. IsJob(k) /\ k.sent = {} /\ PlanOK(k.plan)
    BY <1>3, <2>2, PlannedIs
  <2>4. QED
    BY <1>1, <2>1, <2>2, <2>3, ImagePlans DEF Go
<1>6. CASE RollbackPublished(p) /\ ~Return(p)
  <2>1. PICK S : Go(p, "wait", [j EXCEPT !.sweep = S, !.clean = TRUE])
    BY <1>2, <1>6 DEF RollbackPublished
  <2>2. PICK k : k = [j EXCEPT !.sweep = S, !.clean = TRUE]
    OBVIOUS
  <2>3. IsJob(k) /\ k.plan = j.plan /\ k.sent = j.sent
    BY <1>3, <2>2 DEF IsJob
  <2>4. QED
    BY <1>1, <1>2, <2>1, <2>2, <2>3, ImageGoes DEF Go, Locked
<1>7. QED
  BY <1>4, <1>5, <1>6

LEMMA ImageDetachNode ==
  ASSUME IInv, ImageInv, NEW p \in Clis, DetachNode(p)
  PROVE  ImageInv'
<1>1. pc[p] \in Locked /\ host' = host
  BY DEF DetachNode, Published, Locked
<1>2. PICK j : j = job[p]
  OBVIOUS
<1>3. IsJob(j)
  BY <1>1, <1>2, HolderJob
<1>4. CASE Return(p)
  BY <1>1, <1>4, ImageReturns
<1>5. CASE ~Return(p)
  <2>1. PICK st, S : Go(p, "publish", [Planned(j, st, S) EXCEPT !.op = "clear"])
    BY <1>2, <1>5 DEF DetachNode
  <2>2. PICK q : q = Planned(j, st, S)
    OBVIOUS
  <2>3. IsJob(q) /\ q.sent = {} /\ PlanOK(q.plan)
    BY <1>3, <2>2, PlannedIs
  <2>4. PICK k : k = [q EXCEPT !.op = "clear"]
    OBVIOUS
  <2>5. IsJob(k) /\ k.sent = {} /\ PlanOK(k.plan)
    BY <2>3, <2>4 DEF IsJob
  <2>6. QED
    BY <1>1, <2>1, <2>2, <2>4, <2>5, ImagePlans DEF Go
<1>6. QED
  BY <1>4, <1>5

LEMMA ImageNodeUndo ==
  ASSUME IInv, ImageInv, NEW p \in Clis, NodeUndo(p)
  PROVE  ImageInv'
<1>1. pc[p] \in Locked /\ pc[p] = "publish" /\ pc' = pc /\ host' = host
  BY DEF NodeUndo, Published, Locked
<1>2. PICK j : j = job[p]
  OBVIOUS
<1>3. IsJob(j) /\ LockOK
  BY <1>1, <1>2, HolderJob
<1>4. ASSUME NEW st, NEW S, job' = [job EXCEPT ![p] = [Planned(j, st, S) EXCEPT !.op = "undo"]]
      PROVE  ImageInv'
  <2>1. PICK q : q = Planned(j, st, S)
    OBVIOUS
  <2>2. IsJob(q) /\ q.sent = {} /\ PlanOK(q.plan)
    BY <1>3, <2>1, PlannedIs
  <2>3. PICK k : k = [q EXCEPT !.op = "undo"]
    OBVIOUS
  <2>4. IsJob(k) /\ k.sent = {} /\ PlanOK(k.plan)
    BY <2>2, <2>3 DEF IsJob
  <2>5. pc' = [pc EXCEPT ![p] = "publish"]
    BY <1>1, <1>3 DEF LockOK
  <2>6. QED
    BY <1>1, <1>4, <2>1, <2>3, <2>4, <2>5, ImagePlans
<1>5. ASSUME job' = [job EXCEPT ![p] = [j EXCEPT !.op = "undo"]] PROVE ImageInv'
  <2>1. PICK k : k = [j EXCEPT !.op = "undo"]
    OBVIOUS
  <2>2. IsJob(k) /\ k.plan = j.plan /\ k.sent = j.sent
    BY <1>3, <2>1 DEF IsJob
  <2>3. QED
    BY <1>1, <1>2, <1>5, <2>1, <2>2, ImageStays
<1>6. QED
  BY <1>2, <1>4, <1>5 DEF NodeUndo

\* The agent is installed, and the command goes on or ends.
LEMMA ImageNodeInstall ==
  ASSUME IInv, ImageInv, NEW p \in Clis, NodeInstall(p)
  PROVE  ImageInv'
<1>1. pc[p] \in Locked /\ pc[p] = "install"
  BY DEF NodeInstall, Locked
<1>2. PICK j : j = job[p]
  OBVIOUS
<1>3. /\ IsJob(j) /\ LockOK /\ HostsOK /\ ProcessOK("install", j, host)
      /\ j.node \in Nodes
  <2>1. HolderOK("install", j, file) /\ FileOK(file)
    BY <1>1, <1>2, DocHolder
  <2>2. j.node \in Nodes
    BY <2>1 DEF HolderOK, CreateOK, FileOK, NodesOK
  <2>3. QED
    BY <1>1, <1>2, <2>2, DocHolder DEF ImageInv
<1>4. \A n \in Nodes : HostOK(host'[n]) /\ Gentle(host[n], host'[n])
  <2>1. CASE j.install
    <3>1. host' = [host EXCEPT ![j.node] = Installed(host[j.node])]
      BY <1>2, <2>1 DEF NodeInstall
    <3>2. HostOK(Installed(host[j.node])) /\ Gentle(host[j.node], Installed(host[j.node]))
      BY <1>3, InstalledIs DEF ImageInv
    <3>3. QED
      BY <1>3, <3>1, <3>2, OneHost
  <2>2. CASE ~j.install
    BY <1>2, <2>2 DEF NodeInstall, ImageInv, Gentle
  <2>3. QED
    BY <2>1, <2>2
<1>5. ASSUME NEW at, NEW k, ProcessOK(at, k, host),
             pc' = [pc EXCEPT ![p] = at], job' = [job EXCEPT ![p] = k]
      PROVE  ImageInv'
  <2>1. ProcessOK(at, k, host')
    BY <1>4, <1>5, ProcessGentle
  <2>2. QED
    BY <1>4, <1>5, <2>1, ImageStep
<1>6. CASE Return(p)
  <2>1. ProcessOK("idle", NoJob, host)
    BY DEF ProcessOK, Locked
  <2>2. QED
    BY <1>5, <1>6, <2>1 DEF Return
<1>7. ASSUME NEW st, NEW S, Go(p, "publish", Planned(j, st, S)) PROVE ImageInv'
  <2>1. PICK k : k = Planned(j, st, S)
    OBVIOUS
  <2>2. IsJob(k) /\ k.sent = {} /\ PlanOK(k.plan)
    BY <1>3, <2>1, PlannedIs
  <2>3. ProcessOK("publish", k, host)
    BY <2>2, ProcessFresh
  <2>4. QED
    BY <1>5, <1>7, <2>1, <2>3 DEF Go
<1>8. ASSUME NEW T, Go(p, "publish", [j EXCEPT !.bad = T]) PROVE ImageInv'
  <2>1. PICK k : k = [j EXCEPT !.bad = T]
    OBVIOUS
  <2>2. IsJob(k) /\ k.plan = j.plan /\ k.sent = j.sent
    BY <1>3, <2>1 DEF IsJob
  <2>3. ProcessOK("publish", k, host)
    BY <1>3, <2>2, ProcessSame DEF Locked
  <2>4. QED
    BY <1>5, <1>8, <2>1, <2>3 DEF Go
<1>9. QED
  BY <1>2, <1>6, <1>7, <1>8 DEF NodeInstall

LEMMA ImageStatus ==
  ASSUME IInv, ImageInv, NEW p \in Clis, StatusRead(p) \/ \E e \in Envs : StatusBegin(p, e)
  PROVE  ImageInv'
<1>1. host' = host
  BY DEF StatusRead, StatusBegin
<1>2. CASE Return(p)
  BY <1>1, <1>2, ImageReturns
<1>3. CASE StatusRead(p) /\ ~Return(p)
  <2>1. PICK j : j = job[p]
    OBVIOUS
  <2>2. LockOK /\ pc[p] = "status" /\ pc' = pc /\ ProcessOK("status", j, host)
    BY <1>3, <2>1 DEF StatusRead, IInv, FInv, ImageInv
  <2>3. IsJob(j) /\ j.sent = {}
    BY <2>2 DEF ProcessOK, Locked
  <2>4. PICK n \in job[p].sweep :
          LET k    == job[p]
              s    == host[n].status
              exp  == ExpectedRevision(k.st, k.env, k.rel, n)
              good == s # None /\ s.phase = "settled" /\ (Matches(k, n, s) \/ exp = None)
              chk  == n \in k.st.deployments[k.dep].targets /\ Matches(k, n, s)
          IN IF ~good THEN Return(p)
             ELSE /\ job' = [job EXCEPT ![p].sweep = @ \ {n},
                      ![p].checked = IF chk THEN @ \cup {n} ELSE @,
                      ![p].plan = IF chk /\ CohostedRevisions(k.st, k.env, n) = {}
                                  THEN [m \in DOMAIN @ \cup {n} |->
                                          IF m = n THEN s.rev ELSE @[m]] ELSE @]
                  /\ UNCHANGED <<pc, lock>>
    BY <1>3, Zenon DEF StatusRead
  <2>5. PICK k : k = job'[p]
    OBVIOUS
  <2>6. /\ job' = [job EXCEPT ![p] = k] /\ DOMAIN k = DOMAIN j /\ k.sent = j.sent
    BY <1>3, <2>1, <2>2, <2>3, <2>4, <2>5 DEF LockOK, IsJob
  <2>7. IsJob(k) /\ k.sent = {}
    BY <2>3, <2>6 DEF IsJob
  <2>8. ProcessOK(pc[p], k, host)
    BY <2>2, <2>7 DEF ProcessOK, SentOK, Locked
  <2>9. QED
    BY <1>1, <2>2, <2>6, <2>8, ImageWorks
<1>4. ASSUME NEW e \in Envs, StatusBegin(p, e) PROVE ImageInv'
  <2>1. PICK i, r, S : Go(p, "status", [Job("status", e, 0) EXCEPT !.dep = i, !.rel = r, !.sweep = S])
    BY <1>4 DEF StatusBegin
  <2>2. PICK j : j = Job("status", e, 0)
    OBVIOUS
  <2>3. IsJob(j) /\ j.sent = {} /\ PlanOK(j.plan)
    BY <2>2, JobIs
  <2>4. PICK k : k = [j EXCEPT !.dep = i, !.rel = r, !.sweep = S]
    OBVIOUS
  <2>5. IsJob(k) /\ k.sent = {} /\ PlanOK(k.plan)
    BY <2>3, <2>4 DEF IsJob
  <2>6. QED
    BY <1>1, <2>1, <2>2, <2>4, <2>5, ImagePlans DEF Go
<1>5. QED
  BY <1>2, <1>3, <1>4

-----------------------------------------------------------------------------
(* How commands begin *)

LEMMA ImageDeployBegin ==
  ASSUME IInv, ImageInv, NEW p \in Clis, NEW e, NEW c, DeployBegin(p, e, c)
  PROVE  ImageInv'
<1>1. PICK S : S = file.attached[e]
  OBVIOUS
<1>2. PICK new : new = SaveRelease(file, NewRelease(Snapshot(e, c), S))
  OBVIOUS
<1>3. PICK i : i = Planned(Job("deploy", e, 0), new, S)
  OBVIOUS
<1>4. PICK k : k = [i EXCEPT !.next = new, !.sweep = S, !.rel = new.current[e]]
  OBVIOUS
<1>5. Hold(p, "baseline", k) /\ host' = host
  BY <1>1, <1>2, <1>3, <1>4 DEF DeployBegin
<1>6. IsJob(i) /\ i.sent = {} /\ PlanOK(i.plan)
  BY <1>3, JobIs, PlannedIs
<1>7. IsJob(k) /\ k.sent = {} /\ PlanOK(k.plan)
  BY <1>4, <1>6 DEF IsJob
<1>8. QED
  BY <1>5, <1>7, ImageHolds

LEMMA ImageRollbackBegin ==
  ASSUME IInv, ImageInv, NEW p \in Clis, NEW e, NEW r, RollbackBegin(p, e, r)
  PROVE  ImageInv'
<1>1. PICK i : i = Job("rollback", e, 0)
  OBVIOUS
<1>2. PICK S : S = RollbackTargets(file, e, r)
  OBVIOUS
<1>3. PICK st : st = StartDeployment(file, e, r, "rollback", S)
  OBVIOUS
<1>4. PICK next : next = ScopedToTargets([st EXCEPT !.current[e] = r], e, S)
  OBVIOUS
<1>5. PICK k : k = [i EXCEPT !.st = st, !.sweep = S, !.rel = r, !.dep = Len(st.deployments),
                             !.next = next]
  OBVIOUS
<1>6. Hold(p, "baseline", k) /\ host' = host
  BY <1>1, <1>2, <1>3, <1>4, <1>5 DEF RollbackBegin
<1>7. IsJob(i) /\ i.sent = {} /\ PlanOK(i.plan)
  BY <1>1, JobIs
<1>8. IsJob(k) /\ k.sent = {} /\ PlanOK(k.plan)
  BY <1>5, <1>7 DEF IsJob
<1>9. QED
  BY <1>6, <1>8, ImageHolds

LEMMA ImageWriteThenPublish ==
  ASSUME IInv, ImageInv, NEW p \in Clis, NEW op, NEW st, NEW S, WriteThenPublish(p, op, st, S)
  PROVE  ImageInv'
<1>1. PICK i : i = Planned(Job(op, NoEnv, 0), st, S)
  OBVIOUS
<1>2. PICK k : k = [i EXCEPT !.st = st]
  OBVIOUS
<1>3. host' = host /\ (Hold(p, "publish", k) \/ AtOnce)
  BY <1>1, <1>2 DEF WriteThenPublish
<1>4. IsJob(i) /\ i.sent = {} /\ PlanOK(i.plan)
  BY <1>1, JobIs, PlannedIs
<1>5. IsJob(k) /\ k.sent = {} /\ PlanOK(k.plan)
  BY <1>2, <1>4 DEF IsJob
<1>6. CASE Hold(p, "publish", k)
  BY <1>3, <1>5, <1>6, ImageHolds
<1>7. CASE AtOnce
  BY <1>3, <1>7, ImageSame DEF AtOnce, cliVars
<1>8. QED
  BY <1>3, <1>6, <1>7

LEMMA ImageAttachments ==
  ASSUME IInv, ImageInv, NEW p \in Clis, NEW n,
         \/ \E e \in Envs : Attach(p, e, n)
         \/ \E labels \in (SUBSET Kinds) \ {{}} : LabelSet(p, n, labels) \/ LabelRemove(p, n, labels)
  PROVE  ImageInv'
<1>1. PICK op, st, S : WriteThenPublish(p, op, st, S)
  BY DEF Attach, LabelSet, LabelRemove, Label
<1>2. QED
  BY <1>1, ImageWriteThenPublish

LEMMA ImageDetachBegin ==
  ASSUME IInv, ImageInv, NEW p \in Clis, NEW e, NEW n, DetachBegin(p, e, n)
  PROVE  ImageInv'
<1>1. PICK next : next = WithoutNode(file, e, n)
  OBVIOUS
<1>2. PICK i : i = Planned(Job("detach", e, n), next, next.attached[e])
  OBVIOUS
<1>3. PICK k : k = [i EXCEPT !.next = next]
  OBVIOUS
<1>4. Hold(p, "publish", k) /\ host' = host
  BY <1>1, <1>2, <1>3 DEF DetachBegin
<1>5. IsJob(i) /\ i.sent = {} /\ PlanOK(i.plan)
  BY <1>2, JobIs, PlannedIs
<1>6. IsJob(k) /\ k.sent = {} /\ PlanOK(k.plan)
  BY <1>3, <1>5 DEF IsJob
<1>7. QED
  BY <1>4, <1>6, ImageHolds

LEMMA ImageSecrets ==
  ASSUME IInv, ImageInv, NEW p \in Clis, NEW e, SecretSet(p, e) \/ SecretDelete(p, e)
  PROVE  ImageInv'
<1>1. PICK op, v : Secret(p, op, e, v)
  BY DEF SecretSet, SecretDelete
<1>2. PICK i : i = Job(op, e, 0)
  OBVIOUS
<1>3. PICK k : k = [i EXCEPT !.st = file', !.cfg = cfg[e]]
  OBVIOUS
<1>4. Hold(p, "config", k) /\ host' = host
  BY <1>1, <1>2, <1>3 DEF Secret
<1>5. IsJob(i) /\ i.sent = {} /\ PlanOK(i.plan)
  BY <1>2, JobIs
<1>6. IsJob(k) /\ k.sent = {} /\ PlanOK(k.plan)
  BY <1>3, <1>5 DEF IsJob
<1>7. QED
  BY <1>4, <1>6, ImageHolds

LEMMA ImageNodeCreate ==
  ASSUME IInv, ImageInv, NEW p \in Clis, NEW n, NEW h, NEW e, NEW install,
         NodeCreate(p, n, h, e, install)
  PROVE  ImageInv'
<1>1. PICK i : i = Job("create", e, n)
  OBVIOUS
<1>2. PICK k : k = [i EXCEPT !.hosted = h, !.install = install]
  OBVIOUS
<1>3. Hold(p, "server", k) /\ host' = host
  BY <1>1, <1>2 DEF NodeCreate
<1>4. IsJob(i) /\ i.sent = {} /\ PlanOK(i.plan)
  BY <1>1, JobIs
<1>5. IsJob(k) /\ k.sent = {} /\ PlanOK(k.plan)
  BY <1>2, <1>4 DEF IsJob
<1>6. QED
  BY <1>3, <1>5, ImageHolds

\* A machine without an agent.
LEMMA BareIs == HostOK(Bare) /\ HostOK([Bare EXCEPT !.agent = TRUE])
<1>1. Images(None) = {}
  BY DEF Images, ReleasesOf, Range
<1>2. [e \in Envs |-> << >>] \in [Envs -> Seq(Commits)]
  OBVIOUS
<1>3. HostOK(Bare)
  BY <1>1, <1>2 DEF HostOK, Bare
<1>4. PICK g : g = [Bare EXCEPT !.agent = TRUE]
  OBVIOUS
<1>5. /\ DOMAIN g = DOMAIN Bare /\ g.images = Bare.images /\ g.store = Bare.store
      /\ g.override = Bare.override /\ g.loaded = Bare.loaded
  BY <1>4 DEF Bare
<1>6. HostOK(g)
  BY <1>3, <1>5 DEF HostOK
<1>7. QED
  BY <1>3, <1>4, <1>6

\* The images go with the server; nobody is publishing to it, for that needs the
\* lock.
LEMMA ImageNodeRemove ==
  ASSUME IInv, ImageInv, NEW p \in Clis, NEW n \in Nodes, NodeRemove(p, n)
  PROVE  ImageInv'
<1>1. CASE n \in file.hosted
  <2>1. PICK k : k = Job("remove", NoEnv, n)
    OBVIOUS
  <2>2. Hold(p, "remove", k) /\ host' = [host EXCEPT ![n] = Bare]
    BY <1>1, <2>1 DEF NodeRemove
  <2>3. ProcessOK("remove", k, host')
    BY <2>1, JobIs, ProcessFresh
  <2>4. \A m \in Nodes : HostOK(host'[m])
    BY <2>2, BareIs, OneHost
  <2>5. QED
    BY <2>2, <2>3, <2>4, ImageHolderStep DEF Hold, Go
<1>2. CASE n \notin file.hosted
  BY <1>2, ImageSame DEF NodeRemove, AtOnce, cliVars
<1>3. QED
  BY <1>1, <1>2

-----------------------------------------------------------------------------
(* Every step *)

LEMMA ImageCommand ==
  ASSUME IInv, ImageInv, NEW p \in Clis, Command(p)
  PROVE  ImageInv'
<1>1. ASSUME NEW e \in Envs, NEW c \in Commits, DeployBegin(p, e, c) PROVE ImageInv'
  BY <1>1, ImageDeployBegin
<1>2. ASSUME NEW e \in Envs, NEW r \in Selectable(file, e), RollbackBegin(p, e, r)
      PROVE  ImageInv'
  BY <1>2, ImageRollbackBegin
<1>3. ASSUME NEW e \in Envs, StatusBegin(p, e) PROVE ImageInv'
  BY <1>3, ImageStatus
<1>4. ASSUME NEW e \in Envs, SecretSet(p, e) \/ SecretDelete(p, e) PROVE ImageInv'
  BY <1>4, ImageSecrets
<1>5. ASSUME NEW e \in Envs, IngressSet(p, e) PROVE ImageInv'
  BY <1>5, ImageSame DEF IngressSet, cliVars
<1>6. ASSUME NEW e \in Envs, NEW n \in Nodes, Attach(p, e, n) PROVE ImageInv'
  BY <1>6, ImageAttachments
<1>7. ASSUME NEW e \in Envs, NEW n \in Nodes, DetachBegin(p, e, n) PROVE ImageInv'
  BY <1>7, ImageDetachBegin
<1>8. ASSUME NEW n \in Nodes, NEW labels \in (SUBSET Kinds) \ {{}},
             LabelSet(p, n, labels) \/ LabelRemove(p, n, labels)
      PROVE  ImageInv'
  BY <1>8, ImageAttachments
<1>9. ASSUME NEW n \in Nodes, NEW e \in Envs \cup {NoEnv}, NEW h \in BOOLEAN, NEW i \in BOOLEAN,
             NodeCreate(p, n, h, e, i)
      PROVE  ImageInv'
  BY <1>9, ImageNodeCreate
<1>10. ASSUME NEW n \in Nodes, NodeRemove(p, n) PROVE ImageInv'
  BY <1>10, ImageNodeRemove
<1>11. ASSUME NEW n \in Nodes, AgentInstall(p, n) PROVE ImageInv'
  BY <1>11, ImageAgentCommands
<1>12. ASSUME NEW n \in Nodes, NEW keep \in BOOLEAN, AgentUninstall(p, n, keep) PROVE ImageInv'
  BY <1>12, ImageAgentCommands
<1>13. QED
  BY <1>1, <1>2, <1>3, <1>4, <1>5, <1>6, <1>7, <1>8, <1>9, <1>10, <1>11, <1>12 DEF Command

LEMMA ImageProceed ==
  ASSUME IInv, ImageInv, NEW p \in Clis, Proceed(p)
  PROVE  ImageInv'
<1>1. ASSUME NEW n \in Nodes, PublishNode(p, n) \/ PublishFails(p, n) PROVE ImageInv'
  BY <1>1, ImagePublishNode, ImagePublishFails
<1>2. ASSUME NEW n \in Nodes, NEW c \in Commits, SendImage(p, n, c) PROVE ImageInv'
  BY <1>2, ImageSendImage
<1>3. CASE BaselineRead(p) \/ WaitRead(p)
  BY <1>3, ImageReads
<1>4. CASE DeployPublish(p) \/ DeployRecord(p) \/ NodeSaved(p)
  BY <1>4, ImageRecords
<1>5. CASE RollbackPublish(p) \/ RollbackPublished(p)
  BY <1>5, ImageRollback
<1>6. CASE StatusRead(p)
  BY <1>6, ImageStatus
<1>7. CASE \/ PublishAborts(p) \/ WaitReadFails(p) \/ WaitSettled(p) \/ StatusRecover(p)
           \/ PublishEnds(p) \/ DetachEnds(p) \/ ConfigWrite(p) \/ ServerNotReady(p)
           \/ NodeInstallFails(p) \/ NodeCreated(p) \/ NodeUndone(p) \/ NodeRemoved(p)
  BY <1>7, ImageEnds
<1>8. CASE DetachNode(p) \/ NodeInstall(p) \/ NodeUndo(p)
  BY <1>8, ImageDetachNode, ImageNodeInstall, ImageNodeUndo
<1>9. QED
  BY <1>1, <1>2, <1>3, <1>4, <1>5, <1>6, <1>7, <1>8 DEF Proceed

LEMMA ImageNext ==
  ASSUME IInv, ImageInv, [Next]_vars
  PROVE  ImageInv'
<1>1. ASSUME NEW p \in Clis, Command(p) PROVE ImageInv'
  BY <1>1, ImageCommand
<1>2. ASSUME NEW p \in Clis, Proceed(p) PROVE ImageInv'
  BY <1>2, ImageProceed
<1>3. ASSUME NEW p \in Clis, WaitAgain(p) PROVE ImageInv'
  BY <1>3, ImageReads
<1>4. ASSUME NEW p \in Clis, WaitTimeout(p) \/ Crash(p) PROVE ImageInv'
  BY <1>4, ImageEnds
<1>5. ASSUME NEW n \in Nodes,
             \/ AgentPass(n) \/ AgentTaskRuns(n) \/ AgentTaskFails(n) \/ AgentSick(n)
             \/ AgentFails(n) \/ AgentLacksImage(n) \/ AgentCareFails(n) \/ AgentCaresAgain(n)
      PROVE  ImageInv'
  BY <1>5, ImageAgent DEF AgentPass
<1>6. CASE UNCHANGED vars
  BY <1>6, ImageSame DEF vars, cliVars
<1>7. QED
  BY <1>1, <1>2, <1>3, <1>4, <1>5, <1>6 DEF Next

LEMMA ImageInit ==
  ASSUME Init
  PROVE  ImageInv
<1>1. host = [n \in Nodes |-> IF n \in InitialNodes THEN [Bare EXCEPT !.agent = TRUE] ELSE Bare]
  BY DEF Init
<1>2. \A n \in Nodes : HostOK(host[n])
  BY <1>1, BareIs
<1>3. \A p \in Clis : pc[p] = "idle" /\ job[p] = NoJob
  BY DEF Init
<1>4. \A p \in Clis : ProcessOK(pc[p], job[p], host)
  BY <1>3 DEF ProcessOK, Locked
<1>5. QED
  BY <1>2, <1>4 DEF ImageInv

-----------------------------------------------------------------------------
(* Servers and bounds *)

\* A node is named by the command, and each count has a guard.
Counted == /\ servers' = servers \/ \E n \in Nodes : servers' \in {servers \cup {n}, servers \ {n}}
           /\ faults' = faults \/ Fault
           /\ commands' = commands \/ \E p, op : Begin(p, op)

LEMMA CountedCommand ==
  ASSUME NEW p \in Clis, Command(p)
  PROVE  Counted
<1>1. ASSUME NEW e \in Envs, NEW c \in Commits, DeployBegin(p, e, c) PROVE Counted
  BY <1>1 DEF DeployBegin, Counted
<1>2. ASSUME NEW e \in Envs, NEW r, RollbackBegin(p, e, r) PROVE Counted
  BY <1>2 DEF RollbackBegin, Counted
<1>3. ASSUME NEW e \in Envs, StatusBegin(p, e) PROVE Counted
  BY <1>3 DEF StatusBegin, Counted
<1>4. ASSUME NEW e \in Envs, SecretSet(p, e) \/ SecretDelete(p, e) PROVE Counted
  BY <1>4 DEF SecretSet, SecretDelete, Secret, Counted
<1>5. ASSUME NEW e \in Envs, IngressSet(p, e) PROVE Counted
  BY <1>5 DEF IngressSet, Counted
<1>6. ASSUME NEW e \in Envs, NEW n \in Nodes, Attach(p, e, n) \/ DetachBegin(p, e, n)
      PROVE  Counted
  BY <1>6 DEF Attach, WriteThenPublish, DetachBegin, Counted
<1>7. ASSUME NEW n \in Nodes, NEW labels, LabelSet(p, n, labels) \/ LabelRemove(p, n, labels)
      PROVE  Counted
  BY <1>7 DEF LabelSet, LabelRemove, Label, WriteThenPublish, Counted
<1>8. ASSUME NEW n \in Nodes, NEW h, NEW e, NEW i, NodeCreate(p, n, h, e, i) PROVE Counted
  BY <1>8 DEF NodeCreate, CreateServer, Counted
<1>9. ASSUME NEW n \in Nodes, NodeRemove(p, n) PROVE Counted
  BY <1>9 DEF NodeRemove, Counted
<1>10. ASSUME NEW n \in Nodes, AgentInstall(p, n) \/ \E keep \in BOOLEAN : AgentUninstall(p, n, keep)
       PROVE  Counted
  BY <1>10 DEF AgentInstall, AgentUninstall, Counted
<1>11. QED
  BY <1>1, <1>2, <1>3, <1>4, <1>5, <1>6, <1>7, <1>8, <1>9, <1>10 DEF Command

LEMMA CountedProceed ==
  ASSUME NEW p \in Clis, Proceed(p) \/ WaitAgain(p) \/ WaitTimeout(p) \/ Crash(p)
  PROVE  Counted
<1>1. ASSUME NEW n \in Nodes, PublishNode(p, n) \/ PublishFails(p, n) PROVE Counted
  BY <1>1 DEF PublishNode, PublishFails, Counted
<1>2. ASSUME NEW n \in Nodes, NEW c \in Commits, SendImage(p, n, c) PROVE Counted
  BY <1>2 DEF SendImage, Counted
<1>3. CASE BaselineRead(p)
  BY <1>3 DEF BaselineRead, Counted
<1>4. CASE DeployPublish(p) \/ DeployRecord(p) \/ NodeSaved(p) \/ PublishAborts(p)
  BY <1>4 DEF DeployPublish, DeployRecord, NodeSaved, PublishAborts, Counted
<1>5. CASE WaitRead(p) \/ WaitReadFails(p) \/ WaitSettled(p) \/ WaitAgain(p) \/ WaitTimeout(p)
  BY <1>5 DEF WaitRead, WaitReadFails, WaitSettled, WaitAgain, WaitTimeout, Counted
<1>6. CASE RollbackPublish(p) \/ RollbackPublished(p) \/ StatusRead(p) \/ StatusRecover(p)
  BY <1>6 DEF RollbackPublish, RollbackPublished, StatusRead, StatusRecover, Counted
<1>7. CASE PublishEnds(p) \/ DetachNode(p) \/ DetachEnds(p) \/ ConfigWrite(p)
  BY <1>7 DEF PublishEnds, DetachNode, DetachEnds, ConfigWrite, Counted
<1>8. CASE ServerNotReady(p) \/ NodeInstall(p) \/ NodeInstallFails(p) \/ NodeCreated(p)
  BY <1>8 DEF ServerNotReady, NodeInstall, NodeInstallFails, NodeCreated, Counted
<1>9. CASE NodeUndo(p) \/ NodeUndone(p) \/ NodeRemoved(p) \/ Crash(p)
  BY <1>9 DEF NodeUndo, NodeUndone, NodeRemoved, Crash, Counted
<1>10. QED
  BY <1>1, <1>2, <1>3, <1>4, <1>5, <1>6, <1>7, <1>8, <1>9 DEF Proceed

LEMMA CountedAgent ==
  ASSUME NEW n \in Nodes,
         \/ AgentPass(n) \/ AgentTaskRuns(n) \/ AgentTaskFails(n) \/ AgentSick(n)
         \/ AgentFails(n) \/ AgentLacksImage(n) \/ AgentCareFails(n) \/ AgentCaresAgain(n)
  PROVE  Counted
<1>1. ASSUME NEW s, NEW h, Reported(n, s, h) PROVE servers' = servers /\ commands' = commands
  BY <1>1 DEF Reported
<1>2. CASE AgentLoads(n) \/ AgentTaskEnds(n) \/ AgentCaresAgain(n)
  BY <1>2 DEF AgentLoads, AgentTaskEnds, AgentCaresAgain, Counted
<1>3. CASE AgentSettles(n) \/ AgentTaskRuns(n) \/ AgentLacksImage(n)
  BY <1>1, <1>3 DEF AgentSettles, AgentTaskRuns, AgentLacksImage, Report, Counted
<1>4. CASE AgentTaskFails(n) \/ AgentSick(n)
  BY <1>1, <1>4 DEF AgentTaskFails, AgentSick, Report, Counted
<1>5. CASE AgentFails(n) \/ AgentCareFails(n)
  BY <1>1, <1>5 DEF AgentFails, AgentCareFails, Report, Counted
<1>6. QED
  BY <1>2, <1>3, <1>4, <1>5 DEF AgentPass

LEMMA CountsNext ==
  ASSUME CountsOK, [Next]_vars
  PROVE  CountsOK'
<1>1. CASE Counted
  <2>1. servers' \subseteq Nodes
    BY <1>1 DEF Counted, CountsOK
  <2>2. faults' \in 0..MaxFaults
    BY <1>1, SoloBoundAssumption DEF Counted, CountsOK, Fault
  <2>3. commands' \in 0..MaxCommands
    BY <1>1, SoloBoundAssumption DEF Counted, CountsOK, Begin
  <2>4. QED
    BY <2>1, <2>2, <2>3 DEF CountsOK
<1>2. CASE UNCHANGED vars
  BY <1>2 DEF CountsOK, vars
<1>3. QED
  BY <1>1, <1>2, CountedCommand, CountedProceed, CountedAgent DEF Next

-----------------------------------------------------------------------------
(* The theorems *)

\* What a command has sent is planned for its node, and an image that was safe
\* when it was found or sent is on the node and safe still, whatever the agents
\* clean up and the other commands do; every host has the parts of one.
THEOREM ImageInvariance == Spec => [](IInv /\ ImageInv /\ CountsOK)
<1>1. Init => IInv
  BY FileInit, DocInit DEF IInv
<1>2. IInv /\ [Next]_vars => IInv'
  BY FileStep, DocStep DEF IInv
<1>3. Init => ImageInv
  BY ImageInit
<1>4. IInv /\ ImageInv /\ [Next]_vars => ImageInv'
  BY ImageNext
<1>5. Init => CountsOK
  BY SoloBoundAssumption DEF Init, CountsOK
<1>6. CountsOK /\ [Next]_vars => CountsOK'
  BY CountsNext
<1>7. QED
  BY <1>1, <1>2, <1>3, <1>4, <1>5, <1>6, PTL DEF Spec

\* SafeImagesStay: an image that a command found on a node (or sent there)
\* before it wrote the document is not removed by disk care until the command
\* has ended, however many cleanups, failed ones included, documents, restarts
\* and uninstallations come between.
THEOREM ImagesStay == Spec => []SafeImagesStay
<1>1. ImageInv => SafeImagesStay
  BY DEF ImageInv, ProcessOK, SentOK, SafeImagesStay
<1>2. QED
  BY <1>1, ImageInvariance, PTL

\* TypeOK: the state file that every command reads as a whole is one, the idle
\* processes and no others are without a job, and the nodes hold images and
\* records of commits that were deployed.
THEOREM SoloTypes == Spec => []TypeOK
<1>1. ASSUME IInv, ImageInv, CountsOK PROVE TypeOK
  <2>1. FileOK(file) /\ LockOK /\ behind \subseteq Nodes
    BY <1>1 DEF IInv, FInv, DInv
  <2>2. /\ file.nodes \subseteq Nodes /\ file.hosted \subseteq file.nodes
        /\ file.labels \in [Nodes -> (SUBSET Kinds) \ {{}}]
        /\ file.attached \in [Envs -> SUBSET file.nodes]
    BY <2>1 DEF FileOK, NodesOK
  <2>3. file.current \in [Envs -> 0..Len(file.releases)]
    <3>1. /\ file.current \in [Envs -> Nat] /\ Len(file.releases) \in Nat
          /\ \A e \in Envs : file.current[e] # 0 => file.current[e] \in 1..Len(file.releases)
      BY <2>1, LenProperties DEF FileOK, ReleasesOK, CurrentReadable, HasRelease, Releases
    <3>2. \A e \in Envs : file.current[e] \in 0..Len(file.releases)
      BY <3>1
    <3>3. QED
      BY <3>1, <3>2
  <2>4. ASSUME NEW p \in Clis
        PROVE  IF pc[p] = "idle" THEN job[p] = NoJob
               ELSE DOMAIN job[p] = DOMAIN Job("", NoEnv, 0)
    <3>1. ProcessOK(pc[p], job[p], host)
      BY <1>1 DEF ImageInv
    <3>2. IsJob(Job("", NoEnv, 0))
      BY JobIs
    <3>3. QED
      BY <3>1, <3>2 DEF ProcessOK, IsJob
  <2>5. ASSUME NEW n \in Nodes
        PROVE  /\ host[n].images \subseteq Commits
               /\ \A e \in Envs : Range(host[n].store[e]) \subseteq Commits
    <3>1. host[n].images \subseteq Commits /\ host[n].store \in [Envs -> Seq(Commits)]
      BY <1>1 DEF ImageInv, HostOK
    <3>2. ASSUME NEW s \in Seq(Commits) PROVE Range(s) \subseteq Commits
      BY DEF Range
    <3>3. QED
      BY <3>1, <3>2
  <2>6. lock \in Clis \cup {NoCli}
    BY <2>1 DEF LockOK
  <2>7. servers \subseteq Nodes /\ faults \in 0..MaxFaults /\ commands \in 0..MaxCommands
    BY <1>1 DEF CountsOK
  <2>8. QED
    BY <2>1, <2>2, <2>3, <2>4, <2>5, <2>6, <2>7 DEF TypeOK
<1>2. QED
  BY <1>1, ImageInvariance, PTL
=============================================================================
