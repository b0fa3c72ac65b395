---------------------------- MODULE AgentSession ----------------------------
(***************************************************************************)
(* The session of one shared-mode agent with the control plane: the auth   *)
(* manager (credentials, assignment and sequence floor, in memory and in   *)
(* the auth state file), the remote authority that fetches the desired     *)
(* state document for a snapshot of that state and falls back on its       *)
(* caches, the diagnosis runner that is triggered by a new sequence, and   *)
(* the control plane's row of the node they talk to.                       *)
(*                                                                         *)
(* The manager's operations hold one mutex across all of their HTTP        *)
(* requests; the main loop reads its snapshot once and then works outside  *)
(* the mutex, so that assignments, publications, token expiry and crashes  *)
(* fall between any two of its steps.  A document is [bundle, seq, node];  *)
(* its payload, its signature and the tokens themselves are abstracted to  *)
(* what decides: the bundle it is for, its sequence, the generation of the *)
(* token pair.                                                             *)
(***************************************************************************)
EXTENDS Naturals, FiniteSets

CONSTANTS
    Backends,       \* runtime backends: "gcs" (object store) and/or "standalone" (HTTP)
    MaxBundles,     \* node bundles the node is assigned, one after the other
    MaxSequence,    \* highest sequence published for a bundle
    MaxBootstraps,  \* bootstrap tokens issued for this machine
    MaxFaults,      \* lost answers, unreachable services, crashes, failed writes
    MaxExpiries,    \* expiries of an access token
    MaxDiagnoses    \* diagnosis requests

ASSUME BackendsAssumption == Backends \subseteq {"gcs", "standalone"} /\ Backends # {}
ASSUME BoundsAssumption ==
    /\ {MaxBundles, MaxSequence, MaxBootstraps} \subseteq Nat \ {0}
    /\ {MaxFaults, MaxExpiries, MaxDiagnoses} \subseteq Nat

VARIABLES
    backend,    \* the runtime backend of the node's bundles, fixed
    cp,         \* the control plane's record of the node
    up,         \* the agent process runs
    mem,        \* the auth manager's State in memory
    disk,       \* the auth state file
    op,         \* the operation that holds the manager's mutex
    main,       \* the main loop's fetch
    cache,      \* the authority's in-memory cache
    file,       \* the desired state cache file
    override,   \* the local desired state override file
    poll,       \* the diagnosis runner: signal and last sequence polled
    delivered,  \* the last document Fetch returned, kept over restarts
    gap,        \* how the session came apart, if it did
    faults, expiries

vars == <<backend, cp, up, mem, disk, op, main, cache, file, override, poll,
          delivered, gap, faults, expiries>>

agent  == <<up, mem, disk, op, main, cache, file, poll, delivered, gap>>

-----------------------------------------------------------------------------
(* Data *)

Bundles == 1..MaxBundles
Sequences == 0..MaxSequence

NoDoc == [bundle |-> 0, seq |-> 0, node |-> 0]
Docs == [bundle : 0..MaxBundles, seq : Sequences, node : 0..MaxBootstraps]

\* auth.State.  gen is the generation of the access and refresh token pair, 0
\* for none; google the bundle whose identity the Google token carries; mode is
\* "none" where the program's is the empty string.
Blank == [node |-> 0, gen |-> 0, access |-> FALSE, google |-> 0, fresh |-> FALSE,
          mode |-> "none", bundle |-> 0, inline |-> NoDoc, floor |-> 0]

NoOp == [by |-> "none", pc |-> "none", goal |-> "none"]

\* DesiredStateSnapshot: what a fetch takes from the manager, once.
Snapshot(s) == [node |-> s.node, mode |-> s.mode, bundle |-> s.bundle,
                inline |-> s.inline, floor |-> s.floor]

Idle == [pc |-> "idle", snap |-> Snapshot(Blank), tok |-> 0, gen |-> 0, doc |-> NoDoc]
NoCache == [bundle |-> 0, doc |-> NoDoc, gen |-> 0]

larger(a, b) == IF a > b THEN a ELSE b

\* The locator a target carries: one object per bundle in the object store, the
\* same control-plane address for every bundle in standalone.
URI(b) == IF b = 0 THEN 0 ELSE IF backend = "gcs" THEN b ELSE 1

\* Nodes::DesiredStateTarget.for: a bundle, a published sequence.
HasTarget(c) == c.bundle # 0 /\ c.seq > 0

\* The inline envelope an unassigned node is answered with.
Inline(c) == [bundle |-> 0, seq |-> c.seq, node |-> c.node]

\* DesiredStatesController#show: the document at the row's sequence.
StandaloneDocument == IF HasTarget(cp) THEN [bundle |-> cp.bundle, seq |-> cp.seq, node |-> cp.node]
                      ELSE NoDoc

AssignmentEligible(s) == s.mode = "assigned"
CanOperateOffline(s) == s.mode # "none"
clearGoogleTokens(s) == [s EXCEPT !.google = 0, !.fresh = FALSE]

\* Variant: the Google token of the bundle before stays.
applyTargetKeepsGoogle(s, c) ==
    LET changed == ~(AssignmentEligible(s) /\ s.bundle = c.bundle)
    IN IF ~HasTarget(c) THEN s
       ELSE [s EXCEPT !.mode = "assigned", !.bundle = c.bundle, !.inline = NoDoc,
                      !.floor = IF changed THEN c.seq ELSE larger(s.floor, c.seq)]

\* The target of a bootstrap or refresh answer, and the assigned answer of an
\* assignment request: the floor starts over with a new bundle and only rises
\* within one; the Google token goes whenever something changed.
applyDesiredStateTarget(s, c) ==
    LET changed == ~(AssignmentEligible(s) /\ s.bundle = c.bundle)
        floor == IF changed THEN c.seq ELSE larger(s.floor, c.seq)
        t == [s EXCEPT !.mode = "assigned", !.bundle = c.bundle,
                       !.inline = NoDoc, !.floor = floor]
    IN IF ~HasTarget(c) THEN s
       ELSE IF changed \/ floor # s.floor THEN clearGoogleTokens(t) ELSE t

\* Variant: the bundle of the assignment before stays.
applyUnassignedKeepsBundle(s, c) ==
    [s EXCEPT !.mode = "unassigned", !.inline = Inline(c), !.floor = 0]

\* Every unassigned answer is a new envelope with no sequence of its own, so
\* that the floor starts over at 0.
applyUnassigned(s, c) ==
    clearGoogleTokens([s EXCEPT !.mode = "unassigned", !.bundle = 0,
                                !.inline = Inline(c), !.floor = 0])

applyAssignment(s, c) ==
    IF HasTarget(c) THEN applyDesiredStateTarget(s, c) ELSE applyUnassigned(s, c)

\* Variant: the snapshot is not compared.
SnapshotNotCompared(snap) == TRUE

\* DesiredStateSnapshot of a fetch still is the manager's target.
SnapshotMatches(snap) ==
    /\ snap.node = mem.node
    /\ snap.mode = mem.mode
    /\ snap.bundle = mem.bundle
    /\ snap.inline = mem.inline

\* ensureControlPlaneAccess on the way to a goal: a valid token is used as it is,
\* without a refresh token the node registers, otherwise the token is refreshed.
Enter(by, goal, s) ==
    [by |-> by, goal |-> goal,
     pc |-> IF s.access THEN goal ELSE IF s.gen = 0 THEN "bootstrap" ELSE "access"]

Fault == faults < MaxFaults /\ faults' = faults + 1
NoFault == UNCHANGED faults

-----------------------------------------------------------------------------
(* Initial state: a machine was just installed with a bootstrap token *)

Init ==
    /\ backend \in Backends
    /\ cp = [node |-> 0, live |-> FALSE, gen |-> 0, boot |-> TRUE, issued |-> 1, bundle |-> 0, last |-> 0,
             seq |-> 0, docs |-> [b \in Bundles |-> 0], old |-> FALSE,
             diag |-> "none", diagnoses |-> 0]
    /\ up = FALSE
    /\ mem = Blank
    /\ disk = Blank
    /\ op = NoOp
    /\ main = Idle
    /\ cache = NoCache
    /\ file = NoCache
    /\ override = "absent"
    /\ poll = [signal |-> 0, last |-> 0]
    /\ delivered = [doc |-> NoDoc, via |-> "none", want |-> 0]
    /\ gap = {}
    /\ faults = 0
    /\ expiries = 0

-----------------------------------------------------------------------------
(* The control plane *)

\* A claimed bundle: the row takes the bundle and its sequence, 0.
Claimed(c) == [c EXCEPT !.bundle = c.last + 1, !.last = c.last + 1, !.seq = 0, !.old = FALSE]

\* NodeBundles::Claim for a node that has registered.
Assign ==
    /\ cp.live /\ cp.bundle = 0 /\ cp.last < MaxBundles
    /\ cp' = Claimed(cp)
    /\ UNCHANGED <<backend, agent, override, faults, expiries>>

\* Nodes::DesiredStatePublisher writes the documents of the next sequence.
PublishDocuments ==
    /\ cp.bundle # 0 /\ cp.seq < MaxSequence /\ cp.docs[cp.bundle] = cp.seq
    /\ cp' = [cp EXCEPT !.docs[cp.bundle] = cp.seq + 1, !.old = FALSE,
                        !.diag = IF @ = "pending" THEN "signalled" ELSE @]
    /\ UNCHANGED <<backend, agent, override, faults, expiries>>

\* ... and records the sequence on the row.
PersistSequence ==
    /\ cp.bundle # 0 /\ cp.docs[cp.bundle] > cp.seq
    /\ cp' = [cp EXCEPT !.seq = cp.docs[cp.bundle]]
    /\ UNCHANGED <<backend, agent, override, faults, expiries>>

\* Nodes::Unassign: the bundle is destroyed, the row's sequence stays.
Unassign ==
    /\ cp.bundle # 0
    /\ cp' = [cp EXCEPT !.bundle = 0]
    /\ UNCHANGED <<backend, agent, override, faults, expiries>>

\* Nodes::Retire destroys the row and its bundle: no token of it is accepted.
Retire ==
    /\ cp.live
    /\ cp' = [cp EXCEPT !.live = FALSE, !.gen = @ + 1, !.bundle = 0, !.diag = "none"]
    /\ gap' = gap \cup {"lost"}
    /\ Fault
    /\ UNCHANGED <<backend, up, mem, disk, op, main, cache, file, override, poll,
                   delivered, expiries>>

\* The envelope's TTL passes with nothing published since.
EnvelopeExpires ==
    /\ cp.bundle # 0 /\ cp.docs[cp.bundle] > 0 /\ ~cp.old
    /\ cp' = [cp EXCEPT !.old = TRUE]
    /\ Fault
    /\ UNCHANGED <<backend, agent, override, expiries>>

\* NodeDiagnoseRequest.find_or_create_active_for: one open request at a time.
\* The republication that signals it is PublishDocuments.
RequestDiagnosis ==
    /\ cp.live /\ cp.diag \in {"none", "done"} /\ cp.diagnoses < MaxDiagnoses
    /\ cp' = [cp EXCEPT !.diag = "pending", !.diagnoses = @ + 1]
    /\ UNCHANGED <<backend, agent, override, faults, expiries>>

\* Node.issue! for a consumed bootstrap token: a new row, unassigned.
Bootstrapped(c) ==
    [c EXCEPT !.node = c.node + 1, !.live = TRUE, !.gen = c.gen + 1, !.boot = FALSE,
              !.bundle = 0, !.seq = 0, !.diag = "none"]

\* assign_bootstrapped_node when the token names an environment.
BootstrappedAssigned(c) ==
    LET d == Claimed(Bootstrapped(c))
    IN [d EXCEPT !.seq = 1, !.docs[d.bundle] = 1]

BootstrapOutcomes ==
    {Bootstrapped(cp)} \cup (IF cp.last < MaxBundles THEN {BootstrappedAssigned(cp)} ELSE {})

-----------------------------------------------------------------------------
(* The process *)

\* main: NewManager and the beginning of Initialize, which loads the state file.
Start ==
    /\ ~up
    /\ up' = TRUE
    /\ mem' = disk
    /\ op' = Enter("init", "assignment", disk)
    /\ main' = Idle
    /\ cache' = NoCache
    /\ poll' = [signal |-> 0, last |-> 0]
    /\ UNCHANGED <<backend, cp, disk, file, override, delivered, gap, faults, expiries>>

\* What a rotation gave is in memory only.
Unsaved == IF mem.gen # disk.gen THEN {"unsaved"} ELSE {}

Exit ==
    /\ up' = FALSE
    /\ mem' = Blank
    /\ op' = NoOp
    /\ main' = Idle
    /\ cache' = NoCache
    /\ poll' = [signal |-> 0, last |-> 0]

Crash ==
    /\ up
    /\ Exit
    /\ gap' = gap \cup Unsaved
    /\ Fault
    /\ UNCHANGED <<backend, cp, disk, file, override, delivered, expiries>>

\* A new bootstrap token for a machine whose session is gone, and a restart with it.
Reinstall ==
    /\ (IF up THEN mem.gen ELSE disk.gen) # cp.gen
    /\ ~cp.boot /\ cp.issued < MaxBootstraps
    /\ cp' = [cp EXCEPT !.boot = TRUE, !.issued = @ + 1]
    /\ Exit
    /\ UNCHANGED <<backend, disk, file, override, delivered, gap, faults, expiries>>

\* Every access token expires in the end; only the expiries of one that is still
\* accepted are bounded.
AccessExpires ==
    /\ mem.access \/ disk.access
    /\ IF up /\ mem.gen # cp.gen THEN UNCHANGED expiries
       ELSE expiries < MaxExpiries /\ expiries' = expiries + 1
    /\ mem' = [mem EXCEPT !.access = FALSE]
    /\ disk' = [disk EXCEPT !.access = FALSE]
    /\ UNCHANGED <<backend, cp, up, op, main, cache, file, override, poll, delivered, gap, faults>>

GoogleExpires ==
    /\ expiries < MaxExpiries
    /\ mem.fresh \/ disk.fresh
    /\ expiries' = expiries + 1
    /\ mem' = [mem EXCEPT !.fresh = FALSE]
    /\ disk' = [disk EXCEPT !.fresh = FALSE]
    /\ UNCHANGED <<backend, cp, up, op, main, cache, file, override, poll, delivered, gap, faults>>

-----------------------------------------------------------------------------
(* Operations of the auth manager, under its mutex *)

\* Run: the check interval has passed.
SyncBegin ==
    /\ up /\ op = NoOp
    /\ op' = Enter("sync", "assignment", mem)
    /\ UNCHANGED <<backend, cp, up, mem, disk, main, cache, file, override, poll,
                   delivered, gap, faults, expiries>>

\* The diagnosis runner polls once for each sequence; without one, at intervals.
shouldPoll(sequence) == sequence = 0 \/ sequence # poll.last

\* Fetch returns a document; its sequence is the diagnosis signal.
Deliver(doc, via) ==
    /\ delivered' = [doc |-> doc, via |-> via, want |-> main.snap.bundle]
    /\ poll' = [poll EXCEPT !.signal = doc.seq]
    /\ main' = [Idle EXCEPT !.pc = IF shouldPoll(doc.seq) THEN "diagnose" ELSE "idle"]

\* An error keeps the signal of the last pass.
FetchError ==
    /\ main' = [Idle EXCEPT !.pc = IF shouldPoll(poll.signal) THEN "diagnose" ELSE "idle"]
    /\ UNCHANGED <<delivered, poll>>

\* The source could not be read: the in-memory cache if it is of the same URI,
\* then the cache file if it is of the same URI and bundle, then an error.
CachedMatches(b) == cache.doc # NoDoc /\ URI(cache.bundle) = URI(b)
PersistedMatches(b) == file.doc # NoDoc /\ URI(file.bundle) = URI(b) /\ file.bundle = b

loadFallbackDesiredState ==
    LET b == main.snap.bundle IN
    \/ /\ CachedMatches(b)
       /\ Deliver(cache.doc, "memory")
       /\ UNCHANGED cache
    \/ /\ ~CachedMatches(b) /\ PersistedMatches(b)
       /\ cache' = [file EXCEPT !.gen = 0]
       /\ Deliver(file.doc, "disk")
    \/ /\ ~CachedMatches(b) /\ ~PersistedMatches(b)
       /\ FetchError
       /\ UNCHANGED cache

\* The rest of Initialize and Sync once the assignment is known or given up:
\* Sync drops the Google token of an unassigned node and renews an expired one.
Conclude(s) ==
    LET renews == op.by = "sync" /\ op.goal = "assignment" /\ AssignmentEligible(s)
                  /\ s.google # 0 /\ ~s.fresh
    IN /\ op' = IF renews THEN Enter("sync", "sts", s) ELSE [op EXCEPT !.pc = "save"]
       /\ mem' = IF op.by = "sync" /\ ~AssignmentEligible(s) THEN clearGoogleTokens(s) ELSE s

\* A request of the operation failed for good, for the reasons in lost.
\* Initialize and Sync go on with a persisted assignment, and save; without one
\* Initialize ends the process and Sync returns.  The main loop's accesses
\* return the error, unsaved.
GiveUp(lost) ==
    \/ /\ op.by \in {"init", "sync"} /\ CanOperateOffline(mem)
       /\ Conclude(mem)
       /\ gap' = gap \cup lost
       /\ UNCHANGED <<up, main, cache, poll, delivered>>
    \/ /\ op.by = "init" /\ ~CanOperateOffline(mem)
       /\ Exit
       /\ gap' = gap \cup lost \cup Unsaved
       /\ UNCHANGED delivered
    \/ /\ op.by = "sync" /\ ~CanOperateOffline(mem)
       /\ op' = NoOp
       /\ gap' = gap \cup lost \cup Unsaved
       /\ UNCHANGED <<up, mem, main, cache, poll, delivered>>
    \/ /\ op.by = "main"
       /\ op' = NoOp
       /\ gap' = gap \cup lost \cup Unsaved
       /\ loadFallbackDesiredState
       /\ UNCHANGED <<up, mem>>

\* The operation has a control-plane access token and goes on to its goal.
Proceed(s) ==
    /\ op' = [op EXCEPT !.pc = op.goal]
    /\ mem' = s
    /\ UNCHANGED <<up, main, cache, poll, delivered, gap>>

quiet == <<backend, disk, file, override, expiries>>

\* A refresh token that is refused: the bootstrap token is tried.
RefreshRefused ==
    /\ op.pc = "access" /\ mem.gen # cp.gen
    /\ op' = [op EXCEPT !.pc = "bootstrap"]
    /\ UNCHANGED <<quiet, cp, up, mem, main, cache, poll, delivered, gap, faults>>

\* Variant: the refresh token of the answer is not taken over.
TakeTokensKeepsRefresh(s, c) ==
    applyDesiredStateTarget([s EXCEPT !.node = c.node, !.access = TRUE,
                                      !.gen = IF s.gen = 0 THEN c.gen ELSE s.gen], c)

\* The pair an answer carries replaces the manager's, with its target.
TakeTokens(s, c) ==
    applyDesiredStateTarget([s EXCEPT !.node = c.node, !.gen = c.gen, !.access = TRUE], c)

\* AuthController#refresh rotates both tokens before it answers.
RefreshControlPlane ==
    /\ op.pc = "access" /\ mem.gen = cp.gen
    /\ cp' = [cp EXCEPT !.gen = @ + 1]
    /\ Proceed(TakeTokens(mem, cp'))
    /\ NoFault
    /\ UNCHANGED quiet

\* BootstrapController#create consumes the token and issues the node.
BootstrapAnswered ==
    /\ op.pc = "bootstrap" /\ cp.boot
    /\ cp' \in BootstrapOutcomes
    /\ Proceed(TakeTokens(mem, cp'))
    /\ NoFault
    /\ UNCHANGED quiet

BootstrapRefused ==
    /\ op.pc = "bootstrap" /\ ~cp.boot
    /\ GiveUp({})
    /\ NoFault
    /\ UNCHANGED <<quiet, cp>>

\* The rotation or the registration happened and its answer did not arrive.
AnswerLost ==
    /\ \/ /\ op.pc = "access" /\ mem.gen = cp.gen
          /\ cp' = [cp EXCEPT !.gen = @ + 1]
       \/ /\ op.pc = "bootstrap" /\ cp.boot
          /\ cp' \in BootstrapOutcomes
    /\ Fault
    /\ GiveUp({"lost"})
    /\ UNCHANGED quiet

\* A request never reached its server, or was answered with an error.
Unreachable ==
    /\ op.pc \in {"access", "bootstrap", "assignment", "sts"}
    /\ Fault
    /\ GiveUp({})
    /\ UNCHANGED <<quiet, cp>>

\* AssignmentsController#show, for a token the server knows.
FetchAssignment ==
    /\ op.pc = "assignment" /\ mem.gen = cp.gen
    /\ Conclude(applyAssignment(mem, cp))
    /\ UNCHANGED <<quiet, cp, up, main, cache, poll, delivered, gap, faults>>

\* ... and for one it does not know any more.
AssignmentRefused ==
    /\ op.pc = "assignment" /\ mem.gen # cp.gen
    /\ GiveUp({})
    /\ NoFault
    /\ UNCHANGED <<quiet, cp>>

\* StsController#create issues the subject token of the row's bundle; Google
\* exchanges it and lets it impersonate the bundle's service account.
ExchangeTokens ==
    /\ op.pc = "sts" /\ mem.gen = cp.gen /\ cp.bundle # 0
    /\ mem' = [mem EXCEPT !.google = cp.bundle, !.fresh = TRUE]
    /\ op' = [op EXCEPT !.pc = "save"]
    /\ UNCHANGED <<quiet, cp, up, main, cache, poll, delivered, gap, faults>>

ExchangeRefused ==
    /\ op.pc = "sts" /\ (mem.gen # cp.gen \/ cp.bundle = 0)
    /\ GiveUp({})
    /\ NoFault
    /\ UNCHANGED <<quiet, cp>>

\* The main loop's operation has returned its token.
Resume ==
    IF op.by = "main"
    THEN main' = [main EXCEPT !.pc = "source",
                              !.tok = IF backend = "gcs" THEN mem.google ELSE mem.gen]
    ELSE UNCHANGED main

saveState ==
    /\ op.pc = "save"
    /\ disk' = mem
    /\ op' = NoOp
    /\ Resume
    /\ UNCHANGED <<backend, cp, up, mem, cache, file, override, poll, delivered, gap,
                   faults, expiries>>

\* The file cannot be written: Initialize ends the process, Sync logs the error.
SaveFails ==
    /\ op.pc = "save"
    /\ Fault
    /\ gap' = gap \cup Unsaved
    /\ \/ /\ op.by = "init"
          /\ Exit
          /\ UNCHANGED delivered
       \/ /\ op.by = "sync"
          /\ op' = NoOp
          /\ UNCHANGED <<up, mem, main, cache, poll, delivered>>
       \/ /\ op.by = "main"
          /\ op' = NoOp
          /\ loadFallbackDesiredState
          /\ UNCHANGED <<up, mem>>
    /\ UNCHANGED <<quiet, cp>>

-----------------------------------------------------------------------------
(* The main loop: Fetch of the remote authority *)

fetching == <<backend, cp, up, mem, disk, op, override, gap, expiries>>

\* The override file decides alone: an active one is delivered, one that cannot
\* be parsed is an error.
FetchOverride ==
    /\ up /\ op.by # "init" /\ main.pc = "idle" /\ override \in {"active", "invalid"}
    /\ IF override = "active" THEN Deliver(NoDoc, "override") ELSE FetchError
    /\ UNCHANGED <<fetching, cache, file, faults>>

\* One snapshot of the manager's state is read for the whole fetch.  An inline
\* document drops the cache, as does a new URI.
FetchBegin ==
    /\ up /\ op = NoOp /\ main.pc = "idle" /\ override \in {"absent", "disabled"}
    /\ \/ /\ mem.mode = "unassigned"
          /\ main' = [Idle EXCEPT !.pc = "parse", !.snap = Snapshot(mem), !.doc = mem.inline]
          /\ cache' = NoCache
       \/ /\ mem.mode = "assigned"
          /\ main' = [Idle EXCEPT !.pc = "access", !.snap = Snapshot(mem)]
          /\ cache' = IF URI(cache.bundle) = URI(mem.bundle) THEN cache
                      ELSE [NoCache EXCEPT !.bundle = mem.bundle]
    /\ UNCHANGED <<fetching, file, poll, delivered, faults>>

\* GoogleAccess or ControlPlaneAccess takes the mutex.  GoogleAccess is refused
\* when the node was unassigned meanwhile.
FetchAccess ==
    /\ up /\ op = NoOp /\ main.pc = "access"
    /\ \/ /\ backend = "gcs" /\ ~AssignmentEligible(mem)
          /\ loadFallbackDesiredState
          /\ UNCHANGED op
       \/ /\ backend = "gcs" /\ AssignmentEligible(mem)
          /\ op' = IF mem.google # 0 /\ mem.fresh
                   THEN [by |-> "main", goal |-> "sts", pc |-> "save"]
                   ELSE Enter("main", "sts", mem)
          /\ UNCHANGED <<main, cache, poll, delivered>>
       \/ /\ backend = "standalone"
          /\ op' = Enter("main", "save", mem)
          /\ UNCHANGED <<main, cache, poll, delivered>>
    /\ UNCHANGED <<backend, cp, up, mem, disk, file, override, gap, faults, expiries>>

\* The cached document is current; it is refused below the snapshot's floor.
ServeCached ==
    IF cache.doc.seq < main.snap.floor THEN FetchError ELSE Deliver(cache.doc, "source")

\* readGCSMetadata: the generation of the pointer object, one per publication.
ReadMetadata ==
    /\ main.pc = "source" /\ backend = "gcs" /\ main.tok = main.snap.bundle
    /\ LET generation == cp.docs[main.snap.bundle]
       IN IF cache.doc # NoDoc /\ cache.gen = generation
          THEN ServeCached
          ELSE /\ main' = [main EXCEPT !.pc = "media", !.gen = generation]
               /\ UNCHANGED <<delivered, poll>>
    /\ UNCHANGED <<fetching, cache, file, faults>>

\* readGCSMedia of the pointer and of the document it names.
ReadMedia ==
    /\ main.pc = "media"
    /\ main' = [main EXCEPT !.pc = "parse",
                !.doc = [bundle |-> main.snap.bundle, seq |-> cp.docs[main.snap.bundle],
                         node |-> main.snap.node]]
    /\ UNCHANGED <<fetching, cache, file, poll, delivered, faults>>

\* readHTTPDesiredState with the ETag of the cached document.
ReadHTTP ==
    /\ main.pc = "source" /\ backend = "standalone"
    /\ main.tok = cp.gen /\ StandaloneDocument # NoDoc
    /\ IF cache.gen # 0 /\ cache.doc = StandaloneDocument
       THEN ServeCached
       ELSE /\ main' = [main EXCEPT !.pc = "parse", !.doc = StandaloneDocument,
                                    !.gen = StandaloneDocument.seq]
            /\ UNCHANGED <<delivered, poll>>
    /\ UNCHANGED <<fetching, cache, file, faults>>

\* The identity may not read the object, the token was rotated away, or the row
\* has no document.
SourceRefused ==
    /\ main.pc = "source"
    /\ IF backend = "gcs" THEN main.tok # main.snap.bundle
       ELSE main.tok # cp.gen \/ StandaloneDocument = NoDoc
    /\ loadFallbackDesiredState
    /\ UNCHANGED <<fetching, file, faults>>

SourceUnavailable ==
    /\ main.pc \in {"source", "media"}
    /\ Fault
    /\ loadFallbackDesiredState
    /\ UNCHANGED <<fetching, file>>

\* Variant: the bundle tokens are not compared.
AcceptableOfAnyBundle(snap, doc) ==
    /\ ~(cp.old /\ doc.bundle = cp.bundle /\ doc.bundle # 0)
    /\ doc.seq >= snap.floor

\* The checks of an envelope: not expired, not below the snapshot's floor, for
\* the snapshot's bundle, or for its node when it has none.
Acceptable(snap, doc) ==
    /\ ~(cp.old /\ doc.bundle = cp.bundle /\ doc.bundle # 0)
    /\ doc.seq >= snap.floor
    /\ IF snap.bundle # 0 THEN doc.bundle = snap.bundle ELSE doc.node = snap.node

\* What the document needs cannot be read: an error, not an outage of the
\* source, so that no cache is consulted.
VerifyFails ==
    /\ main.pc = "parse" /\ Acceptable(main.snap, main.doc)
    /\ Fault
    /\ FetchError
    /\ UNCHANGED <<fetching, cache, file>>

\* publicKeyFor: no signing key.
KeyUnavailable == VerifyFails

\* resolveSecretRefs: a secret of one of the environments.
SecretUnavailable == main.snap.bundle # 0 /\ VerifyFails

ParseRefused ==
    /\ main.pc = "parse" /\ ~Acceptable(main.snap, main.doc)
    /\ FetchError
    /\ UNCHANGED <<fetching, cache, file, faults>>

\* RecordDesiredStateSequenceFloorForSnapshot, under the mutex.
RecordSequenceFloor ==
    /\ main.pc = "parse" /\ op = NoOp /\ Acceptable(main.snap, main.doc)
    /\ LET raised == SnapshotMatches(main.snap) /\ main.doc.seq > mem.floor
           s == [mem EXCEPT !.floor = main.doc.seq]
       IN IF raised THEN mem' = s /\ disk' = s ELSE UNCHANGED <<mem, disk>>
    /\ main' = [main EXCEPT !.pc = "keep"]
    /\ UNCHANGED <<backend, cp, up, op, cache, file, override, poll, delivered, gap,
                   faults, expiries>>

\* The floor cannot be saved: an error; memory has it.
RecordFails ==
    /\ main.pc = "parse" /\ op = NoOp /\ Acceptable(main.snap, main.doc)
    /\ SnapshotMatches(main.snap) /\ main.doc.seq > mem.floor
    /\ mem' = [mem EXCEPT !.floor = main.doc.seq]
    /\ Fault
    /\ FetchError
    /\ UNCHANGED <<backend, cp, up, disk, op, cache, file, override, gap, expiries>>

\* Variant: the generation is read after the document.
KeptUnderLatest == [bundle |-> main.snap.bundle, doc |-> main.doc,
                    gen |-> cp.docs[main.snap.bundle]]

\* What is cached: the document under the generation that was read before it.
Kept == [bundle |-> main.snap.bundle, doc |-> main.doc, gen |-> main.gen]

\* Variant: the cache file is written once for a bundle.
KeepDocumentOnce ==
    /\ main.pc = "keep"
    /\ IF main.snap.bundle = 0
       THEN Deliver(main.doc, "inline") /\ UNCHANGED <<cache, file>>
       ELSE /\ Deliver(main.doc, "source")
            /\ cache' = Kept
            /\ file' = IF file.bundle = main.snap.bundle THEN file ELSE Kept
    /\ UNCHANGED <<fetching, faults>>

\* An inline document is delivered as it is; any other one is kept in memory and
\* in the cache file first.
KeepDocument ==
    /\ main.pc = "keep"
    /\ IF main.snap.bundle = 0
       THEN Deliver(main.doc, "inline") /\ UNCHANGED <<cache, file>>
       ELSE Deliver(main.doc, "source") /\ cache' = Kept /\ file' = Kept
    /\ UNCHANGED <<fetching, faults>>

\* The cache file cannot be written: a warning.
KeepFails ==
    /\ main.pc = "keep" /\ main.snap.bundle # 0
    /\ Deliver(main.doc, "source")
    /\ cache' = Kept
    /\ gap' = gap \cup {"unkept"}
    /\ Fault
    /\ UNCHANGED <<backend, cp, up, mem, disk, op, override, expiries, file>>

-----------------------------------------------------------------------------
(* The local override, and the diagnosis after each pass *)

\* WriteOverride, by the operator, and its removal.
OverrideWrite ==
    /\ override' \in {"absent", "active", "disabled", "invalid"} \ {override}
    /\ Fault
    /\ UNCHANGED <<backend, cp, agent, expiries>>

ranDiagnosis == <<backend, up, mem, disk, op, cache, file, override, delivered, gap, expiries>>

\* Without a sequence the poll waits for its interval.
DiagnosisSkipped ==
    /\ main.pc = "diagnose" /\ poll.signal = 0
    /\ main' = Idle
    /\ UNCHANGED <<ranDiagnosis, cp, poll, faults>>

recordPoll == poll' = IF poll.signal > 0 THEN [poll EXCEPT !.last = poll.signal] ELSE poll

\* Claim: an open request, or one whose claim has timed out; the poll is
\* recorded once it was answered.
ClaimDiagnosis ==
    /\ main.pc = "diagnose" /\ mem.gen = cp.gen
    /\ \/ /\ cp.diag \in {"pending", "signalled", "claimed"}
          /\ cp' = [cp EXCEPT !.diag = "claimed"]
          /\ main' = [Idle EXCEPT !.pc = "result"]
       \/ /\ cp.diag \in {"none", "claimed", "done"}
          /\ main' = Idle
          /\ UNCHANGED cp
    /\ recordPoll
    /\ UNCHANGED <<ranDiagnosis, faults>>

\* Variant: a failed claim counts as a poll.
ClaimFailsRecorded ==
    /\ main.pc = "diagnose"
    /\ IF mem.gen # cp.gen THEN NoFault ELSE Fault
    /\ main' = Idle
    /\ recordPoll
    /\ UNCHANGED <<ranDiagnosis, cp>>

\* The token is refused, or the claim fails: the sequence is polled again.
ClaimFails ==
    /\ main.pc = "diagnose"
    /\ IF mem.gen # cp.gen THEN NoFault ELSE Fault
    /\ main' = Idle
    /\ UNCHANGED <<ranDiagnosis, cp, poll>>

\* Complete, or Fail when the containers could not be inspected.
ReportDiagnosis ==
    /\ main.pc = "result" /\ mem.gen = cp.gen
    /\ cp' = [cp EXCEPT !.diag = IF @ = "claimed" THEN "done" ELSE @]
    /\ main' = Idle
    /\ UNCHANGED <<ranDiagnosis, poll, faults>>

\* The result does not arrive; nothing sends it again.
ReportFails ==
    /\ main.pc = "result"
    /\ IF mem.gen # cp.gen THEN NoFault ELSE Fault
    /\ main' = Idle
    /\ UNCHANGED <<ranDiagnosis, cp, poll>>

-----------------------------------------------------------------------------
(* Specification *)

ControlPlane ==
    \/ Assign \/ PublishDocuments \/ PersistSequence \/ Unassign \/ Retire
    \/ EnvelopeExpires \/ RequestDiagnosis

Process ==
    Crash \/ Reinstall \/ AccessExpires \/ GoogleExpires \/ OverrideWrite

Manager ==
    \/ RefreshRefused \/ RefreshControlPlane \/ BootstrapAnswered
    \/ BootstrapRefused \/ AnswerLost \/ Unreachable \/ FetchAssignment
    \/ AssignmentRefused \/ ExchangeTokens \/ ExchangeRefused
    \/ saveState \/ SaveFails

Fetch ==
    \/ FetchOverride \/ FetchBegin \/ FetchAccess \/ ReadMetadata \/ ReadMedia
    \/ ReadHTTP \/ SourceRefused \/ SourceUnavailable \/ KeyUnavailable
    \/ SecretUnavailable \/ ParseRefused
    \/ RecordSequenceFloor \/ RecordFails \/ KeepDocument \/ KeepFails

Diagnosis ==
    DiagnosisSkipped \/ ClaimDiagnosis \/ ClaimFails \/ ReportDiagnosis \/ ReportFails

Next ==
    ControlPlane \/ Process \/ Start \/ SyncBegin \/ Manager \/ Fetch \/ Diagnosis

Spec == Init /\ [][Next]_vars

\* systemd restarts the process; the timer and the ticker fire; a request is
\* answered or times out; Go's mutex does not starve the main loop; a token that
\* is no longer accepted expires like any other.
Fairness ==
    /\ WF_vars(Start)
    /\ WF_vars(mem.gen # cp.gen /\ AccessExpires)
    /\ SF_vars(SyncBegin)
    /\ WF_vars(Manager)
    /\ SF_vars(Fetch)
    /\ WF_vars(Diagnosis)

FairSpec == Spec /\ Fairness

-----------------------------------------------------------------------------
(* Properties *)

Modes == {"none", "unassigned", "assigned"}

Snapshots == [node : 0..MaxBootstraps, mode : Modes, bundle : 0..MaxBundles,
              inline : Docs, floor : Sequences]

States == [node : 0..MaxBootstraps, gen : Nat, access : BOOLEAN, google : 0..MaxBundles,
           fresh : BOOLEAN, mode : Modes, bundle : 0..MaxBundles, inline : Docs,
           floor : Sequences]

NodeRows == [node : 0..MaxBootstraps, live : BOOLEAN, gen : Nat, boot : BOOLEAN,
             issued : 1..MaxBootstraps, bundle : 0..MaxBundles, last : 0..MaxBundles,
             seq : Sequences, docs : [Bundles -> Sequences], old : BOOLEAN,
             diag : {"none", "pending", "signalled", "claimed", "done"},
             diagnoses : 0..MaxDiagnoses]

Operations == [by : {"none", "init", "sync", "main"},
               pc : {"none", "access", "bootstrap", "assignment", "sts", "save"},
               goal : {"none", "assignment", "sts", "save"}]

Fetches == [pc : {"idle", "access", "source", "media", "parse", "keep", "diagnose", "result"},
            snap : Snapshots, tok : Nat, gen : Sequences, doc : Docs]

Copies == [bundle : 0..MaxBundles, doc : Docs, gen : Sequences]

Deliveries == [doc : Docs, via : {"none", "override", "memory", "disk", "source", "inline"},
               want : 0..MaxBundles]

\* Types of all variables: a target has a bundle exactly when its mode is
\* assigned, no token pair is newer than the control plane's, and an operation
\* of the main loop belongs to a fetch that waits for its token.
TypeOK ==
    /\ backend \in Backends /\ up \in BOOLEAN
    /\ cp \in NodeRows
    /\ {mem, disk} \subseteq States /\ main \in Fetches
    /\ mem.gen <= cp.gen /\ disk.gen <= cp.gen
    /\ \A s \in {Snapshot(mem), Snapshot(disk), main.snap} :
          s.bundle # 0 <=> s.mode = "assigned"
    /\ op \in Operations /\ (op.by = "main" => main.pc = "access")
    /\ {cache, file} \subseteq Copies
    /\ override \in {"absent", "active", "disabled", "invalid"}
    /\ poll \in [signal : Sequences, last : Sequences]
    /\ delivered \in Deliveries
    /\ gap \subseteq {"lost", "unsaved", "unkept"}
    /\ faults \in 0..MaxFaults /\ expiries \in 0..MaxExpiries

\* A document that was read from the source or from the cache file is of the
\* bundle the fetch was for, whatever was assigned or published while it ran.
\* Only the in-memory cache, which is matched by its URI alone, can hand out
\* another bundle's document, and only where all bundles share one address.
OwnDocument ==
    delivered.doc.bundle # delivered.want =>
        \/ delivered.via = "override"
        \/ delivered.via = "memory" /\ backend = "standalone"

\* Over outages, restarts and fallbacks the node never goes back to an older
\* document of a bundle, unless the cache file could not be written.
NoRollback ==
    [][ (delivered.doc.bundle # 0 /\ delivered'.doc.bundle = delivered.doc.bundle)
        => delivered'.doc.seq >= delivered.doc.seq \/ "unkept" \in gap ]_vars

\* The floor, in memory and on disk, never exceeds what is published for the
\* assignment it is kept with: a sequence that a fetch recorded late, for the
\* assignment before, would make the node refuse every document of the new one.
FloorReachable ==
    \A s \in {mem, disk} : AssignmentEligible(s) => s.floor <= cp.docs[s.bundle]

\* The document cached under a generation is no older than that generation, so
\* that an unchanged generation never hides a newer document.
CacheCoversGeneration ==
    cache.gen # 0 => cache.gen <= cache.doc.seq

\* The Google token never carries the identity of a bundle older than the target
\* it is used for.
IdentityFollowsTarget ==
    \A s \in {mem, disk} :
        AssignmentEligible(s) /\ s.google # 0 => s.google >= s.bundle

\* Between operations the manager's token pair is the one the control plane
\* accepts unless an answer was lost, and the state file has it unless an
\* operation ended early: no other interleaving loses the session.
SessionKept ==
    (op = NoOp /\ "lost" \notin gap) =>
        /\ up /\ "unsaved" \notin gap => mem.gen = cp.gen
        /\ "unsaved" \notin gap => disk.gen = cp.gen

\* No token pair the control plane still accepts and no bootstrap token left.
LockedOut == ~cp.boot /\ (IF up THEN mem.gen ELSE disk.gen) # cp.gen

\* What the node should run is what Fetch returned last.
UpToDate ==
    IF HasTarget(cp)
    THEN delivered.doc.bundle = cp.bundle
         /\ delivered.doc.seq = (IF backend = "gcs" THEN cp.docs[cp.bundle] ELSE cp.seq)
    ELSE delivered.via = "inline" /\ delivered.doc.node = cp.node

Hindered == LockedOut \/ cp.old \/ override \in {"active", "invalid"}

\* Once nothing more fails or is published the node gets to the latest document,
\* or to the empty one when it is unassigned, unless its session was lost, the
\* document's day has passed or an override stands in the way.
Converges == <>[](Hindered \/ UpToDate)

\* A diagnosis whose signal, a newer sequence, was published is claimed.
DiagnosisClaimed ==
    <>[](Hindered \/ cp.diag # "signalled" \/ ~HasTarget(cp) \/ cp.docs[cp.bundle] # cp.seq)

=============================================================================
