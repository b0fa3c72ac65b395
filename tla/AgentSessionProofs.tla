------------------------- MODULE AgentSessionProofs -------------------------
(***************************************************************************)
(* Theorems about AgentSession, for every number of bundles, sequences,    *)
(* bootstrap tokens, faults and expiries.                                  *)
(*                                                                         *)
(* The inductive invariant says what each piece of state that was taken    *)
(* from the control plane at some earlier moment still has to do with the  *)
(* control plane's row of now: a target names no bundle that was never     *)
(* assigned and keeps a floor that was published for it, a document was    *)
(* published, a fetch in progress and the two caches agree on a locator.   *)
(* Each of these survives whatever the control plane does (Grows), so that *)
(* an action's lemma is about the pieces it replaces.                      *)
(***************************************************************************)
EXTENDS AgentSession, TLAPS

-----------------------------------------------------------------------------
(* The inductive invariant *)

\* The control plane's row: a bootstrap token that was not used leaves a node to
\* register, the bundle of now is the last one, and what is not assigned yet has
\* no documents.
RowOK(c) ==
    /\ c \in NodeRows
    /\ c.node <= c.issued /\ (c.boot => c.node < c.issued)
    /\ c.bundle # 0 => c.bundle = c.last /\ c.seq <= c.docs[c.bundle]
    /\ \A b \in Bundles : b > c.last => c.docs[b] = 0

\* The manager's state, in memory or in the file, beside the row.
StateOK(s, c) ==
    /\ s \in States
    /\ s.gen <= c.gen /\ s.bundle <= c.last
    /\ s.bundle # 0 <=> s.mode = "assigned"
    /\ s.inline.bundle = 0
    /\ s.mode = "assigned" => s.floor <= c.docs[s.bundle]
    /\ s.mode = "assigned" /\ s.google # 0 => s.google >= s.bundle

\* A document of a bundle was published for it; standalone, at the sequence of
\* the row or before.
Published(doc, c) ==
    doc.bundle # 0 =>
        /\ doc.bundle <= c.last /\ doc.seq <= c.docs[doc.bundle]
        /\ backend = "standalone" /\ doc.bundle = c.bundle => doc.seq <= c.seq

CopyOK(copy, c) ==
    /\ copy \in Copies /\ copy.bundle <= c.last
    /\ copy.doc # NoDoc => copy.doc.bundle = copy.bundle /\ copy.bundle # 0
    /\ Published(copy.doc, c)

\* A fetch in progress: where the locator is in use the cache has the same one.
FetchOK(m, c) ==
    /\ m \in Fetches /\ m.snap.bundle <= c.last
    /\ m.snap.bundle # 0 <=> m.snap.mode = "assigned"
    /\ m.pc \in {"access", "source", "media"} => m.snap.bundle # 0
    /\ m.pc = "media" => backend = "gcs" /\ m.gen <= c.docs[m.snap.bundle]
    /\ m.pc \in {"parse", "keep"} =>
         /\ Published(m.doc, c)
         /\ IF m.snap.bundle = 0 THEN m.doc.bundle = 0 ELSE m.gen <= m.doc.seq
    /\ m.pc = "keep" => m.doc.bundle = m.snap.bundle

\* The cache beside the fetch and the target: bundles only follow each other.
CacheFits ==
    /\ cache.gen # 0 => cache.gen <= cache.doc.seq
    /\ main.pc \in {"access", "source", "media"} =>
         URI(cache.bundle) = URI(main.snap.bundle) /\ cache.bundle <= main.snap.bundle
    /\ mem.mode = "assigned" =>
         main.snap.bundle <= mem.bundle /\ cache.bundle <= mem.bundle

\* The operation and the process.
ControlOK ==
    /\ backend \in Backends /\ up \in BOOLEAN /\ op \in Operations
    /\ op.by = "none" <=> op = NoOp
    /\ op.pc = "none" \/ op.goal = "none" => op = NoOp
    /\ ~up => op = NoOp /\ main = Idle
    /\ op.by = "main" => main.pc = "access"

\* The token pair: no operation runs without the pair the control plane accepts,
\* unless something came apart.
SessionOK ==
    "lost" \notin gap /\ "unsaved" \notin gap =>
        /\ up => mem.gen = cp.gen
        /\ op = NoOp => disk.gen = cp.gen

\* What was delivered last is of the fetch's bundle, was published, and is no
\* newer than what the node may come to deliver.
DeliveryOK ==
    /\ delivered \in Deliveries /\ Published(delivered.doc, cp) /\ OwnDocument
    /\ main.pc \in {"parse", "keep"} /\ delivered.doc.bundle # 0
         /\ main.doc.bundle = delivered.doc.bundle => main.doc.seq >= delivered.doc.seq
    /\ "unkept" \notin gap =>
         /\ cache.doc \in {NoDoc, file.doc}
         /\ delivered.doc.bundle # 0 /\ file.doc.bundle = delivered.doc.bundle
              => file.doc.seq >= delivered.doc.seq

CountersOK ==
    /\ override \in {"absent", "active", "disabled", "invalid"}
    /\ poll \in [signal : Sequences, last : Sequences]
    /\ gap \subseteq {"lost", "unsaved", "unkept"}
    /\ faults \in 0..MaxFaults /\ expiries \in 0..MaxExpiries

IInv ==
    /\ RowOK(cp) /\ StateOK(mem, cp) /\ StateOK(disk, cp) /\ FetchOK(main, cp)
    /\ CopyOK(cache, cp) /\ CopyOK(file, cp) /\ CacheFits
    /\ ControlOK /\ SessionOK /\ DeliveryOK /\ CountersOK

-----------------------------------------------------------------------------
(* The control plane's row *)

USE DEF Bundles, Sequences

\* What the control plane does to a row, seen from what was taken from it.
Grows(c, d) ==
    /\ c.gen <= d.gen /\ c.last <= d.last
    /\ \A b \in Bundles : c.docs[b] <= d.docs[b]
    /\ d.bundle # 0 => IF d.bundle = c.bundle THEN c.seq <= d.seq ELSE c.last < d.bundle

LEMMA BoundsNat ==
    /\ MaxBundles \in Nat /\ MaxSequence \in Nat /\ MaxBootstraps \in Nat
    /\ MaxFaults \in Nat /\ MaxExpiries \in Nat /\ MaxDiagnoses \in Nat
    /\ MaxBundles > 0 /\ MaxSequence > 0 /\ MaxBootstraps > 0
BY BoundsAssumption

LEMMA Zeros ==
    /\ 0 \in 0..MaxBundles /\ 0 \in Sequences /\ 1 \in Sequences /\ 0 \in 0..MaxBootstraps
    /\ NoDoc \in Docs /\ NoDoc.bundle = 0 /\ NoDoc.seq = 0
BY BoundsNat DEF NoDoc, Docs

LEMMA RowTypes ==
    ASSUME NEW c \in NodeRows
    PROVE  /\ c.node \in Nat /\ c.issued \in Nat /\ c.gen \in Nat
           /\ c.bundle \in Nat /\ c.bundle <= MaxBundles
           /\ c.last \in Nat /\ c.last <= MaxBundles
           /\ c.seq \in Nat /\ c.seq <= MaxSequence
           /\ \A b \in Bundles : c.docs[b] \in Nat /\ c.docs[b] <= MaxSequence
<1>1. c.docs \in [Bundles -> Sequences]
  BY DEF NodeRows
<1>2. \A b \in Bundles : c.docs[b] \in Nat /\ c.docs[b] <= MaxSequence
  BY <1>1, BoundsNat
<1> QED BY <1>2, BoundsNat DEF NodeRows

LEMMA ClaimedOK ==
    ASSUME NEW c, RowOK(c), c.bundle = 0, c.last < MaxBundles
    PROVE  /\ RowOK(Claimed(c)) /\ Grows(c, Claimed(c))
           /\ Claimed(c).bundle = c.last + 1 /\ Claimed(c).docs[c.last + 1] = 0
<1> DEFINE d == Claimed(c)
<1>1. c \in NodeRows /\ c.last + 1 \in 1..MaxBundles
  BY RowTypes, BoundsNat DEF RowOK
<1>0. 0 \in Sequences /\ c.last + 1 \in 0..MaxBundles
  BY <1>1, BoundsNat
<1>2. /\ d \in NodeRows
      /\ /\ d.node = c.node /\ d.issued = c.issued /\ d.gen = c.gen
         /\ d.boot = c.boot /\ d.docs = c.docs
         /\ d.bundle = c.last + 1 /\ d.last = c.last + 1 /\ d.seq = 0
  <2>1. d \in NodeRows
    BY <1>0, <1>1 DEF Claimed, NodeRows
  <2>2. /\ d.node = c.node /\ d.issued = c.issued /\ d.gen = c.gen
        /\ d.boot = c.boot /\ d.docs = c.docs
        /\ d.bundle = c.last + 1 /\ d.last = c.last + 1 /\ d.seq = 0
    BY <1>1 DEF Claimed, NodeRows
  <2> QED BY <2>1, <2>2
<1>3. c.docs[c.last + 1] = 0
  BY <1>1, RowTypes DEF RowOK
<1> HIDE DEF d
<1>4. RowOK(d)
  BY <1>1, <1>2, <1>3, RowTypes DEF RowOK
<1>5. Grows(c, d)
  BY <1>1, <1>2, RowTypes DEF Grows
<1> QED BY <1>2, <1>3, <1>4, <1>5 DEF d

LEMMA BootstrappedOK ==
    ASSUME NEW c, RowOK(c), c.boot
    PROVE  /\ RowOK(Bootstrapped(c)) /\ Grows(c, Bootstrapped(c))
           /\ Bootstrapped(c).bundle = 0 /\ Bootstrapped(c).last = c.last
<1> DEFINE d == Bootstrapped(c)
<1>1. c \in NodeRows /\ c.node < c.issued
  BY DEF RowOK
<1>2. c.issued \in 1..MaxBootstraps
  BY <1>1 DEF NodeRows
<1>3. c.node + 1 \in 0..MaxBootstraps
  BY <1>1, <1>2, RowTypes, BoundsNat
<1>0. 0 \in Sequences /\ 0 \in 0..MaxBundles /\ c.gen + 1 \in Nat
  BY <1>1, RowTypes, BoundsNat
<1>4. /\ d \in NodeRows
      /\ /\ d.node = c.node + 1 /\ d.issued = c.issued /\ d.gen = c.gen + 1
         /\ d.boot = FALSE /\ d.docs = c.docs
         /\ d.bundle = 0 /\ d.last = c.last /\ d.seq = 0
  <2>1. d \in NodeRows
    BY <1>0, <1>1, <1>3 DEF Bootstrapped, NodeRows
  <2>2. /\ d.node = c.node + 1 /\ d.issued = c.issued /\ d.gen = c.gen + 1
        /\ d.boot = FALSE /\ d.docs = c.docs
        /\ d.bundle = 0 /\ d.last = c.last /\ d.seq = 0
    BY <1>1 DEF Bootstrapped, NodeRows
  <2> QED BY <2>1, <2>2
<1> HIDE DEF d
<1>5. RowOK(d)
  BY <1>1, <1>4, RowTypes DEF RowOK
<1>6. Grows(c, d)
  BY <1>1, <1>4, RowTypes DEF Grows
<1> QED BY <1>4, <1>5, <1>6 DEF d

LEMMA BootstrappedAssignedOK ==
    ASSUME NEW c, RowOK(c), c.boot, c.last < MaxBundles
    PROVE  RowOK(BootstrappedAssigned(c)) /\ Grows(c, BootstrappedAssigned(c))
<1> DEFINE b == Bootstrapped(c)
           d == Claimed(b)
           e == [d EXCEPT !.seq = 1, !.docs[d.bundle] = 1]
<1>1. RowOK(b) /\ Grows(c, b) /\ b.bundle = 0 /\ b.last = c.last
  BY BootstrappedOK
<1> HIDE DEF b
<1>2. RowOK(d) /\ Grows(b, d) /\ d.bundle = b.last + 1 /\ d.docs[d.bundle] = 0
  BY <1>1, ClaimedOK
<1> HIDE DEF d
<1>3. b \in NodeRows /\ c \in NodeRows /\ d \in NodeRows /\ d.bundle \in Bundles
  BY <1>1, <1>2, RowTypes, BoundsNat DEF RowOK
<1>0. 1 \in Sequences
  BY BoundsNat
<1>5. d.docs \in [Bundles -> Sequences]
  BY <1>3 DEF NodeRows
<1>4. /\ e \in NodeRows
      /\ /\ e.node = d.node /\ e.issued = d.issued /\ e.gen = d.gen
         /\ e.boot = d.boot /\ e.bundle = d.bundle /\ e.last = d.last /\ e.seq = 1
         /\ e.docs = [d.docs EXCEPT ![d.bundle] = 1]
  <2>1. e \in NodeRows
    BY <1>0, <1>3, <1>5 DEF NodeRows
  <2>2. /\ e.node = d.node /\ e.issued = d.issued /\ e.gen = d.gen
        /\ e.boot = d.boot /\ e.bundle = d.bundle /\ e.last = d.last /\ e.seq = 1
        /\ e.docs = [d.docs EXCEPT ![d.bundle] = 1]
    BY <1>3 DEF NodeRows
  <2> QED BY <2>1, <2>2
<1>6. \A x \in Bundles : e.docs[x] = IF x = d.bundle THEN 1 ELSE d.docs[x]
  BY <1>4, <1>5
<1> HIDE DEF e
<1>7. RowOK(e)
  BY <1>2, <1>3, <1>4, <1>6, RowTypes DEF RowOK
<1>8. Grows(c, e)
  <2>1. \A x \in Bundles : c.docs[x] <= e.docs[x]
    BY <1>1, <1>2, <1>3, <1>6, RowTypes DEF Grows
  <2>2. c.gen <= e.gen /\ c.last < e.last /\ e.bundle = e.last
    BY <1>1, <1>2, <1>3, <1>4, RowTypes DEF Grows, RowOK
  <2> QED BY <2>1, <2>2, <1>3, <1>4, RowTypes DEF Grows, RowOK
<1> QED BY <1>7, <1>8 DEF BootstrappedAssigned, b, d, e

LEMMA OutcomesOK ==
    ASSUME RowOK(cp), cp.boot, cp' \in BootstrapOutcomes
    PROVE  RowOK(cp') /\ Grows(cp, cp')
BY BootstrappedOK, BootstrappedAssignedOK DEF BootstrapOutcomes

LEMMA RotationOK ==
    ASSUME NEW c, RowOK(c)
    PROVE  RowOK([c EXCEPT !.gen = @ + 1]) /\ Grows(c, [c EXCEPT !.gen = @ + 1])
<1> DEFINE d == [c EXCEPT !.gen = @ + 1]
<1>1. c \in NodeRows
  BY DEF RowOK
<1>2. /\ d \in NodeRows /\ d.node = c.node /\ d.issued = c.issued /\ d.gen = c.gen + 1
      /\ d.boot = c.boot /\ d.docs = c.docs
      /\ d.bundle = c.bundle /\ d.last = c.last /\ d.seq = c.seq
  BY <1>1 DEF NodeRows
<1> HIDE DEF d
<1> QED BY <1>1, <1>2, RowTypes DEF RowOK, Grows, d

LEMMA GrowsReflexive ==
    ASSUME NEW c, RowOK(c)
    PROVE  Grows(c, c)
BY RowTypes DEF RowOK, Grows

-----------------------------------------------------------------------------
(* What was taken from the row stays right as the row grows *)

LEMMA StateTypes ==
    ASSUME NEW s \in States
    PROVE  /\ s.gen \in Nat /\ s.google \in Nat /\ s.bundle \in Nat /\ s.floor \in Nat
           /\ s.bundle <= MaxBundles /\ s.floor <= MaxSequence
           /\ s.bundle # 0 => s.bundle \in Bundles
           /\ s.inline \in Docs
BY BoundsNat DEF States

LEMMA DocTypes ==
    ASSUME NEW d \in Docs
    PROVE  /\ d.bundle \in Nat /\ d.seq \in Nat /\ d.seq \in Sequences
           /\ d.bundle <= MaxBundles /\ (d.bundle # 0 => d.bundle \in Bundles)
BY BoundsNat DEF Docs

LEMMA CopyTypes ==
    ASSUME NEW k \in Copies
    PROVE  /\ k.bundle \in Nat /\ k.gen \in Nat /\ k.doc \in Docs
           /\ k.bundle <= MaxBundles /\ (k.bundle # 0 => k.bundle \in Bundles)
BY BoundsNat DEF Copies

LEMMA FetchTypes ==
    ASSUME NEW m \in Fetches
    PROVE  /\ m.gen \in Nat /\ m.tok \in Nat /\ m.doc \in Docs /\ m.snap \in Snapshots
           /\ m.snap.bundle \in Nat /\ m.snap.bundle <= MaxBundles /\ m.snap.floor \in Nat
           /\ m.snap.bundle # 0 => m.snap.bundle \in Bundles
BY BoundsNat DEF Fetches, Snapshots

LEMMA StateGrows ==
    ASSUME NEW c, NEW d, NEW s, RowOK(c), RowOK(d), Grows(c, d), StateOK(s, c)
    PROVE  StateOK(s, d)
<1>1. c \in NodeRows /\ d \in NodeRows /\ s \in States
  BY DEF RowOK, StateOK
<1>2. s.mode = "assigned" => s.floor <= d.docs[s.bundle]
  <2> SUFFICES ASSUME s.mode = "assigned" PROVE s.floor <= d.docs[s.bundle]
    OBVIOUS
  <2>1. s.bundle \in Bundles
    BY <1>1, StateTypes DEF StateOK
  <2> QED BY <1>1, <2>1, StateTypes, RowTypes DEF StateOK, Grows
<1>3. s.gen <= d.gen /\ s.bundle <= d.last
  BY <1>1, StateTypes, RowTypes DEF StateOK, Grows
<1> QED BY <1>2, <1>3 DEF StateOK

LEMMA PublishedGrows ==
    ASSUME NEW c, NEW d, NEW doc \in Docs, RowOK(c), RowOK(d), Grows(c, d), Published(doc, c)
    PROVE  Published(doc, d)
<1> SUFFICES ASSUME doc.bundle # 0
             PROVE  /\ doc.bundle <= d.last /\ doc.seq <= d.docs[doc.bundle]
                    /\ backend = "standalone" /\ doc.bundle = d.bundle => doc.seq <= d.seq
  BY DEF Published
<1>1. c \in NodeRows /\ d \in NodeRows /\ doc.bundle \in Bundles
  BY DocTypes DEF RowOK
<1>2. doc.bundle <= c.last /\ doc.seq <= c.docs[doc.bundle]
      /\ (backend = "standalone" /\ doc.bundle = c.bundle => doc.seq <= c.seq)
  BY DEF Published
<1>3. doc.bundle <= d.last /\ doc.seq <= d.docs[doc.bundle]
  BY <1>1, <1>2, DocTypes, RowTypes DEF Grows
<1> QED BY <1>1, <1>2, <1>3, DocTypes, RowTypes DEF Grows

LEMMA CopyGrows ==
    ASSUME NEW c, NEW d, NEW copy, RowOK(c), RowOK(d), Grows(c, d), CopyOK(copy, c)
    PROVE  CopyOK(copy, d)
<1>1. copy \in Copies /\ c \in NodeRows /\ d \in NodeRows
  BY DEF CopyOK, RowOK
<1>2. Published(copy.doc, d)
  BY <1>1, CopyTypes, PublishedGrows DEF CopyOK
<1>3. copy.bundle <= d.last
  BY <1>1, CopyTypes, RowTypes DEF CopyOK, Grows
<1> QED BY <1>2, <1>3 DEF CopyOK

LEMMA FetchGrows ==
    ASSUME NEW c, NEW d, NEW m, RowOK(c), RowOK(d), Grows(c, d), FetchOK(m, c)
    PROVE  FetchOK(m, d)
<1>1. m \in Fetches /\ c \in NodeRows /\ d \in NodeRows
  BY DEF FetchOK, RowOK
<1>2. m.pc \in {"parse", "keep"} => Published(m.doc, d)
  BY <1>1, FetchTypes, PublishedGrows DEF FetchOK
<1>3. m.snap.bundle <= d.last
  BY <1>1, FetchTypes, RowTypes DEF FetchOK, Grows
<1>4. m.pc = "media" => m.gen <= d.docs[m.snap.bundle]
  <2> SUFFICES ASSUME m.pc = "media" PROVE m.gen <= d.docs[m.snap.bundle]
    OBVIOUS
  <2>1. m.snap.bundle \in Bundles /\ m.gen <= c.docs[m.snap.bundle]
    BY <1>1, FetchTypes DEF FetchOK
  <2> QED BY <1>1, <2>1, FetchTypes, RowTypes DEF Grows
<1> QED BY <1>2, <1>3, <1>4 DEF FetchOK

-----------------------------------------------------------------------------
(* The manager's target *)

\* A target is replaced only by the bundle of now.
Follows(s, t, c) ==
    t.mode = "assigned" =>
        t.bundle = c.last \/ (s.mode = "assigned" /\ t.bundle = s.bundle)

LEMMA ClearGoogleOK ==
    ASSUME NEW c, NEW s, StateOK(s, c)
    PROVE  /\ StateOK(clearGoogleTokens(s), c) /\ Follows(s, clearGoogleTokens(s), c)
           /\ clearGoogleTokens(s).gen = s.gen
<1> DEFINE t == clearGoogleTokens(s)
<1>1. s \in States
  BY DEF StateOK
<1>2. t \in States
  BY <1>1, Zeros DEF clearGoogleTokens, States
<1>3. /\ t.gen = s.gen /\ t.bundle = s.bundle /\ t.mode = s.mode
      /\ t.inline = s.inline /\ t.floor = s.floor /\ t.google = 0
  BY <1>1 DEF clearGoogleTokens, States
<1> HIDE DEF t
<1> QED BY <1>2, <1>3 DEF StateOK, Follows, t

LEMMA TargetOK ==
    ASSUME NEW c, NEW s, RowOK(c), StateOK(s, c)
    PROVE  /\ StateOK(applyDesiredStateTarget(s, c), c)
           /\ Follows(s, applyDesiredStateTarget(s, c), c)
           /\ applyDesiredStateTarget(s, c).gen = s.gen
<1>1. CASE ~HasTarget(c)
  BY <1>1 DEF applyDesiredStateTarget, Follows
<1>2. CASE HasTarget(c)
  <2> DEFINE changed == ~(AssignmentEligible(s) /\ s.bundle = c.bundle)
             floor == IF changed THEN c.seq ELSE larger(s.floor, c.seq)
             t == [s EXCEPT !.mode = "assigned", !.bundle = c.bundle,
                            !.inline = NoDoc, !.floor = floor]
             u == IF changed \/ floor # s.floor THEN clearGoogleTokens(t) ELSE t
  <2>1. applyDesiredStateTarget(s, c) = u
    BY <1>2 DEF applyDesiredStateTarget
  <2>2. s \in States /\ c \in NodeRows /\ c.bundle \in Bundles /\ c.bundle = c.last
    BY <1>2, RowTypes DEF StateOK, RowOK, HasTarget
  <2>3. floor \in Sequences /\ floor <= c.docs[c.bundle]
    <3>1. CASE changed
      BY <3>1, <1>2, <2>2, RowTypes, BoundsNat DEF RowOK, HasTarget
    <3>2. CASE ~changed
      <4>1. s.floor <= c.docs[c.bundle] /\ s.floor \in Nat /\ c.seq \in Nat
        BY <3>2, <2>2, StateTypes, RowTypes DEF StateOK, AssignmentEligible
      <4>2. c.seq <= c.docs[c.bundle]
        BY <1>2 DEF RowOK, HasTarget
      <4>3. floor \in {s.floor, c.seq}
        BY <3>2 DEF larger
      <4> QED BY <4>1, <4>2, <4>3, <2>2, StateTypes, RowTypes, BoundsNat
    <3> QED BY <3>1, <3>2
  <2>4. NoDoc \in Docs /\ NoDoc.bundle = 0 /\ c.bundle \in 0..MaxBundles
    BY <2>2, BoundsNat DEF NoDoc, Docs
  <2> HIDE DEF floor
  <2>5. t \in States
    BY <2>2, <2>3, <2>4 DEF States, Modes
  <2>6. /\ t.gen = s.gen /\ t.bundle = c.bundle /\ t.mode = "assigned"
        /\ t.inline = NoDoc /\ t.floor = floor /\ t.google = s.google
    BY <2>2 DEF States
  <2> HIDE DEF t
  <2>7. clearGoogleTokens(t) \in States
    BY <2>5, Zeros DEF clearGoogleTokens, States
  <2>8. LET v == clearGoogleTokens(t)
        IN /\ v.gen = t.gen /\ v.bundle = t.bundle /\ v.mode = t.mode
           /\ v.inline = t.inline /\ v.floor = t.floor /\ v.google = 0
    BY <2>5 DEF clearGoogleTokens, States
  <2>9. /\ u \in States /\ u.gen = s.gen /\ u.bundle = c.bundle /\ u.mode = "assigned"
        /\ u.inline = NoDoc /\ u.floor = floor
        /\ u.google # 0 => u.google = s.google /\ ~changed
    BY <2>5, <2>6, <2>7, <2>8
  <2>10. u.google # 0 => u.google >= u.bundle
    BY <2>9, <2>2, StateTypes DEF StateOK, AssignmentEligible
  <2> HIDE DEF u, changed
  <2>11. StateOK(u, c)
    BY <2>2, <2>3, <2>4, <2>9, <2>10, RowTypes DEF StateOK
  <2> QED BY <2>1, <2>2, <2>9, <2>11 DEF Follows
<1> QED BY <1>1, <1>2

LEMMA UnassignedOK ==
    ASSUME NEW c, NEW s, RowOK(c), StateOK(s, c)
    PROVE  /\ StateOK(applyUnassigned(s, c), c)
           /\ Follows(s, applyUnassigned(s, c), c)
           /\ applyUnassigned(s, c).gen = s.gen
<1> DEFINE t == [s EXCEPT !.mode = "unassigned", !.bundle = 0, !.inline = Inline(c), !.floor = 0]
<1>1. s \in States /\ c \in NodeRows
  BY DEF StateOK, RowOK
<1>2. Inline(c) \in Docs /\ Inline(c).bundle = 0
  BY <1>1, BoundsNat DEF Inline, NodeRows, Docs
<1>3. 0 \in 0..MaxBundles /\ 0 \in Sequences
  BY BoundsNat
<1>4. t \in States
  BY <1>1, <1>2, <1>3 DEF States, Modes
<1>5. /\ t.gen = s.gen /\ t.bundle = 0 /\ t.mode = "unassigned" /\ t.inline = Inline(c)
  BY <1>1 DEF States
<1> HIDE DEF t
<1>6. StateOK(t, c)
  BY <1>1, <1>2, <1>4, <1>5, RowTypes DEF StateOK
<1>7. Follows(s, clearGoogleTokens(t), c)
  BY <1>5, <1>6, ClearGoogleOK DEF Follows
<1> QED BY <1>5, <1>6, <1>7, ClearGoogleOK DEF applyUnassigned, t

LEMMA TakeTokensOK ==
    ASSUME NEW c, NEW s, RowOK(c), StateOK(s, c)
    PROVE  /\ StateOK(TakeTokens(s, c), c) /\ Follows(s, TakeTokens(s, c), c)
           /\ TakeTokens(s, c).gen = c.gen
<1> DEFINE t == [s EXCEPT !.node = c.node, !.gen = c.gen, !.access = TRUE]
<1>1. s \in States /\ c \in NodeRows
  BY DEF StateOK, RowOK
<1>2. c.node \in 0..MaxBootstraps /\ c.gen \in Nat
  BY <1>1 DEF NodeRows
<1>3. t \in States
  BY <1>1, <1>2 DEF States
<1>4. /\ t.gen = c.gen /\ t.bundle = s.bundle /\ t.mode = s.mode
      /\ t.inline = s.inline /\ t.floor = s.floor /\ t.google = s.google
  BY <1>1 DEF States
<1> HIDE DEF t
<1>5. StateOK(t, c)
  BY <1>2, <1>3, <1>4 DEF StateOK
<1> QED BY <1>4, <1>5, TargetOK DEF TakeTokens, t, Follows

LEMMA AssignmentOK ==
    ASSUME NEW c, NEW s, RowOK(c), StateOK(s, c)
    PROVE  /\ StateOK(applyAssignment(s, c), c) /\ Follows(s, applyAssignment(s, c), c)
           /\ applyAssignment(s, c).gen = s.gen
BY TargetOK, UnassignedOK DEF applyAssignment

-----------------------------------------------------------------------------
(* Frames *)

LEMMA Assemble ==
    ASSUME backend' = backend, RowOK(cp'), StateOK(mem', cp'), StateOK(disk', cp'),
           FetchOK(main', cp'), CopyOK(cache', cp'), CopyOK(file', cp'),
           CacheFits', ControlOK', SessionOK', DeliveryOK', CountersOK'
    PROVE  IInv'
<1>1. RowOK(cp)' /\ StateOK(mem, cp)' /\ StateOK(disk, cp)'
  BY DEF RowOK, StateOK
<1>2. FetchOK(main, cp)'
  BY DEF FetchOK, Published
<1>3. CopyOK(cache, cp)' /\ CopyOK(file, cp)'
  BY DEF CopyOK, Published
<1> QED BY <1>1, <1>2, <1>3 DEF IInv

LEMMA FitsFrame ==
    ASSUME CacheFits, backend' = backend, cache' = cache, main' = main,
           FetchOK(main, cp'), CopyOK(cache, cp'), StateOK(mem', cp'), Follows(mem, mem', cp')
    PROVE  CacheFits'
<1>1. mem'.mode = "assigned" => main.snap.bundle <= mem'.bundle /\ cache.bundle <= mem'.bundle
  BY DEF CacheFits, Follows, FetchOK, CopyOK
<1> QED BY <1>1 DEF CacheFits, URI

LEMMA DeliveryFrame ==
    ASSUME DeliveryOK, backend' = backend, delivered' = delivered, file' = file,
           cache'.doc \in {cache.doc, NoDoc}, gap \subseteq gap',
           main'.pc \in {"parse", "keep"} => main.pc \in {"parse", "keep"} /\ main'.doc = main.doc,
           Published(delivered.doc, cp')
    PROVE  DeliveryOK'
<1>1. OwnDocument'
  BY DEF DeliveryOK, OwnDocument
<1>2. Published(delivered.doc, cp)'
  BY DEF Published
<1> QED BY <1>1, <1>2 DEF DeliveryOK

LEMMA DeliveredGrows ==
    ASSUME IInv, RowOK(cp'), Grows(cp, cp')
    PROVE  Published(delivered.doc, cp')
<1>1. delivered.doc \in Docs
  BY DEF IInv, DeliveryOK, Deliveries
<1> QED BY <1>1, PublishedGrows DEF IInv, DeliveryOK

\* Steps of the control plane and of the manager that leave the fetch alone.
LEMMA BesideFetch ==
    ASSUME IInv, UNCHANGED <<backend, main, cache, file, delivered>>, gap \subseteq gap',
           RowOK(cp'), Grows(cp, cp'), StateOK(mem', cp'), Follows(mem, mem', cp'),
           StateOK(disk', cp'), ControlOK', SessionOK', CountersOK'
    PROVE  IInv'
<1>1. FetchOK(main, cp') /\ CopyOK(cache, cp') /\ CopyOK(file, cp')
  BY FetchGrows, CopyGrows DEF IInv
<1>2. CacheFits'
  BY <1>1, FitsFrame DEF IInv
<1>3. DeliveryOK'
  BY DeliveredGrows, DeliveryFrame DEF IInv
<1> QED BY <1>1, <1>2, <1>3, Assemble

LEMMA RestOK ==
    ASSUME NEW c, RowOK(c), NEW x \in {"idle", "diagnose", "result"}
    PROVE  LET m == [Idle EXCEPT !.pc = x]
           IN FetchOK(m, c) /\ m.pc = x /\ m.snap.bundle = 0
<1> DEFINE m == [Idle EXCEPT !.pc = x]
<1>1. Snapshot(Blank) \in Snapshots /\ Snapshot(Blank).bundle = 0 /\ Snapshot(Blank).mode = "none"
  BY Zeros DEF Snapshot, Blank, Snapshots, Modes
<1>2. /\ m = [pc |-> x, snap |-> Snapshot(Blank), tok |-> 0, gen |-> 0, doc |-> NoDoc]
      /\ m.pc = x /\ m.snap = Snapshot(Blank)
  BY DEF Idle
<1> HIDE DEF m
<1>3. m \in Fetches
  BY <1>1, <1>2, Zeros DEF Fetches
<1>4. c.last \in Nat
  BY RowTypes DEF RowOK
<1>5. FetchOK(m, c)
  BY <1>1, <1>2, <1>3, <1>4 DEF FetchOK
<1> QED BY <1>1, <1>2, <1>5 DEF m

LEMMA NoCacheOK ==
    ASSUME NEW c, RowOK(c)
    PROVE  CopyOK(NoCache, c) /\ NoCache.doc = NoDoc /\ NoCache.gen = 0 /\ NoCache.bundle = 0
<1>1. NoCache \in Copies /\ NoCache.doc = NoDoc /\ NoCache.gen = 0 /\ NoCache.bundle = 0
  BY Zeros DEF NoCache, Copies
<1>2. c.last \in Nat
  BY RowTypes DEF RowOK
<1> QED BY <1>1, <1>2, Zeros DEF CopyOK, Published

LEMMA BlankOK ==
    ASSUME NEW c, RowOK(c)
    PROVE  StateOK(Blank, c)
<1>1. Blank \in States /\ Blank.gen = 0 /\ Blank.bundle = 0 /\ Blank.mode = "none" /\ Blank.inline = NoDoc
  BY Zeros DEF Blank, States, Modes
<1>2. c.last \in Nat /\ c.gen \in Nat
  BY RowTypes DEF RowOK
<1> QED BY <1>1, <1>2, Zeros DEF StateOK

\* The fetch is over, or was not begun.
LEMMA AtRestKeeping ==
    ASSUME IInv, backend' = backend, CopyOK(file', cp'),
           NEW x \in {"idle", "diagnose", "result"}, main' = [Idle EXCEPT !.pc = x],
           RowOK(cp'), StateOK(mem', cp'), StateOK(disk', cp'),
           CopyOK(cache', cp'), cache'.gen # 0 => cache'.gen <= cache'.doc.seq,
           mem'.mode = "assigned" => cache'.bundle <= mem'.bundle,
           ControlOK', SessionOK', DeliveryOK', CountersOK'
    PROVE  IInv'
<1>1. FetchOK(main', cp') /\ main'.pc = x /\ main'.snap.bundle = 0
  BY RestOK
<1>2. CacheFits'
  <2>1. mem'.mode = "assigned" => 0 <= mem'.bundle
    BY StateTypes DEF StateOK
  <2> QED BY <1>1, <2>1 DEF CacheFits
<1> QED BY <1>1, <1>2, Assemble

LEMMA AtRest ==
    ASSUME IInv, UNCHANGED <<backend, file>>,
           NEW x \in {"idle", "diagnose", "result"}, main' = [Idle EXCEPT !.pc = x],
           RowOK(cp'), Grows(cp, cp'), StateOK(mem', cp'), StateOK(disk', cp'),
           CopyOK(cache', cp'), cache'.gen # 0 => cache'.gen <= cache'.doc.seq,
           mem'.mode = "assigned" => cache'.bundle <= mem'.bundle,
           ControlOK', SessionOK', DeliveryOK', CountersOK'
    PROVE  IInv'
<1>1. CopyOK(file', cp')
  BY CopyGrows DEF IInv
<1> QED BY <1>1, AtRestKeeping

LEMMA FaultOK ==
    ASSUME faults \in 0..MaxFaults, Fault
    PROVE  faults' \in 0..MaxFaults
BY BoundsNat DEF Fault

LEMMA FollowsSelf ==
    ASSUME NEW s, NEW c
    PROVE  Follows(s, s, c)
BY DEF Follows

-----------------------------------------------------------------------------
(* The control plane's actions *)

LEMMA Elsewhere ==
    ASSUME IInv, UNCHANGED <<backend, agent, override, expiries>>,
           RowOK(cp'), Grows(cp, cp'), cp'.gen = cp.gen, faults' \in 0..MaxFaults
    PROVE  IInv'
<1>1. StateOK(mem', cp') /\ StateOK(disk', cp')
  BY StateGrows DEF IInv, agent
<1>2. ControlOK' /\ SessionOK' /\ CountersOK'
  BY DEF IInv, ControlOK, SessionOK, CountersOK, agent
<1> QED BY <1>1, <1>2, BesideFetch, FollowsSelf DEF agent

LEMMA AssignStep ==
    ASSUME IInv, Assign
    PROVE  IInv'
<1>1. RowOK(cp') /\ Grows(cp, cp')
  BY ClaimedOK DEF IInv, Assign
<1>2. cp'.gen = cp.gen
  BY DEF IInv, RowOK, NodeRows, Assign, Claimed
<1> QED BY <1>1, <1>2, Elsewhere DEF Assign, IInv, CountersOK

LEMMA PublishDocumentsStep ==
    ASSUME IInv, PublishDocuments
    PROVE  IInv'
<1> DEFINE b == cp.bundle
           diag == IF cp.diag = "pending" THEN "signalled" ELSE cp.diag
<1>1. /\ RowOK(cp) /\ cp \in NodeRows /\ b \in Bundles /\ cp.seq + 1 \in Sequences
      /\ cp.docs[b] = cp.seq
  BY RowTypes, BoundsNat DEF IInv, RowOK, PublishDocuments
<1>2. cp.docs \in [Bundles -> Sequences] /\ diag \in {"none", "pending", "signalled", "claimed", "done"}
  BY <1>1 DEF NodeRows
<1>3. cp' = [cp EXCEPT !.docs[b] = cp.seq + 1, !.old = FALSE, !.diag = diag]
  BY DEF PublishDocuments
<1> HIDE DEF diag
<1>4. cp' \in NodeRows
  BY <1>1, <1>2, <1>3 DEF NodeRows
<1>5. /\ cp'.node = cp.node /\ cp'.issued = cp.issued /\ cp'.gen = cp.gen /\ cp'.boot = cp.boot
      /\ cp'.bundle = b /\ cp'.last = cp.last /\ cp'.seq = cp.seq
      /\ cp'.docs = [cp.docs EXCEPT ![b] = cp.seq + 1]
  BY <1>1, <1>3 DEF NodeRows
<1>6. \A x \in Bundles : cp'.docs[x] = IF x = b THEN cp.seq + 1 ELSE cp.docs[x]
  BY <1>2, <1>5
<1>7. RowOK(cp')
  BY <1>1, <1>4, <1>5, <1>6, RowTypes DEF RowOK
<1>8. Grows(cp, cp')
  BY <1>1, <1>5, <1>6, RowTypes DEF Grows
<1> QED BY <1>5, <1>7, <1>8, Elsewhere DEF PublishDocuments, IInv, CountersOK

LEMMA PersistSequenceStep ==
    ASSUME IInv, PersistSequence
    PROVE  IInv'
<1> DEFINE b == cp.bundle
<1>1. /\ RowOK(cp) /\ cp \in NodeRows /\ b \in Bundles /\ cp.docs[b] > cp.seq
      /\ cp' = [cp EXCEPT !.seq = cp.docs[b]]
  BY RowTypes, BoundsNat DEF IInv, RowOK, PersistSequence
<1>2. cp.docs[b] \in Sequences
  BY <1>1 DEF NodeRows
<1>3. cp' \in NodeRows
  BY <1>1, <1>2 DEF NodeRows
<1>4. /\ cp'.node = cp.node /\ cp'.issued = cp.issued /\ cp'.gen = cp.gen /\ cp'.boot = cp.boot
      /\ cp'.bundle = b /\ cp'.last = cp.last /\ cp'.seq = cp.docs[b] /\ cp'.docs = cp.docs
  BY <1>1 DEF NodeRows
<1>5. RowOK(cp')
  BY <1>1, <1>3, <1>4, RowTypes DEF RowOK
<1>6. Grows(cp, cp')
  BY <1>1, <1>4, RowTypes DEF Grows
<1> QED BY <1>4, <1>5, <1>6, Elsewhere DEF PersistSequence, IInv, CountersOK

\* Changes of the row that are not about documents or tokens.
LEMMA MarkOK ==
    ASSUME NEW c, NEW d \in NodeRows, RowOK(c), c.gen <= d.gen, d.last = c.last, d.docs = c.docs,
           d.seq = c.seq, d.bundle \in {0, c.bundle}, d.node = c.node,
           d.issued \in {c.issued, c.issued + 1}, d.issued = c.issued => (d.boot => c.boot)
    PROVE  RowOK(d) /\ Grows(c, d)
<1>1. c \in NodeRows
  BY DEF RowOK
<1>2. d.node <= d.issued /\ (d.boot => d.node < d.issued)
  BY <1>1, RowTypes DEF RowOK
<1> QED BY <1>1, <1>2, RowTypes DEF RowOK, Grows

LEMMA UnassignStep ==
    ASSUME IInv, Unassign
    PROVE  IInv'
<1>1. cp \in NodeRows /\ cp' = [cp EXCEPT !.bundle = 0]
  BY DEF IInv, RowOK, Unassign
<1>2. cp' \in NodeRows
  BY <1>1, Zeros DEF NodeRows
<1>3. /\ cp'.node = cp.node /\ cp'.issued = cp.issued /\ cp'.gen = cp.gen /\ cp'.boot = cp.boot
      /\ cp'.bundle = 0 /\ cp'.last = cp.last /\ cp'.seq = cp.seq /\ cp'.docs = cp.docs
  BY <1>1 DEF NodeRows
<1>4. RowOK(cp') /\ Grows(cp, cp')
  <2>1. RowOK(cp) /\ cp.gen <= cp'.gen /\ (cp'.boot => cp.boot)
    BY <1>1, <1>3, RowTypes DEF IInv
  <2> QED BY <1>2, <1>3, <2>1, MarkOK
<1> QED BY <1>3, <1>4, Elsewhere DEF Unassign, IInv, CountersOK

LEMMA RetireStep ==
    ASSUME IInv, Retire
    PROVE  IInv'
<1>1. cp \in NodeRows /\ cp' = [cp EXCEPT !.live = FALSE, !.gen = @ + 1, !.bundle = 0, !.diag = "none"]
  BY DEF IInv, RowOK, Retire
<1>0. cp.gen + 1 \in Nat
  BY <1>1, RowTypes
<1>2. cp' \in NodeRows
  BY <1>0, <1>1, Zeros DEF NodeRows
<1>3. /\ cp'.node = cp.node /\ cp'.issued = cp.issued /\ cp'.gen = cp.gen + 1 /\ cp'.boot = cp.boot
      /\ cp'.bundle = 0 /\ cp'.last = cp.last /\ cp'.seq = cp.seq /\ cp'.docs = cp.docs
  BY <1>1 DEF NodeRows
<1>4. RowOK(cp') /\ Grows(cp, cp')
  <2>1. RowOK(cp) /\ cp.gen <= cp'.gen /\ (cp'.boot => cp.boot)
    BY <1>1, <1>3, RowTypes DEF IInv
  <2> QED BY <1>2, <1>3, <2>1, MarkOK
<1>5. ControlOK' /\ SessionOK'
  BY DEF IInv, Retire, ControlOK, SessionOK
<1>6. CountersOK'
  BY FaultOK DEF IInv, Retire, CountersOK
<1>7. StateOK(mem', cp') /\ StateOK(disk', cp')
  BY <1>4, StateGrows DEF IInv, Retire
<1> QED BY <1>4, <1>5, <1>6, <1>7, BesideFetch, FollowsSelf DEF Retire

LEMMA EnvelopeExpiresStep ==
    ASSUME IInv, EnvelopeExpires
    PROVE  IInv'
<1>1. cp \in NodeRows /\ cp' = [cp EXCEPT !.old = TRUE]
  BY DEF IInv, RowOK, EnvelopeExpires
<1>2. cp' \in NodeRows
  BY <1>1 DEF NodeRows
<1>3. /\ cp'.node = cp.node /\ cp'.issued = cp.issued /\ cp'.gen = cp.gen /\ cp'.boot = cp.boot
      /\ cp'.bundle = cp.bundle /\ cp'.last = cp.last /\ cp'.seq = cp.seq /\ cp'.docs = cp.docs
  BY <1>1 DEF NodeRows
<1>4. RowOK(cp') /\ Grows(cp, cp')
  <2>1. RowOK(cp) /\ cp.gen <= cp'.gen /\ (cp'.boot => cp.boot)
    BY <1>1, <1>3, RowTypes DEF IInv
  <2> QED BY <1>2, <1>3, <2>1, MarkOK
<1> QED BY <1>3, <1>4, Elsewhere, FaultOK DEF EnvelopeExpires, IInv, CountersOK

LEMMA RequestDiagnosisStep ==
    ASSUME IInv, RequestDiagnosis
    PROVE  IInv'
<1>1. cp \in NodeRows /\ cp' = [cp EXCEPT !.diag = "pending", !.diagnoses = @ + 1]
  BY DEF IInv, RowOK, RequestDiagnosis
<1>0. cp.diagnoses + 1 \in 0..MaxDiagnoses
  <2>1. cp.diagnoses \in 0..MaxDiagnoses
    BY <1>1 DEF NodeRows
  <2> QED BY <2>1, BoundsNat DEF RequestDiagnosis
<1>2. cp' \in NodeRows
  BY <1>0, <1>1 DEF NodeRows
<1>3. /\ cp'.node = cp.node /\ cp'.issued = cp.issued /\ cp'.gen = cp.gen /\ cp'.boot = cp.boot
      /\ cp'.bundle = cp.bundle /\ cp'.last = cp.last /\ cp'.seq = cp.seq /\ cp'.docs = cp.docs
  BY <1>1 DEF NodeRows
<1>4. RowOK(cp') /\ Grows(cp, cp')
  <2>1. RowOK(cp) /\ cp.gen <= cp'.gen /\ (cp'.boot => cp.boot)
    BY <1>1, <1>3, RowTypes DEF IInv
  <2> QED BY <1>2, <1>3, <2>1, MarkOK
<1> QED BY <1>3, <1>4, Elsewhere DEF RequestDiagnosis, IInv, CountersOK

-----------------------------------------------------------------------------
(* The process's actions *)

LEMMA NoOpOK == NoOp \in Operations /\ NoOp.by = "none" /\ NoOp.pc = "none"
BY DEF NoOp, Operations

LEMMA EnterOK ==
    ASSUME NEW by \in {"init", "sync", "main"}, NEW goal \in {"assignment", "sts", "save"}, NEW s
    PROVE  /\ Enter(by, goal, s) \in Operations /\ Enter(by, goal, s).by = by
           /\ Enter(by, goal, s).pc # "none" /\ Enter(by, goal, s).goal = goal
           /\ Enter(by, goal, s) # NoOp
BY DEF Enter, Operations, NoOp

\* An operation that was begun or goes on.
LEMMA OperationOK ==
    ASSUME ControlOK, UNCHANGED <<backend, up, main>>, up, op' \in Operations,
           op'.by # "none", op'.pc # "none", op'.goal # "none", op'.by = "main" => main.pc = "access"
    PROVE  ControlOK'
BY NoOpOK DEF ControlOK

LEMMA IdleIsRest == Idle = [Idle EXCEPT !.pc = "idle"]
BY DEF Idle

LEMMA ExitStep ==
    ASSUME IInv, Exit, UNCHANGED <<backend, disk, file, delivered, override, expiries>>,
           gap \subseteq gap', gap' \subseteq {"lost", "unsaved", "unkept"},
           RowOK(cp'), Grows(cp, cp'), faults' \in 0..MaxFaults, SessionOK'
    PROVE  IInv'
<1>1. StateOK(mem', cp') /\ StateOK(disk', cp') /\ mem'.mode # "assigned"
  BY BlankOK, StateGrows DEF IInv, Exit, Blank
<1>2. main' = [Idle EXCEPT !.pc = "idle"] /\ main'.pc = "idle"
  BY IdleIsRest, RestOK DEF Exit
<1>3. ControlOK'
  BY NoOpOK DEF IInv, ControlOK, Exit
<1>4. CopyOK(cache', cp') /\ cache'.gen = 0 /\ cache'.doc = NoDoc
  BY NoCacheOK DEF Exit
<1>5. DeliveryOK'
  BY <1>2, <1>4, DeliveredGrows, DeliveryFrame DEF IInv
<1>6. CountersOK'
  BY Zeros DEF IInv, CountersOK, Exit
<1> QED BY <1>1, <1>2, <1>3, <1>4, <1>5, <1>6, AtRest

LEMMA CrashStep ==
    ASSUME IInv, Crash
    PROVE  IInv'
<1>1. RowOK(cp') /\ Grows(cp, cp') /\ faults' \in 0..MaxFaults
  BY GrowsReflexive, FaultOK DEF IInv, CountersOK, Crash
<1>2. gap \subseteq gap' /\ gap' \subseteq {"lost", "unsaved", "unkept"}
  BY DEF IInv, CountersOK, Crash, Unsaved
<1>3. SessionOK'
  BY DEF IInv, SessionOK, Crash, Exit, Unsaved
<1> QED BY <1>1, <1>2, <1>3, ExitStep DEF Crash

LEMMA ReinstallStep ==
    ASSUME IInv, Reinstall
    PROVE  IInv'
<1>1. cp \in NodeRows /\ cp' = [cp EXCEPT !.boot = TRUE, !.issued = @ + 1]
  BY DEF IInv, RowOK, Reinstall
<1>0. cp.issued + 1 \in 1..MaxBootstraps
  BY <1>1, RowTypes, BoundsNat DEF Reinstall
<1>2. cp' \in NodeRows
  BY <1>0, <1>1 DEF NodeRows
<1>3. /\ cp'.node = cp.node /\ cp'.issued = cp.issued + 1 /\ cp'.gen = cp.gen
      /\ cp'.bundle = cp.bundle /\ cp'.last = cp.last /\ cp'.seq = cp.seq /\ cp'.docs = cp.docs
  BY <1>1 DEF NodeRows
<1>4. RowOK(cp') /\ Grows(cp, cp')
  <2>1. RowOK(cp) /\ cp.gen <= cp'.gen /\ cp'.issued # cp.issued
    BY <1>1, <1>3, RowTypes DEF IInv
  <2> QED BY <1>2, <1>3, <2>1, MarkOK
<1>5. SessionOK'
  BY <1>3 DEF IInv, SessionOK, ControlOK, Reinstall, Exit
<1> QED BY <1>4, <1>5, ExitStep DEF Reinstall, IInv, CountersOK

LEMMA StartStep ==
    ASSUME IInv, Start
    PROVE  IInv'
<1>1. RowOK(cp') /\ Grows(cp, cp')
  BY GrowsReflexive DEF IInv, Start
<1>2. StateOK(mem', cp') /\ StateOK(disk', cp')
  BY DEF IInv, Start
<1>3. main' = [Idle EXCEPT !.pc = "idle"] /\ main'.pc = "idle"
  BY <1>1, IdleIsRest, RestOK DEF Start
<1>4. op' \in Operations /\ op'.by = "init" /\ op'.pc # "none" /\ op'.goal = "assignment" /\ op' # NoOp
  BY EnterOK DEF Start
<1>5. ControlOK'
  BY <1>4 DEF IInv, ControlOK, Start
<1>6. CopyOK(cache', cp') /\ cache'.gen = 0 /\ cache'.doc = NoDoc /\ cache'.bundle = 0
  BY <1>1, NoCacheOK DEF Start
<1>7. mem'.mode = "assigned" => cache'.bundle <= mem'.bundle
  BY <1>2, <1>6, StateTypes DEF StateOK
<1>8. SessionOK'
  BY <1>4 DEF IInv, SessionOK, ControlOK, Start
<1>9. DeliveryOK'
  BY <1>1, <1>3, <1>6, DeliveredGrows, DeliveryFrame DEF IInv, Start
<1>10. CountersOK'
  BY Zeros DEF IInv, CountersOK, Start
<1> QED BY <1>1, <1>2, <1>3, <1>5, <1>6, <1>7, <1>8, <1>9, <1>10, AtRest DEF Start

LEMMA ExpiredOK ==
    ASSUME NEW c, NEW s, StateOK(s, c)
    PROVE  LET t == [s EXCEPT !.access = FALSE]
               u == [s EXCEPT !.fresh = FALSE]
           IN /\ StateOK(t, c) /\ Follows(s, t, c) /\ t.gen = s.gen
              /\ StateOK(u, c) /\ Follows(s, u, c) /\ u.gen = s.gen
<1> DEFINE t == [s EXCEPT !.access = FALSE]
           u == [s EXCEPT !.fresh = FALSE]
<1>1. s \in States
  BY DEF StateOK
<1>2. t \in States /\ u \in States
  BY <1>1 DEF States
<1>3. /\ t.gen = s.gen /\ t.bundle = s.bundle /\ t.mode = s.mode
      /\ t.inline = s.inline /\ t.floor = s.floor /\ t.google = s.google
  BY <1>1 DEF States
<1>4. /\ u.gen = s.gen /\ u.bundle = s.bundle /\ u.mode = s.mode
      /\ u.inline = s.inline /\ u.floor = s.floor /\ u.google = s.google
  BY <1>1 DEF States
<1> HIDE DEF t, u
<1>5. StateOK(t, c) /\ Follows(s, t, c)
  BY <1>2, <1>3 DEF StateOK, Follows
<1>6. StateOK(u, c) /\ Follows(s, u, c)
  BY <1>2, <1>4 DEF StateOK, Follows
<1> QED BY <1>3, <1>4, <1>5, <1>6 DEF t, u

LEMMA ExpiryStep ==
    ASSUME IInv, AccessExpires \/ GoogleExpires
    PROVE  IInv'
<1>1. /\ UNCHANGED <<backend, cp, up, op, main, cache, file, override, poll, delivered, gap, faults>>
      /\ \/ mem' = [mem EXCEPT !.access = FALSE] /\ disk' = [disk EXCEPT !.access = FALSE]
         \/ mem' = [mem EXCEPT !.fresh = FALSE] /\ disk' = [disk EXCEPT !.fresh = FALSE]
      /\ expiries' = expiries \/ (expiries < MaxExpiries /\ expiries' = expiries + 1)
  BY DEF AccessExpires, GoogleExpires
<1>2. /\ StateOK(mem', cp') /\ Follows(mem, mem', cp') /\ mem'.gen = mem.gen
      /\ StateOK(disk', cp') /\ disk'.gen = disk.gen
  BY <1>1, ExpiredOK DEF IInv
<1>3. RowOK(cp') /\ Grows(cp, cp')
  BY <1>1, GrowsReflexive DEF IInv
<1>4. ControlOK' /\ SessionOK'
  BY <1>1, <1>2 DEF IInv, ControlOK, SessionOK
<1>5. CountersOK'
  BY <1>1, BoundsNat DEF IInv, CountersOK
<1> QED BY <1>1, <1>2, <1>3, <1>4, <1>5, BesideFetch

LEMMA OverrideWriteStep ==
    ASSUME IInv, OverrideWrite
    PROVE  IInv'
<1>1. RowOK(cp') /\ Grows(cp, cp') /\ StateOK(mem', cp') /\ StateOK(disk', cp')
  BY GrowsReflexive DEF IInv, OverrideWrite, agent
<1>2. ControlOK' /\ SessionOK'
  BY DEF IInv, ControlOK, SessionOK, OverrideWrite, agent
<1>3. CountersOK'
  BY FaultOK DEF IInv, CountersOK, OverrideWrite, agent
<1> QED BY <1>1, <1>2, <1>3, BesideFetch, FollowsSelf DEF OverrideWrite, agent

LEMMA SyncBeginStep ==
    ASSUME IInv, SyncBegin
    PROVE  IInv'
<1>1. RowOK(cp') /\ Grows(cp, cp') /\ StateOK(mem', cp') /\ StateOK(disk', cp')
  BY GrowsReflexive DEF IInv, SyncBegin
<1>2. op' \in Operations /\ op'.by = "sync" /\ op'.pc # "none" /\ op'.goal = "assignment" /\ op' # NoOp
  BY EnterOK DEF SyncBegin
<1>3. ControlOK'
  BY <1>2, OperationOK DEF IInv, SyncBegin
<1>4. SessionOK' /\ CountersOK'
  BY <1>2 DEF IInv, SessionOK, CountersOK, SyncBegin
<1> QED BY <1>1, <1>3, <1>4, BesideFetch, FollowsSelf DEF SyncBegin

-----------------------------------------------------------------------------
(* The end of a fetch *)

LEMMA FetchErrorEnds ==
    ASSUME FetchError
    PROVE  /\ \E x \in {"idle", "diagnose", "result"} : main' = [Idle EXCEPT !.pc = x]
           /\ UNCHANGED <<delivered, poll>>
BY DEF FetchError

LEMMA DeliverEnds ==
    ASSUME NEW doc, NEW via, Deliver(doc, via)
    PROVE  /\ \E x \in {"idle", "diagnose", "result"} : main' = [Idle EXCEPT !.pc = x]
           /\ delivered' = [doc |-> doc, via |-> via, want |-> main.snap.bundle]
           /\ poll' = [poll EXCEPT !.signal = doc.seq]
BY DEF Deliver

LEMMA RestPc ==
    ASSUME NEW x \in {"idle", "diagnose", "result"}, main' = [Idle EXCEPT !.pc = x]
    PROVE  main'.pc = x
BY DEF Idle

LEMMA DeliverOK ==
    ASSUME IInv, NEW doc \in Docs, NEW via \in {"override", "memory", "disk", "source", "inline"},
           Deliver(doc, via), backend' = backend, Published(doc, cp'),
           \/ doc.bundle = main.snap.bundle
           \/ via = "override"
           \/ via = "memory" /\ backend = "standalone",
           "unkept" \notin gap' =>
             /\ cache'.doc \in {NoDoc, file'.doc}
             /\ doc.bundle # 0 /\ file'.doc.bundle = doc.bundle => file'.doc.seq >= doc.seq
    PROVE  DeliveryOK' /\ poll' \in [signal : Sequences, last : Sequences]
<1>1. main.snap.bundle \in 0..MaxBundles
  BY FetchTypes DEF IInv, FetchOK, Fetches, Snapshots
<1>2. PICK x \in {"idle", "diagnose", "result"} : main' = [Idle EXCEPT !.pc = x]
  BY DeliverEnds
<1>3. delivered' = [doc |-> doc, via |-> via, want |-> main.snap.bundle]
  BY DeliverEnds
<1>4. /\ delivered' \in Deliveries
      /\ delivered'.doc = doc /\ delivered'.via = via /\ delivered'.want = main.snap.bundle
  BY <1>1, <1>3 DEF Deliveries
<1>5. OwnDocument'
  BY <1>4 DEF OwnDocument
<1>6. Published(delivered.doc, cp)'
  BY <1>4 DEF Published
<1>7. main'.pc = x
  BY <1>2, RestPc
<1>8. DeliveryOK'
  BY <1>4, <1>5, <1>6, <1>7 DEF DeliveryOK
<1>9. poll' \in [signal : Sequences, last : Sequences]
  <2>1. poll' = [poll EXCEPT !.signal = doc.seq] /\ doc.seq \in Sequences
    BY DeliverEnds, DocTypes
  <2> QED BY <2>1 DEF IInv, CountersOK
<1> QED BY <1>8, <1>9

LEMMA ErrorOK ==
    ASSUME IInv, FetchError, backend' = backend, file' = file, cache'.doc \in {cache.doc, NoDoc},
           gap \subseteq gap', RowOK(cp'), Grows(cp, cp')
    PROVE  DeliveryOK' /\ poll' \in [signal : Sequences, last : Sequences]
<1>1. PICK x \in {"idle", "diagnose", "result"} : main' = [Idle EXCEPT !.pc = x]
  BY FetchErrorEnds
<1>2. main'.pc = x
  BY <1>1, RestPc
<1>3. DeliveryOK'
  BY <1>2, FetchErrorEnds, DeliveredGrows, DeliveryFrame DEF IInv
<1> QED BY <1>3, FetchErrorEnds DEF IInv, CountersOK

LEMMA FallbackOK ==
    ASSUME IInv, loadFallbackDesiredState, main.pc \in {"access", "source", "media"},
           UNCHANGED <<backend, file>>, RowOK(cp'), Grows(cp, cp'), gap \subseteq gap'
    PROVE  /\ \E x \in {"idle", "diagnose", "result"} : main' = [Idle EXCEPT !.pc = x]
           /\ CopyOK(cache', cp') /\ (cache'.gen # 0 => cache'.gen <= cache'.doc.seq)
           /\ mem.mode = "assigned" => cache'.bundle <= mem.bundle
           /\ DeliveryOK' /\ poll' \in [signal : Sequences, last : Sequences]
<1> DEFINE b == main.snap.bundle
<1>1. /\ CopyOK(cache, cp') /\ CopyOK(file, cp') /\ cache \in Copies /\ file \in Copies
      /\ cache.doc \in Docs /\ file.doc \in Docs
  BY CopyGrows, CopyTypes DEF IInv, CopyOK
<1>2. b # 0 /\ (mem.mode = "assigned" => b <= mem.bundle /\ cache.bundle <= mem.bundle)
      /\ (cache.gen # 0 => cache.gen <= cache.doc.seq)
  BY DEF IInv, FetchOK, CacheFits
<1>3. CASE CachedMatches(b) /\ Deliver(cache.doc, "memory") /\ UNCHANGED cache
  <2>1. Published(cache.doc, cp') /\ cache.doc.bundle = cache.bundle /\ cache.bundle # 0
    BY <1>1, <1>3 DEF CopyOK, CachedMatches
  <2>2. cache.doc.bundle = b \/ backend = "standalone"
    BY <1>2, <1>3, <2>1, BackendsAssumption DEF CachedMatches, URI, IInv, ControlOK
  <2>3. "unkept" \notin gap' => cache.doc = file.doc
    BY <1>3 DEF IInv, DeliveryOK, CachedMatches
  <2>4. cache.doc.seq \in Nat
    BY <1>1, DocTypes
  <2>5. DeliveryOK' /\ poll' \in [signal : Sequences, last : Sequences]
    BY <1>1, <1>3, <2>1, <2>2, <2>3, <2>4, DeliverOK
  <2> QED BY <1>1, <1>2, <1>3, <2>5, DeliverEnds
<1>4. CASE PersistedMatches(b) /\ cache' = [file EXCEPT !.gen = 0] /\ Deliver(file.doc, "disk")
  <2>1. Published(file.doc, cp') /\ file.doc.bundle = file.bundle /\ file.bundle = b
    BY <1>1, <1>4 DEF CopyOK, PersistedMatches
  <2>2. cache' \in Copies /\ cache'.bundle = b /\ cache'.doc = file.doc /\ cache'.gen = 0
    BY <1>1, <1>4, <2>1, Zeros DEF Copies
  <2>3. CopyOK(cache', cp')
    BY <1>1, <2>1, <2>2 DEF CopyOK
  <2>4. file.doc.seq \in Nat
    BY <1>1, DocTypes
  <2>5. DeliveryOK' /\ poll' \in [signal : Sequences, last : Sequences]
    BY <1>1, <1>4, <2>1, <2>2, <2>4, DeliverOK
  <2> QED BY <1>2, <1>4, <2>2, <2>3, <2>5, DeliverEnds
<1>5. CASE FetchError /\ UNCHANGED cache
  <2>1. DeliveryOK' /\ poll' \in [signal : Sequences, last : Sequences]
    BY <1>5, ErrorOK
  <2> QED BY <1>1, <1>2, <1>5, <2>1, FetchErrorEnds
<1> QED BY <1>3, <1>4, <1>5 DEF loadFallbackDesiredState

-----------------------------------------------------------------------------
(* The manager's actions *)

LEMMA ConcludeOK ==
    ASSUME ControlOK, op # NoOp, NEW c, NEW s, StateOK(s, c), Conclude(s)
    PROVE  /\ StateOK(mem', c) /\ Follows(s, mem', c) /\ mem'.gen = s.gen
           /\ op' \in Operations /\ op'.by = op.by /\ op'.pc # "none" /\ op'.goal # "none"
<1>1. mem' \in {s, clearGoogleTokens(s)}
  BY DEF Conclude
<1>2. StateOK(mem', c) /\ Follows(s, mem', c) /\ mem'.gen = s.gen
  BY <1>1, ClearGoogleOK, FollowsSelf
<1>3. CASE op.by = "sync" /\ op' = Enter("sync", "sts", s)
  BY <1>2, <1>3, EnterOK
<1>4. CASE op' = [op EXCEPT !.pc = "save"]
  <2>1. op \in Operations /\ op.goal # "none"
    BY DEF ControlOK
  <2>2. op' \in Operations /\ op'.by = op.by /\ op'.pc = "save" /\ op'.goal = op.goal
    BY <1>4, <2>1 DEF Operations
  <2> QED BY <1>2, <2>1, <2>2
<1> QED BY <1>3, <1>4 DEF Conclude

\* A failed request of an operation, whatever the server did with it.
LEMMA GiveUpStep ==
    ASSUME IInv, NEW lost \in SUBSET {"lost"}, GiveUp(lost), op.pc # "none",
           UNCHANGED quiet, RowOK(cp'), Grows(cp, cp'), faults' \in 0..MaxFaults,
           "lost" \notin lost => cp'.gen = cp.gen
    PROVE  IInv'
<1>1. up /\ op # NoOp /\ op \in Operations /\ op.by # "none"
  BY NoOpOK DEF IInv, ControlOK
<1>2. StateOK(mem, cp') /\ StateOK(disk', cp') /\ UNCHANGED <<backend, disk, file, override, expiries>>
  BY StateGrows DEF IInv, quiet
<1>3. gap \subseteq gap' /\ gap' \subseteq {"lost", "unsaved", "unkept"}
  BY DEF IInv, CountersOK, GiveUp, Unsaved
<1>4. "lost" \notin gap' /\ "unsaved" \notin gap' =>
        "lost" \notin gap /\ "unsaved" \notin gap /\ cp'.gen = cp.gen /\ mem.gen = cp.gen
  <2>1. lost \subseteq gap'
    BY DEF GiveUp
  <2> QED BY <1>1, <1>3, <2>1 DEF IInv, SessionOK
<1>5. CASE Conclude(mem) /\ UNCHANGED <<up, main, cache, poll, delivered>>
  <2>1. /\ StateOK(mem', cp') /\ Follows(mem, mem', cp') /\ mem'.gen = mem.gen
        /\ op' \in Operations /\ op'.by = op.by /\ op'.pc # "none" /\ op'.goal # "none"
    BY <1>1, <1>2, <1>5, ConcludeOK DEF IInv
  <2>2. ControlOK'
    BY <1>1, <1>2, <1>5, <2>1, OperationOK DEF IInv, ControlOK
  <2>3. op' # NoOp
    BY <2>1, NoOpOK
  <2>4. SessionOK' /\ CountersOK'
    BY <1>2, <1>3, <1>4, <1>5, <2>1, <2>3 DEF IInv, SessionOK, CountersOK
  <2> QED BY <1>2, <1>3, <1>5, <2>1, <2>2, <2>4, BesideFetch
<1>6. CASE Exit /\ gap' = gap \cup lost \cup Unsaved /\ UNCHANGED delivered
  <2>1. SessionOK'
    BY <1>2, <1>4, <1>6 DEF SessionOK, Exit, Unsaved
  <2> QED BY <1>2, <1>3, <1>6, <2>1, ExitStep
<1>7. CASE op' = NoOp /\ gap' = gap \cup lost \cup Unsaved
           /\ UNCHANGED <<up, mem, main, cache, poll, delivered>>
  <2>1. SessionOK'
    BY <1>2, <1>4, <1>7 DEF SessionOK, Unsaved
  <2>2. ControlOK'
    BY <1>1, <1>2, <1>7, NoOpOK DEF IInv, ControlOK
  <2>3. CountersOK'
    BY <1>2, <1>3, <1>7 DEF IInv, CountersOK
  <2> QED BY <1>2, <1>3, <1>7, <2>1, <2>2, <2>3, BesideFetch, FollowsSelf
<1>8. CASE op.by = "main" /\ op' = NoOp /\ gap' = gap \cup lost \cup Unsaved
           /\ loadFallbackDesiredState /\ UNCHANGED <<up, mem>>
  <2>1. main.pc = "access"
    BY <1>8 DEF IInv, ControlOK
  <2>2. /\ \E x \in {"idle", "diagnose", "result"} : main' = [Idle EXCEPT !.pc = x]
        /\ CopyOK(cache', cp') /\ (cache'.gen # 0 => cache'.gen <= cache'.doc.seq)
        /\ mem.mode = "assigned" => cache'.bundle <= mem.bundle
        /\ DeliveryOK' /\ poll' \in [signal : Sequences, last : Sequences]
    BY <1>2, <1>3, <1>8, <2>1, FallbackOK
  <2>3. SessionOK'
    BY <1>2, <1>4, <1>8 DEF SessionOK, Unsaved
  <2>4. ControlOK'
    BY <1>1, <1>2, <1>8, NoOpOK DEF IInv, ControlOK
  <2>5. CountersOK'
    BY <1>2, <1>3, <2>2 DEF IInv, CountersOK
  <2> QED BY <1>2, <1>8, <2>2, <2>3, <2>4, <2>5, AtRest
<1> QED BY <1>5, <1>6, <1>7, <1>8 DEF GiveUp

\* An answered rotation or registration.
LEMMA ProceedStep ==
    ASSUME IInv, op.pc # "none", RowOK(cp'), Grows(cp, cp'), Proceed(TakeTokens(mem, cp')),
           UNCHANGED <<quiet, faults>>
    PROVE  IInv'
<1>1. up /\ op # NoOp /\ op \in Operations /\ op.by # "none" /\ op.goal # "none"
  BY NoOpOK DEF IInv, ControlOK
<1>2. /\ StateOK(mem', cp') /\ Follows(mem, mem', cp') /\ mem'.gen = cp'.gen
      /\ StateOK(disk', cp')
  BY TakeTokensOK, StateGrows DEF IInv, Proceed, quiet
<1>3. op' \in Operations /\ op'.by = op.by /\ op'.pc # "none" /\ op'.goal = op.goal
  BY <1>1 DEF Proceed, Operations
<1>4. ControlOK'
  BY <1>1, <1>3, OperationOK DEF IInv, ControlOK, Proceed, quiet
<1>5. SessionOK' /\ CountersOK'
  BY <1>2, <1>3, NoOpOK, <1>1 DEF IInv, SessionOK, CountersOK, Proceed, quiet
<1> QED BY <1>2, <1>4, <1>5, BesideFetch DEF Proceed, quiet

LEMMA RefreshRefusedStep ==
    ASSUME IInv, RefreshRefused
    PROVE  IInv'
<1>1. up /\ op # NoOp /\ op \in Operations /\ op.by # "none" /\ op.goal # "none"
  BY NoOpOK DEF IInv, ControlOK, RefreshRefused
<1>2. op' \in Operations /\ op'.by = op.by /\ op'.pc = "bootstrap" /\ op'.goal = op.goal
  BY <1>1 DEF RefreshRefused, Operations
<1>3. ControlOK'
  BY <1>1, <1>2, OperationOK DEF IInv, ControlOK, RefreshRefused, quiet
<1>4. SessionOK' /\ CountersOK'
  BY <1>1, <1>2, NoOpOK DEF IInv, SessionOK, CountersOK, RefreshRefused, quiet
<1>5. RowOK(cp') /\ Grows(cp, cp') /\ StateOK(mem', cp') /\ StateOK(disk', cp')
  BY GrowsReflexive DEF IInv, RefreshRefused, quiet
<1> QED BY <1>3, <1>4, <1>5, BesideFetch, FollowsSelf DEF RefreshRefused, quiet

LEMMA RefreshControlPlaneStep ==
    ASSUME IInv, RefreshControlPlane
    PROVE  IInv'
<1>1. RowOK(cp') /\ Grows(cp, cp')
  BY RotationOK DEF IInv, RefreshControlPlane
<1> QED BY <1>1, ProceedStep DEF RefreshControlPlane, NoFault

LEMMA BootstrapAnsweredStep ==
    ASSUME IInv, BootstrapAnswered
    PROVE  IInv'
<1>1. RowOK(cp') /\ Grows(cp, cp')
  BY OutcomesOK DEF IInv, BootstrapAnswered
<1> QED BY <1>1, ProceedStep DEF BootstrapAnswered, NoFault

LEMMA AnswerLostStep ==
    ASSUME IInv, AnswerLost
    PROVE  IInv'
<1>1. RowOK(cp') /\ Grows(cp, cp')
  BY RotationOK, OutcomesOK DEF IInv, AnswerLost
<1>2. faults' \in 0..MaxFaults
  BY FaultOK DEF IInv, CountersOK, AnswerLost
<1> QED BY <1>1, <1>2, GiveUpStep DEF AnswerLost

\* Requests that changed nothing at the server.
LEMMA RefusedStep ==
    ASSUME IInv, BootstrapRefused \/ Unreachable \/ AssignmentRefused \/ ExchangeRefused
    PROVE  IInv'
<1>1. /\ op.pc # "none" /\ GiveUp({}) /\ UNCHANGED <<quiet, cp>>
      /\ NoFault \/ Fault
  BY DEF BootstrapRefused, Unreachable, AssignmentRefused, ExchangeRefused
<1>2. RowOK(cp') /\ Grows(cp, cp')
  BY <1>1, GrowsReflexive DEF IInv
<1>3. faults' \in 0..MaxFaults
  BY <1>1, FaultOK DEF IInv, CountersOK, NoFault
<1> QED BY <1>1, <1>2, <1>3, GiveUpStep

LEMMA FetchAssignmentStep ==
    ASSUME IInv, FetchAssignment
    PROVE  IInv'
<1>1. up /\ op # NoOp /\ op.by # "none"
  BY NoOpOK DEF IInv, ControlOK, FetchAssignment
<1> DEFINE s == applyAssignment(mem, cp)
<1>2. StateOK(s, cp) /\ Follows(mem, s, cp) /\ s.gen = mem.gen
  BY AssignmentOK DEF IInv
<1>3. Conclude(s) /\ ControlOK
  BY DEF FetchAssignment, IInv
<1> HIDE DEF s
<1>4. /\ StateOK(mem', cp) /\ Follows(s, mem', cp) /\ mem'.gen = s.gen
      /\ op' \in Operations /\ op'.by = op.by /\ op'.pc # "none" /\ op'.goal # "none"
  BY <1>1, <1>2, <1>3, ConcludeOK
<1>5. Follows(mem, mem', cp)
  BY <1>2, <1>4 DEF Follows
<1>6. ControlOK'
  BY <1>1, <1>4, OperationOK DEF IInv, ControlOK, FetchAssignment, quiet
<1>7. SessionOK' /\ CountersOK'
  BY <1>1, <1>2, <1>4, NoOpOK DEF IInv, SessionOK, CountersOK, FetchAssignment, quiet
<1>8. RowOK(cp') /\ Grows(cp, cp') /\ StateOK(disk', cp') /\ cp' = cp
  BY GrowsReflexive DEF IInv, FetchAssignment, quiet
<1> QED BY <1>4, <1>5, <1>6, <1>7, <1>8, BesideFetch DEF FetchAssignment, quiet

LEMMA ExchangeTokensStep ==
    ASSUME IInv, ExchangeTokens
    PROVE  IInv'
<1>1. up /\ op # NoOp /\ op \in Operations /\ op.by # "none" /\ op.goal # "none"
  BY NoOpOK DEF IInv, ControlOK, ExchangeTokens
<1>2. mem \in States /\ cp \in NodeRows /\ cp.bundle = cp.last /\ cp.bundle \in 0..MaxBundles
  BY DEF IInv, StateOK, RowOK, ExchangeTokens, NodeRows
<1>3. mem' = [mem EXCEPT !.google = cp.bundle, !.fresh = TRUE]
  BY DEF ExchangeTokens
<1>4. mem' \in States
  BY <1>2, <1>3 DEF States
<1>5. /\ mem'.gen = mem.gen /\ mem'.bundle = mem.bundle /\ mem'.mode = mem.mode
      /\ mem'.inline = mem.inline /\ mem'.floor = mem.floor /\ mem'.google = cp.bundle
  BY <1>2, <1>3 DEF States
<1>6. StateOK(mem', cp) /\ Follows(mem, mem', cp)
  BY <1>2, <1>4, <1>5, StateTypes, RowTypes DEF IInv, StateOK, Follows
<1>7. op' \in Operations /\ op'.by = op.by /\ op'.pc = "save" /\ op'.goal = op.goal
  BY <1>1 DEF ExchangeTokens, Operations
<1>8. ControlOK'
  BY <1>1, <1>7, OperationOK DEF IInv, ControlOK, ExchangeTokens, quiet
<1>9. SessionOK' /\ CountersOK'
  BY <1>1, <1>5, <1>7, NoOpOK DEF IInv, SessionOK, CountersOK, ExchangeTokens, quiet
<1>10. RowOK(cp') /\ Grows(cp, cp') /\ StateOK(disk', cp') /\ cp' = cp
  BY GrowsReflexive DEF IInv, ExchangeTokens, quiet
<1> QED BY <1>6, <1>8, <1>9, <1>10, BesideFetch DEF ExchangeTokens, quiet

-----------------------------------------------------------------------------
(* The steps of a fetch *)

\* The fetch goes on; its locator and the cache stay.
LEMMA FetchMoves ==
    ASSUME IInv, UNCHANGED <<backend, cp, cache, file>>,
           FetchOK(main', cp), main'.snap = main.snap,
           main'.pc \in {"access", "source", "media"} => main.pc \in {"access", "source", "media"},
           StateOK(mem', cp), Follows(mem, mem', cp), StateOK(disk', cp),
           ControlOK', SessionOK', DeliveryOK', CountersOK'
    PROVE  IInv'
<1>1. CopyOK(cache', cp') /\ CopyOK(file', cp') /\ RowOK(cp')
  BY DEF IInv
<1>2. mem'.mode = "assigned" => main.snap.bundle <= mem'.bundle /\ cache.bundle <= mem'.bundle
  BY DEF IInv, CacheFits, Follows, FetchOK, CopyOK
<1>3. CacheFits'
  BY <1>2 DEF IInv, CacheFits, URI
<1> QED BY <1>1, <1>3, Assemble

LEMMA SaveStateStep ==
    ASSUME IInv, saveState
    PROVE  IInv'
<1>1. up /\ op # NoOp /\ RowOK(cp) /\ StateOK(mem', cp') /\ StateOK(disk', cp')
  BY NoOpOK DEF IInv, ControlOK, saveState
<1>2. CountersOK'
  BY DEF IInv, CountersOK, saveState
<1>3. SessionOK'
  BY <1>1 DEF IInv, SessionOK, saveState
<1>4. CASE op.by # "main"
  <2>1. ControlOK'
    BY <1>1, <1>4, NoOpOK DEF IInv, ControlOK, saveState, Resume
  <2> QED BY <1>1, <1>2, <1>3, <1>4, <2>1, BesideFetch, FollowsSelf, GrowsReflexive
          DEF saveState, Resume
<1>5. CASE op.by = "main"
  <2> DEFINE tok == IF backend = "gcs" THEN mem.google ELSE mem.gen
  <2>1. main.pc = "access" /\ main \in Fetches /\ tok \in Nat
    BY <1>5, StateTypes DEF IInv, ControlOK, FetchOK, StateOK
  <2>2. main' = [main EXCEPT !.pc = "source", !.tok = tok]
    BY <1>5 DEF saveState, Resume
  <2> HIDE DEF tok
  <2>3. main' \in Fetches
    BY <2>1, <2>2 DEF Fetches
  <2>4. main'.pc = "source" /\ main'.snap = main.snap
    BY <2>1, <2>2 DEF Fetches
  <2>5. FetchOK(main', cp)
    BY <2>1, <2>3, <2>4 DEF IInv, FetchOK
  <2>6. ControlOK'
    BY <1>1, <2>4, NoOpOK DEF IInv, ControlOK, saveState
  <2>7. DeliveryOK'
    BY <1>1, <2>4, DeliveryFrame DEF IInv, DeliveryOK, saveState
  <2> QED BY <1>1, <1>2, <1>3, <2>1, <2>4, <2>5, <2>6, <2>7, FetchMoves, FollowsSelf DEF saveState
<1> QED BY <1>4, <1>5

LEMMA SaveFailsStep ==
    ASSUME IInv, SaveFails
    PROVE  IInv'
<1>1. up /\ op # NoOp /\ RowOK(cp') /\ Grows(cp, cp') /\ StateOK(mem, cp') /\ StateOK(disk', cp')
  BY NoOpOK, GrowsReflexive DEF IInv, ControlOK, SaveFails, quiet
<1>2. faults' \in 0..MaxFaults
  BY FaultOK DEF IInv, CountersOK, SaveFails
<1>3. gap \subseteq gap' /\ gap' \subseteq {"lost", "unsaved", "unkept"}
  BY DEF IInv, CountersOK, SaveFails, Unsaved
<1>4. /\ UNCHANGED <<backend, cp, disk, file, override, expiries>>
      /\ "unsaved" \notin gap' => mem.gen = disk.gen
  BY DEF SaveFails, quiet, Unsaved
<1>5. CASE Exit /\ UNCHANGED delivered
  <2>1. SessionOK'
    BY <1>1, <1>3, <1>4, <1>5 DEF IInv, SessionOK, Exit
  <2> QED BY <1>1, <1>2, <1>3, <1>4, <1>5, <2>1, ExitStep
<1>6. CASE op' = NoOp /\ UNCHANGED <<up, mem, main, cache, poll, delivered>>
  <2>1. SessionOK'
    BY <1>1, <1>3, <1>4, <1>6 DEF IInv, SessionOK
  <2>2. ControlOK'
    BY <1>1, <1>4, <1>6, NoOpOK DEF IInv, ControlOK
  <2>3. CountersOK'
    BY <1>2, <1>3, <1>4, <1>6 DEF IInv, CountersOK
  <2> QED BY <1>1, <1>3, <1>4, <1>6, <2>1, <2>2, <2>3, BesideFetch, FollowsSelf
<1>7. CASE op.by = "main" /\ op' = NoOp /\ loadFallbackDesiredState /\ UNCHANGED <<up, mem>>
  <2>1. main.pc = "access"
    BY <1>7 DEF IInv, ControlOK
  <2>2. /\ \E x \in {"idle", "diagnose", "result"} : main' = [Idle EXCEPT !.pc = x]
        /\ CopyOK(cache', cp') /\ (cache'.gen # 0 => cache'.gen <= cache'.doc.seq)
        /\ mem.mode = "assigned" => cache'.bundle <= mem.bundle
        /\ DeliveryOK' /\ poll' \in [signal : Sequences, last : Sequences]
    BY <1>1, <1>3, <1>4, <1>7, <2>1, FallbackOK
  <2>3. SessionOK'
    BY <1>1, <1>3, <1>4, <1>7 DEF IInv, SessionOK
  <2>4. ControlOK'
    BY <1>1, <1>4, <1>7, NoOpOK DEF IInv, ControlOK
  <2>5. CountersOK'
    BY <1>2, <1>3, <1>4, <2>2 DEF IInv, CountersOK
  <2> QED BY <1>1, <1>4, <1>7, <2>2, <2>3, <2>4, <2>5, AtRest
<1> QED BY <1>5, <1>6, <1>7 DEF SaveFails

\* A fetch that ends and changes nothing but what it delivers and keeps.
LEMMA FetchEnds ==
    ASSUME IInv, UNCHANGED <<backend, cp, up, mem, disk, op, override, expiries, file>>,
           op.by # "main", gap' = gap, faults' \in 0..MaxFaults, up,
           \E x \in {"idle", "diagnose", "result"} : main' = [Idle EXCEPT !.pc = x],
           CopyOK(cache', cp), cache'.gen # 0 => cache'.gen <= cache'.doc.seq,
           mem.mode = "assigned" => cache'.bundle <= mem.bundle,
           DeliveryOK', poll' \in [signal : Sequences, last : Sequences]
    PROVE  IInv'
<1>1. RowOK(cp') /\ Grows(cp, cp') /\ StateOK(mem', cp') /\ StateOK(disk', cp')
  BY GrowsReflexive DEF IInv
<1>2. ControlOK' /\ SessionOK' /\ CountersOK'
  BY DEF IInv, ControlOK, SessionOK, CountersOK
<1> QED BY <1>1, <1>2, AtRest

\* The main loop's own steps: no operation of its is under way.
LEMMA OwnStep ==
    ASSUME IInv, main.pc \notin {"idle", "access"}
    PROVE  up /\ op.by # "main" /\ cp \in NodeRows /\ RowOK(cp) /\ main \in Fetches
<1>1. Idle.pc = "idle"
  BY DEF Idle
<1> QED BY <1>1 DEF IInv, ControlOK, RowOK, FetchOK

LEMMA FetchOverrideStep ==
    ASSUME IInv, FetchOverride
    PROVE  IInv'
<1>1. op.by # "main" /\ up /\ RowOK(cp') /\ Grows(cp, cp')
  BY GrowsReflexive DEF IInv, ControlOK, FetchOverride, fetching
<1>2. CASE Deliver(NoDoc, "override")
  <2>1. Published(NoDoc, cp')
    BY Zeros DEF Published
  <2>2. "unkept" \notin gap' => cache'.doc \in {NoDoc, file'.doc}
    BY DEF IInv, DeliveryOK, FetchOverride, fetching
  <2>3. DeliveryOK' /\ poll' \in [signal : Sequences, last : Sequences]
    BY <1>2, <2>1, <2>2, DeliverOK, Zeros DEF FetchOverride, fetching
  <2> QED BY <1>1, <1>2, <2>3, DeliverEnds, FetchEnds
          DEF IInv, CacheFits, CountersOK, FetchOverride, fetching
<1>3. CASE FetchError
  <2>1. DeliveryOK' /\ poll' \in [signal : Sequences, last : Sequences]
    BY <1>1, <1>3, ErrorOK DEF FetchOverride, fetching
  <2> QED BY <1>1, <1>3, <2>1, FetchErrorEnds, FetchEnds
          DEF IInv, CacheFits, CountersOK, FetchOverride, fetching
<1> QED BY <1>2, <1>3 DEF FetchOverride

LEMMA SnapshotOK ==
    ASSUME NEW s \in States
    PROVE  /\ Snapshot(s) \in Snapshots /\ Snapshot(s).bundle = s.bundle
           /\ Snapshot(s).mode = s.mode /\ Snapshot(s).node = s.node
           /\ Snapshot(s).inline = s.inline /\ Snapshot(s).floor = s.floor
BY DEF Snapshot, Snapshots, States

LEMMA FetchBeginStep ==
    ASSUME IInv, FetchBegin
    PROVE  IInv'
<1>1. /\ RowOK(cp') /\ Grows(cp, cp') /\ StateOK(mem', cp') /\ StateOK(disk', cp')
      /\ CopyOK(file', cp') /\ mem \in States /\ cp \in NodeRows
  BY GrowsReflexive DEF IInv, FetchBegin, fetching, StateOK, RowOK
<1>2. up /\ op = NoOp /\ SessionOK' /\ CountersOK'
  BY DEF IInv, SessionOK, CountersOK, FetchBegin, fetching
<1>3. ControlOK'
  BY <1>2, NoOpOK DEF IInv, ControlOK, FetchBegin, fetching
<1>4. mem.inline \in Docs /\ mem.inline.bundle = 0 /\ mem.bundle <= cp.last
      /\ (mem.bundle # 0 <=> mem.mode = "assigned")
  BY <1>1, StateTypes DEF IInv, StateOK
<1>5. CASE mem.mode = "unassigned" /\ cache' = NoCache
           /\ main' = [Idle EXCEPT !.pc = "parse", !.snap = Snapshot(mem), !.doc = mem.inline]
  <2>1. main' = [pc |-> "parse", snap |-> Snapshot(mem), tok |-> 0, gen |-> 0, doc |-> mem.inline]
    BY <1>5 DEF Idle
  <2>2. /\ main' \in Fetches /\ main'.pc = "parse" /\ main'.doc = mem.inline
        /\ main'.snap = Snapshot(mem) /\ main'.snap.bundle = mem.bundle /\ main'.snap.mode = mem.mode
    BY <1>1, <1>4, <2>1, SnapshotOK, Zeros DEF Fetches
  <2>3. FetchOK(main', cp')
    BY <1>4, <1>5, <2>2, StateTypes, <1>1 DEF FetchOK, Published, FetchBegin, fetching
  <2>4. CopyOK(cache', cp') /\ cache'.doc = NoDoc /\ cache'.gen = 0
    BY <1>1, <1>5, NoCacheOK
  <2>5. CacheFits'
    BY <1>5, <2>2, <2>4 DEF CacheFits, FetchBegin, fetching
  <2>6. DeliveryOK'
    <3>1. OwnDocument' /\ Published(delivered.doc, cp)'
      BY DEF IInv, DeliveryOK, OwnDocument, Published, FetchBegin, fetching
    <3> QED BY <1>4, <2>2, <2>4, <3>1 DEF IInv, DeliveryOK, FetchBegin, fetching
  <2> QED BY <1>1, <1>2, <1>3, <2>3, <2>4, <2>5, <2>6, Assemble DEF FetchBegin, fetching
<1>6. CASE /\ mem.mode = "assigned"
           /\ main' = [Idle EXCEPT !.pc = "access", !.snap = Snapshot(mem)]
           /\ cache' = IF URI(cache.bundle) = URI(mem.bundle) THEN cache
                       ELSE [NoCache EXCEPT !.bundle = mem.bundle]
  <2>1. main' = [pc |-> "access", snap |-> Snapshot(mem), tok |-> 0, gen |-> 0, doc |-> NoDoc]
    BY <1>6 DEF Idle
  <2>2. /\ main' \in Fetches /\ main'.pc = "access"
        /\ main'.snap = Snapshot(mem) /\ main'.snap.bundle = mem.bundle /\ main'.snap.mode = mem.mode
    BY <1>1, <2>1, SnapshotOK, Zeros DEF Fetches
  <2>3. FetchOK(main', cp')
    BY <1>4, <1>6, <2>2 DEF FetchOK, FetchBegin, fetching
  <2>4. mem.bundle \in 0..MaxBundles /\ mem.bundle \in Nat
    BY <1>1, StateTypes DEF States
  <2>5. /\ CopyOK(cache', cp') /\ cache'.doc \in {cache.doc, NoDoc}
        /\ cache'.gen # 0 => cache'.gen <= cache'.doc.seq
        /\ URI(cache'.bundle) = URI(mem.bundle) /\ cache'.bundle <= mem.bundle
    <3>1. CASE cache' = cache /\ URI(cache.bundle) = URI(mem.bundle)
      BY <1>6, <3>1 DEF IInv, CacheFits, FetchBegin, fetching
    <3>2. CASE cache' = [NoCache EXCEPT !.bundle = mem.bundle]
      <4>1. cache' = [bundle |-> mem.bundle, doc |-> NoDoc, gen |-> 0]
        BY <3>2 DEF NoCache
      <4>2. /\ cache' \in Copies /\ cache'.bundle = mem.bundle /\ cache'.doc = NoDoc
            /\ cache'.gen = 0
        BY <2>4, <4>1, Zeros DEF Copies
      <4>3. CopyOK(cache', cp')
        BY <1>4, <4>2, Zeros DEF CopyOK, Published, FetchBegin, fetching
      <4> QED BY <2>4, <4>2, <4>3
    <3> QED BY <1>6, <3>1, <3>2
  <2>6. CacheFits'
    BY <2>2, <2>4, <2>5 DEF CacheFits, URI, FetchBegin, fetching
  <2>7. DeliveryOK'
    BY <1>1, <2>2, <2>5, DeliveredGrows, DeliveryFrame DEF IInv, FetchBegin, fetching
  <2> QED BY <1>1, <1>2, <1>3, <2>3, <2>5, <2>6, <2>7, Assemble DEF FetchBegin, fetching
<1> QED BY <1>5, <1>6 DEF FetchBegin

LEMMA FetchAccessStep ==
    ASSUME IInv, FetchAccess
    PROVE  IInv'
<1>1. /\ up /\ op = NoOp /\ op.by # "main" /\ main.pc = "access"
      /\ UNCHANGED <<backend, cp, up, mem, disk, file, override, gap, faults, expiries>>
  BY NoOpOK DEF FetchAccess
<1>2. RowOK(cp') /\ Grows(cp, cp') /\ StateOK(mem', cp') /\ StateOK(disk', cp')
  BY <1>1, GrowsReflexive DEF IInv
<1>3. CASE loadFallbackDesiredState /\ UNCHANGED op
  <2>1. /\ \E x \in {"idle", "diagnose", "result"} : main' = [Idle EXCEPT !.pc = x]
        /\ CopyOK(cache', cp') /\ (cache'.gen # 0 => cache'.gen <= cache'.doc.seq)
        /\ mem.mode = "assigned" => cache'.bundle <= mem.bundle
        /\ DeliveryOK' /\ poll' \in [signal : Sequences, last : Sequences]
    BY <1>1, <1>2, <1>3, FallbackOK
  <2> QED BY <1>1, <1>3, <2>1, FetchEnds DEF IInv, CountersOK
<1>4. CASE /\ \/ op' = [by |-> "main", goal |-> "sts", pc |-> "save"]
              \/ op' = Enter("main", "sts", mem)
              \/ op' = Enter("main", "save", mem)
           /\ UNCHANGED <<main, cache, poll, delivered>>
  <2>1. op' \in Operations /\ op'.by = "main" /\ op'.pc # "none" /\ op'.goal # "none" /\ op' # NoOp
    <3>1. CASE op' = [by |-> "main", goal |-> "sts", pc |-> "save"]
      BY <3>1 DEF Operations, NoOp
    <3>2. CASE op' = Enter("main", "sts", mem) \/ op' = Enter("main", "save", mem)
      BY <3>2, EnterOK
    <3> QED BY <1>4, <3>1, <3>2
  <2>2. ControlOK'
    BY <1>1, <1>4, <2>1, OperationOK DEF IInv
  <2>3. SessionOK' /\ CountersOK'
    BY <1>1, <1>4, <2>1 DEF IInv, SessionOK, CountersOK
  <2> QED BY <1>1, <1>2, <1>4, <2>2, <2>3, BesideFetch, FollowsSelf
<1> QED BY <1>3, <1>4 DEF FetchAccess

LEMMA ServeCachedStep ==
    ASSUME IInv, ServeCached, main.pc = "source", UNCHANGED <<fetching, cache, file, faults>>,
           cache.doc # NoDoc, cache.doc.bundle = main.snap.bundle
    PROVE  IInv'
<1>1. up /\ op.by # "main" /\ RowOK(cp') /\ Grows(cp, cp')
  BY OwnStep, GrowsReflexive DEF IInv, fetching
<1>2. CASE Deliver(cache.doc, "source")
  <2>1. Published(cache.doc, cp') /\ cache.doc \in Docs
    BY CopyTypes DEF IInv, CopyOK, fetching
  <2>2. "unkept" \notin gap' => cache'.doc = file'.doc
    BY DEF IInv, DeliveryOK, fetching
  <2>3. cache.doc.seq \in Nat
    BY <2>1, DocTypes
  <2>4. DeliveryOK' /\ poll' \in [signal : Sequences, last : Sequences]
    BY <1>2, <2>1, <2>2, <2>3, DeliverOK DEF fetching
  <2> QED BY <1>1, <1>2, <2>4, DeliverEnds, FetchEnds DEF IInv, CacheFits, CountersOK, fetching
<1>3. CASE FetchError
  <2>1. DeliveryOK' /\ poll' \in [signal : Sequences, last : Sequences]
    BY <1>1, <1>3, ErrorOK DEF fetching
  <2> QED BY <1>1, <1>3, <2>1, FetchErrorEnds, FetchEnds DEF IInv, CacheFits, CountersOK, fetching
<1> QED BY <1>2, <1>3 DEF ServeCached

\* A step of the fetch that reads something.
LEMMA ReadStep ==
    ASSUME IInv, UNCHANGED <<fetching, cache, file, faults, poll, delivered>>,
           main.pc \in {"source", "media"}, main'.pc \in {"media", "parse"},
           main'.snap = main.snap, FetchOK(main', cp),
           main'.pc = "parse" /\ delivered.doc.bundle # 0 /\ main'.doc.bundle = delivered.doc.bundle
             => main'.doc.seq >= delivered.doc.seq
    PROVE  IInv'
<1>1. StateOK(mem', cp) /\ StateOK(disk', cp) /\ Follows(mem, mem', cp)
  BY FollowsSelf DEF IInv, fetching
<1>2. up /\ op.by # "main"
  BY OwnStep
<1>3. ControlOK' /\ SessionOK' /\ CountersOK'
  BY <1>2 DEF IInv, ControlOK, SessionOK, CountersOK, fetching
<1>4. OwnDocument' /\ Published(delivered.doc, cp)'
  BY DEF IInv, DeliveryOK, OwnDocument, Published, fetching
<1>5. DeliveryOK'
  BY <1>4 DEF IInv, DeliveryOK, fetching
<1> QED BY <1>1, <1>3, <1>5, FetchMoves DEF fetching

LEMMA ReadMetadataStep ==
    ASSUME IInv, ReadMetadata
    PROVE  IInv'
<1> DEFINE b == main.snap.bundle
           generation == cp.docs[b]
<1>1. /\ main.pc = "source" /\ main \in Fetches /\ b \in Bundles /\ cp \in NodeRows
      /\ generation \in Sequences /\ generation \in Nat
  BY OwnStep, FetchTypes, RowTypes, BoundsNat DEF IInv, FetchOK, ReadMetadata
<1>2. CASE cache.doc # NoDoc /\ ServeCached
  <2>1. cache.doc.bundle = cache.bundle /\ cache.bundle # 0 /\ URI(cache.bundle) = URI(b)
    BY <1>1, <1>2 DEF IInv, CopyOK, CacheFits
  <2>2. cache.doc.bundle = b
    BY <1>1, <2>1 DEF ReadMetadata, URI
  <2> QED BY <1>1, <1>2, <2>2, ServeCachedStep DEF ReadMetadata
<1>3. CASE main' = [main EXCEPT !.pc = "media", !.gen = generation] /\ UNCHANGED <<delivered, poll>>
  <2> HIDE DEF generation
  <2>1. main' \in Fetches
    BY <1>1, <1>3 DEF Fetches
  <2>2. main'.pc = "media" /\ main'.snap = main.snap /\ main'.gen = generation
    BY <1>1, <1>3 DEF Fetches
  <2>3. FetchOK(main', cp)
    BY <1>1, <2>1, <2>2 DEF IInv, FetchOK, ReadMetadata, generation
  <2> QED BY <1>1, <1>3, <2>2, <2>3, ReadStep DEF ReadMetadata
<1> QED BY <1>2, <1>3 DEF ReadMetadata

LEMMA ReadMediaStep ==
    ASSUME IInv, ReadMedia
    PROVE  IInv'
<1> DEFINE b == main.snap.bundle
           doc == [bundle |-> b, seq |-> cp.docs[b], node |-> main.snap.node]
<1>1. /\ main.pc = "media" /\ main \in Fetches /\ b \in Bundles /\ cp \in NodeRows /\ RowOK(cp)
      /\ cp.docs[b] \in Sequences /\ main.gen <= cp.docs[b] /\ b <= cp.last
      /\ backend = "gcs" /\ main.snap.node \in 0..MaxBootstraps
  BY OwnStep, FetchTypes, RowTypes, BoundsNat DEF IInv, FetchOK, ReadMedia, Fetches, Snapshots
<1>2. doc \in Docs /\ doc.bundle = b /\ doc.seq = cp.docs[b]
  BY <1>1, BoundsNat DEF Docs
<1>3. main' = [main EXCEPT !.pc = "parse", !.doc = doc]
  BY DEF ReadMedia
<1> HIDE DEF doc
<1>4. main' \in Fetches
  BY <1>1, <1>2, <1>3 DEF Fetches
<1>5. /\ main'.pc = "parse" /\ main'.snap = main.snap /\ main'.gen = main.gen
      /\ main'.doc = doc
  BY <1>1, <1>3 DEF Fetches
<1>6. Published(doc, cp)
  BY <1>1, <1>2, BoundsNat DEF Published
<1>7. FetchOK(main', cp)
  BY <1>1, <1>2, <1>4, <1>5, <1>6 DEF IInv, FetchOK
<1>8. delivered.doc.bundle # 0 /\ doc.bundle = delivered.doc.bundle => doc.seq >= delivered.doc.seq
  <2>1. delivered.doc \in Docs
    BY DEF IInv, DeliveryOK, Deliveries
  <2> QED BY <1>1, <1>2, <2>1, DocTypes, RowTypes DEF IInv, DeliveryOK, Published
<1> QED BY <1>1, <1>5, <1>7, <1>8, ReadStep DEF ReadMedia

LEMMA ReadHTTPStep ==
    ASSUME IInv, ReadHTTP
    PROVE  IInv'
<1> DEFINE b == main.snap.bundle
           doc == [bundle |-> cp.bundle, seq |-> cp.seq, node |-> cp.node]
<1>1. /\ main.pc = "source" /\ main \in Fetches /\ b # 0 /\ cp \in NodeRows /\ RowOK(cp)
      /\ b <= cp.last /\ b \in Nat /\ backend = "standalone"
  BY OwnStep, FetchTypes DEF IInv, FetchOK, ReadHTTP
<1>2. /\ StandaloneDocument = doc /\ cp.bundle \in Bundles /\ cp.bundle = cp.last
      /\ cp.seq \in Sequences /\ cp.seq \in Nat /\ cp.seq <= cp.docs[cp.bundle] /\ cp.last \in Nat
      /\ cp.node \in 0..MaxBootstraps
  BY <1>1, RowTypes, BoundsNat DEF ReadHTTP, StandaloneDocument, HasTarget, RowOK, NodeRows
<1>3. doc \in Docs /\ doc.bundle = cp.bundle /\ doc.seq = cp.seq /\ doc # NoDoc
  BY <1>2, BoundsNat DEF Docs, NoDoc
<1> HIDE DEF doc
<1>4. CASE cache.doc = doc /\ ServeCached
  <2>1. cache.doc.bundle = cache.bundle /\ cache.bundle <= b
    BY <1>1, <1>3, <1>4 DEF IInv, CopyOK, CacheFits
  <2>2. cache.doc.bundle = b
    BY <1>1, <1>2, <1>3, <1>4, <2>1
  <2> QED BY <1>1, <1>3, <1>4, <2>2, ServeCachedStep DEF ReadHTTP
<1>5. CASE main' = [main EXCEPT !.pc = "parse", !.doc = doc, !.gen = doc.seq] /\ UNCHANGED <<delivered, poll>>
  <2>1. main' \in Fetches
    BY <1>1, <1>2, <1>3, <1>5 DEF Fetches
  <2>2. /\ main'.pc = "parse" /\ main'.snap = main.snap /\ main'.gen = doc.seq /\ main'.doc = doc
    BY <1>1, <1>5 DEF Fetches
  <2>3. Published(doc, cp)
    BY <1>2, <1>3 DEF Published
  <2>4. FetchOK(main', cp)
    BY <1>1, <1>2, <1>3, <2>1, <2>2, <2>3 DEF IInv, FetchOK
  <2>5. delivered.doc.bundle # 0 /\ doc.bundle = delivered.doc.bundle => doc.seq >= delivered.doc.seq
    <3>1. delivered.doc \in Docs
      BY DEF IInv, DeliveryOK, Deliveries
    <3> QED BY <1>1, <1>2, <1>3, <3>1, DocTypes DEF IInv, DeliveryOK, Published
  <2> QED BY <1>1, <1>5, <2>2, <2>4, <2>5, ReadStep DEF ReadHTTP
<1> QED BY <1>2, <1>4, <1>5 DEF ReadHTTP

LEMMA SourceStep ==
    ASSUME IInv, SourceRefused \/ SourceUnavailable
    PROVE  IInv'
<1>1. /\ main.pc \in {"source", "media"} /\ loadFallbackDesiredState /\ UNCHANGED <<fetching, file>>
      /\ UNCHANGED faults \/ Fault
  BY DEF SourceRefused, SourceUnavailable
<1>2. faults' \in 0..MaxFaults
  BY <1>1, FaultOK DEF IInv, CountersOK
<1>3. up /\ op.by # "main" /\ RowOK(cp') /\ Grows(cp, cp')
  BY <1>1, OwnStep, GrowsReflexive DEF IInv, fetching
<1>4. /\ \E x \in {"idle", "diagnose", "result"} : main' = [Idle EXCEPT !.pc = x]
      /\ CopyOK(cache', cp') /\ (cache'.gen # 0 => cache'.gen <= cache'.doc.seq)
      /\ mem.mode = "assigned" => cache'.bundle <= mem.bundle
      /\ DeliveryOK' /\ poll' \in [signal : Sequences, last : Sequences]
  BY <1>1, <1>3, FallbackOK DEF fetching
<1> QED BY <1>1, <1>2, <1>3, <1>4, FetchEnds DEF fetching

LEMMA VerifyStep ==
    ASSUME IInv, VerifyFails \/ ParseRefused
    PROVE  IInv'
<1>1. /\ main.pc = "parse" /\ FetchError /\ UNCHANGED <<fetching, cache, file>>
      /\ UNCHANGED faults \/ Fault
  BY DEF VerifyFails, ParseRefused
<1>2. faults' \in 0..MaxFaults
  BY <1>1, FaultOK DEF IInv, CountersOK
<1>3. up /\ op.by # "main" /\ RowOK(cp') /\ Grows(cp, cp')
  BY <1>1, OwnStep, GrowsReflexive DEF IInv, fetching
<1>4. DeliveryOK' /\ poll' \in [signal : Sequences, last : Sequences]
  BY <1>1, <1>3, ErrorOK DEF fetching
<1> QED BY <1>1, <1>2, <1>3, <1>4, FetchErrorEnds, FetchEnds DEF IInv, CacheFits, fetching

\* A sequence is recorded for the target of the snapshot only.
LEMMA RaisedOK ==
    ASSUME IInv, main.pc = "parse", Acceptable(main.snap, main.doc), SnapshotMatches(main.snap),
           NEW s, s = [mem EXCEPT !.floor = main.doc.seq]
    PROVE  StateOK(s, cp) /\ Follows(mem, s, cp) /\ s.gen = mem.gen
<1>1. mem \in States /\ main \in Fetches /\ cp \in NodeRows /\ main.doc \in Docs
  BY OwnStep, FetchTypes DEF IInv, StateOK
<1>2. main.doc.seq \in Sequences
  BY <1>1, DocTypes
<1>3. s \in States
  BY <1>1, <1>2 DEF States
<1>4. /\ s.gen = mem.gen /\ s.bundle = mem.bundle /\ s.mode = mem.mode
      /\ s.inline = mem.inline /\ s.floor = main.doc.seq /\ s.google = mem.google
  BY <1>1 DEF States
<1>5. s.mode = "assigned" => s.floor <= cp.docs[s.bundle]
  <2> SUFFICES ASSUME mem.mode = "assigned" PROVE main.doc.seq <= cp.docs[mem.bundle]
    BY <1>4
  <2>1. mem.bundle # 0 /\ main.snap.bundle = mem.bundle
    BY DEF IInv, StateOK, SnapshotMatches
  <2>2. main.doc.bundle = mem.bundle
    BY <2>1 DEF Acceptable
  <2> QED BY <2>1, <2>2 DEF IInv, FetchOK, Published
<1> QED BY <1>3, <1>4, <1>5 DEF IInv, StateOK, Follows

LEMMA RecordSequenceFloorStep ==
    ASSUME IInv, RecordSequenceFloor
    PROVE  IInv'
<1> DEFINE s == [mem EXCEPT !.floor = main.doc.seq]
<1>1. main.pc = "parse" /\ Acceptable(main.snap, main.doc) /\ op = NoOp
  BY DEF RecordSequenceFloor
<1>2. up /\ main \in Fetches
  BY <1>1, OwnStep
<1>3. (mem' = s /\ disk' = s /\ SnapshotMatches(main.snap)) \/ UNCHANGED <<mem, disk>>
  BY DEF RecordSequenceFloor
<1>4. /\ StateOK(mem', cp) /\ StateOK(disk', cp) /\ Follows(mem, mem', cp)
      /\ mem'.gen = mem.gen /\ disk'.gen \in {mem.gen, disk.gen}
  <2>1. CASE mem' = s /\ disk' = s /\ SnapshotMatches(main.snap)
    BY <1>1, <2>1, RaisedOK
  <2>2. CASE UNCHANGED <<mem, disk>>
    BY <2>2, FollowsSelf DEF IInv
  <2> QED BY <1>3, <2>1, <2>2
<1>5. main' = [main EXCEPT !.pc = "keep"]
  BY DEF RecordSequenceFloor
<1>6. main' \in Fetches
  BY <1>2, <1>5 DEF Fetches
<1>7. main'.pc = "keep" /\ main'.snap = main.snap /\ main'.doc = main.doc /\ main'.gen = main.gen
  BY <1>2, <1>5 DEF Fetches
<1>8. main.doc.bundle = main.snap.bundle
  BY <1>1 DEF Acceptable, IInv, FetchOK
<1>9. FetchOK(main', cp)
  BY <1>1, <1>6, <1>7, <1>8 DEF IInv, FetchOK
<1>10. ControlOK'
  BY <1>2, <1>7, NoOpOK DEF IInv, ControlOK, RecordSequenceFloor
<1>11. SessionOK' /\ CountersOK'
  BY <1>1, <1>2, <1>4 DEF IInv, SessionOK, CountersOK, RecordSequenceFloor
<1>12. DeliveryOK'
  <2>1. Published(delivered.doc, cp')
    BY DEF IInv, DeliveryOK, RecordSequenceFloor
  <2> QED BY <1>1, <1>7, <2>1, DeliveryFrame DEF IInv, RecordSequenceFloor
<1> QED BY <1>4, <1>7, <1>9, <1>10, <1>11, <1>12, FetchMoves DEF RecordSequenceFloor

LEMMA RecordFailsStep ==
    ASSUME IInv, RecordFails
    PROVE  IInv'
<1> DEFINE s == [mem EXCEPT !.floor = main.doc.seq]
<1>1. main.pc = "parse" /\ Acceptable(main.snap, main.doc) /\ op = NoOp /\ SnapshotMatches(main.snap)
  BY DEF RecordFails
<1>2. up /\ RowOK(cp') /\ Grows(cp, cp') /\ StateOK(disk', cp') /\ CopyOK(cache', cp')
      /\ (cache'.gen # 0 => cache'.gen <= cache'.doc.seq)
  BY <1>1, OwnStep, GrowsReflexive DEF IInv, CacheFits, RecordFails
<1>3. mem' = s
  BY DEF RecordFails
<1>4. StateOK(mem', cp') /\ mem'.gen = mem.gen
  BY <1>1, <1>3, RaisedOK DEF RecordFails
<1>5. mem'.bundle = mem.bundle /\ mem'.mode = mem.mode
  BY <1>3 DEF IInv, StateOK, States
<1>6. mem'.mode = "assigned" => cache'.bundle <= mem'.bundle
  BY <1>5 DEF IInv, CacheFits, RecordFails
<1>7. DeliveryOK' /\ poll' \in [signal : Sequences, last : Sequences]
  BY <1>2, ErrorOK DEF RecordFails
<1>8. faults' \in 0..MaxFaults
  BY FaultOK DEF IInv, CountersOK, RecordFails
<1>9. ControlOK' /\ SessionOK' /\ CountersOK'
  BY <1>1, <1>2, <1>4, <1>7, <1>8, NoOpOK DEF IInv, ControlOK, SessionOK, CountersOK, RecordFails
<1> QED BY <1>2, <1>4, <1>6, <1>7, <1>9, FetchErrorEnds, AtRest DEF RecordFails

LEMMA KeptOK ==
    ASSUME IInv, main.pc = "keep", main.snap.bundle # 0
    PROVE  /\ CopyOK(Kept, cp) /\ Kept.doc = main.doc /\ Kept.gen <= Kept.doc.seq
           /\ mem.mode = "assigned" => Kept.bundle <= mem.bundle
<1>1. main \in Fetches /\ main.doc \in Docs /\ main.snap.bundle \in 0..MaxBundles
      /\ main.gen \in Sequences
  BY OwnStep, FetchTypes DEF Fetches, Snapshots
<1>2. Kept \in Copies /\ Kept.bundle = main.snap.bundle /\ Kept.doc = main.doc /\ Kept.gen = main.gen
  BY <1>1 DEF Kept, Copies
<1>3. /\ Published(main.doc, cp) /\ main.gen <= main.doc.seq /\ main.doc.bundle = main.snap.bundle
      /\ main.snap.bundle <= cp.last
  BY DEF IInv, FetchOK
<1>4. CopyOK(Kept, cp)
  BY <1>2, <1>3 DEF CopyOK
<1> QED BY <1>2, <1>3, <1>4 DEF IInv, CacheFits

LEMMA KeepDocumentStep ==
    ASSUME IInv, KeepDocument
    PROVE  IInv'
<1>1. main.pc = "keep" /\ UNCHANGED fetching /\ UNCHANGED faults
  BY DEF KeepDocument
<1>2. /\ up /\ op.by # "main" /\ RowOK(cp') /\ Grows(cp, cp') /\ StateOK(mem', cp')
      /\ StateOK(disk', cp') /\ main \in Fetches /\ main.doc \in Docs
  BY <1>1, OwnStep, FetchTypes, GrowsReflexive DEF IInv, fetching
<1>3. Published(main.doc, cp') /\ main.doc.bundle = main.snap.bundle /\ main.doc.seq \in Nat
  BY <1>1, <1>2, DocTypes DEF IInv, FetchOK, fetching
<1>4. CASE main.snap.bundle = 0 /\ Deliver(main.doc, "inline") /\ UNCHANGED <<cache, file>>
  <2>1. "unkept" \notin gap' => cache'.doc \in {NoDoc, file'.doc}
    BY <1>1, <1>4 DEF IInv, DeliveryOK, fetching
  <2>2. DeliveryOK' /\ poll' \in [signal : Sequences, last : Sequences]
    BY <1>1, <1>2, <1>3, <1>4, <2>1, DeliverOK DEF fetching
  <2> QED BY <1>1, <1>2, <1>4, <2>2, DeliverEnds, FetchEnds
          DEF IInv, CacheFits, CountersOK, fetching
<1>5. CASE main.snap.bundle # 0 /\ Deliver(main.doc, "source") /\ cache' = Kept /\ file' = Kept
  <2>1. /\ CopyOK(cache', cp') /\ CopyOK(file', cp') /\ file'.doc = main.doc /\ cache'.doc = main.doc
        /\ cache'.gen <= cache'.doc.seq /\ (mem.mode = "assigned" => cache'.bundle <= mem.bundle)
    BY <1>1, <1>5, KeptOK DEF fetching
  <2>2. DeliveryOK' /\ poll' \in [signal : Sequences, last : Sequences]
    BY <1>1, <1>2, <1>3, <1>5, <2>1, DeliverOK DEF fetching
  <2>3. ControlOK' /\ SessionOK' /\ CountersOK'
    BY <1>1, <1>2, <2>2 DEF IInv, ControlOK, SessionOK, CountersOK, fetching
  <2> QED BY <1>1, <1>2, <1>5, <2>1, <2>2, <2>3, DeliverEnds, AtRestKeeping DEF fetching
<1> QED BY <1>4, <1>5 DEF KeepDocument

LEMMA KeepFailsStep ==
    ASSUME IInv, KeepFails
    PROVE  IInv'
<1>1. /\ main.pc = "keep" /\ main.snap.bundle # 0 /\ gap' = gap \cup {"unkept"}
      /\ UNCHANGED <<backend, cp, up, mem, disk, op, override, expiries, file>>
  BY DEF KeepFails
<1>2. /\ up /\ op.by # "main" /\ RowOK(cp') /\ Grows(cp, cp') /\ StateOK(mem', cp')
      /\ StateOK(disk', cp') /\ main \in Fetches /\ main.doc \in Docs
  BY <1>1, OwnStep, FetchTypes, GrowsReflexive DEF IInv
<1>3. Published(main.doc, cp') /\ main.doc.bundle = main.snap.bundle
  BY <1>1 DEF IInv, FetchOK
<1>4. /\ CopyOK(cache', cp') /\ cache'.gen <= cache'.doc.seq
      /\ (mem.mode = "assigned" => cache'.bundle <= mem.bundle)
  BY <1>1, KeptOK DEF KeepFails
<1>5. DeliveryOK' /\ poll' \in [signal : Sequences, last : Sequences]
  BY <1>1, <1>2, <1>3, DeliverOK DEF KeepFails
<1>6. faults' \in 0..MaxFaults
  BY FaultOK DEF IInv, CountersOK, KeepFails
<1>7. ControlOK' /\ SessionOK' /\ CountersOK'
  BY <1>1, <1>2, <1>5, <1>6 DEF IInv, ControlOK, SessionOK, CountersOK
<1> QED BY <1>1, <1>2, <1>4, <1>5, <1>7, DeliverEnds, AtRest DEF KeepFails

-----------------------------------------------------------------------------
(* The diagnosis *)

\* A diagnosis step changes at most the request's phase and the poll.
LEMMA DiagnosisFrame ==
    ASSUME IInv, main.pc \in {"diagnose", "result"}, UNCHANGED ranDiagnosis,
           NEW x \in {"idle", "diagnose", "result"}, main' = [Idle EXCEPT !.pc = x],
           NEW diag \in {"none", "pending", "signalled", "claimed", "done"},
           cp' = [cp EXCEPT !.diag = diag],
           poll' \in [signal : Sequences, last : Sequences], faults' \in 0..MaxFaults
    PROVE  IInv'
<1>1. up /\ op.by # "main" /\ cp \in NodeRows /\ RowOK(cp)
  BY OwnStep
<1>2. cp' \in NodeRows
  BY <1>1 DEF NodeRows
<1>3. /\ cp'.node = cp.node /\ cp'.issued = cp.issued /\ cp'.gen = cp.gen /\ cp'.boot = cp.boot
      /\ cp'.bundle = cp.bundle /\ cp'.last = cp.last /\ cp'.seq = cp.seq /\ cp'.docs = cp.docs
  BY <1>1 DEF NodeRows
<1>4. RowOK(cp') /\ Grows(cp, cp')
  <2>1. cp.gen <= cp'.gen /\ (cp'.boot => cp.boot)
    BY <1>1, <1>3, RowTypes
  <2> QED BY <1>1, <1>2, <1>3, <2>1, MarkOK
<1>5. StateOK(mem', cp') /\ StateOK(disk', cp') /\ CopyOK(cache', cp')
  BY <1>4, StateGrows, CopyGrows DEF IInv, ranDiagnosis
<1>6. main'.pc = x
  BY RestPc
<1>7. DeliveryOK'
  BY <1>4, <1>6, DeliveredGrows, DeliveryFrame DEF IInv, ranDiagnosis
<1>8. ControlOK' /\ SessionOK' /\ CountersOK'
  BY <1>1, <1>3 DEF IInv, ControlOK, SessionOK, CountersOK, ranDiagnosis
<1> QED BY <1>4, <1>5, <1>7, <1>8, AtRest DEF IInv, CacheFits, ranDiagnosis

LEMMA DiagnosisStep ==
    ASSUME IInv, Diagnosis
    PROVE  IInv'
<1>1. UNCHANGED ranDiagnosis /\ main.pc \in {"diagnose", "result"}
  BY DEF Diagnosis, DiagnosisSkipped, ClaimDiagnosis, ClaimFails, ReportDiagnosis, ReportFails
<1>2. \E x \in {"idle", "diagnose", "result"} : main' = [Idle EXCEPT !.pc = x]
  BY IdleIsRest
     DEF Diagnosis, DiagnosisSkipped, ClaimDiagnosis, ClaimFails, ReportDiagnosis, ReportFails
<1>3. cp \in NodeRows /\ cp.diag \in {"none", "pending", "signalled", "claimed", "done"}
  BY DEF IInv, RowOK, NodeRows
<1>4. \E diag \in {"none", "pending", "signalled", "claimed", "done"} : cp' = [cp EXCEPT !.diag = diag]
  <2>1. CASE cp' = cp
    <3>1. cp = [cp EXCEPT !.diag = cp.diag]
      BY <1>3 DEF NodeRows
    <3> QED BY <1>3, <2>1, <3>1
  <2>2. CASE cp' = [cp EXCEPT !.diag = "claimed"]
    BY <2>2
  <2>3. CASE cp' = [cp EXCEPT !.diag = IF cp.diag = "claimed" THEN "done" ELSE cp.diag]
    BY <1>3, <2>3
  <2> QED BY <2>1, <2>2, <2>3
      DEF Diagnosis, DiagnosisSkipped, ClaimDiagnosis, ClaimFails, ReportDiagnosis, ReportFails
<1>5. poll' \in [signal : Sequences, last : Sequences]
  BY DEF IInv, CountersOK, Diagnosis, DiagnosisSkipped, ClaimDiagnosis, ClaimFails,
         ReportDiagnosis, ReportFails, recordPoll
<1>6. faults' \in 0..MaxFaults
  BY FaultOK DEF IInv, CountersOK, Diagnosis, DiagnosisSkipped, ClaimDiagnosis, ClaimFails,
                 ReportDiagnosis, ReportFails, NoFault
<1> QED BY <1>1, <1>2, <1>4, <1>5, <1>6, DiagnosisFrame

-----------------------------------------------------------------------------
(* The invariant *)

LEMMA InitOK == Init => IInv
<1> SUFFICES ASSUME Init PROVE IInv
  OBVIOUS
<1>1. RowOK(cp)
  <2>1. cp \in NodeRows
    <3>1. [b \in Bundles |-> 0] \in [Bundles -> Sequences] /\ 1 \in 1..MaxBootstraps
          /\ 0 \in 0..MaxDiagnoses
      BY Zeros, BoundsNat
    <3> QED BY <3>1, Zeros DEF Init, NodeRows
  <2> QED BY <2>1 DEF Init, RowOK
<1>2. StateOK(Blank, cp)
  BY <1>1, BlankOK DEF RowOK
<1>3. FetchOK(Idle, cp) /\ Idle.pc = "idle" /\ Idle.snap.bundle = 0
  BY <1>1, RestOK, IdleIsRest
<1>4. CopyOK(NoCache, cp) /\ NoCache.gen = 0
  BY <1>1, NoCacheOK
<1>5. CacheFits
  BY <1>3, <1>4 DEF Init, CacheFits, Blank
<1>6. ControlOK /\ SessionOK
  BY NoOpOK DEF Init, ControlOK, SessionOK, Blank
<1>7. DeliveryOK /\ CountersOK
  BY Zeros, BoundsNat DEF Init, DeliveryOK, CountersOK, OwnDocument, Published, Deliveries,
     NoCache, Idle
<1> QED BY <1>1, <1>2, <1>3, <1>4, <1>5, <1>6, <1>7 DEF Init, IInv

LEMMA StepOK ==
    ASSUME IInv, [Next]_vars
    PROVE  IInv'
<1>1. CASE ControlPlane
  BY <1>1, AssignStep, PublishDocumentsStep, PersistSequenceStep, UnassignStep, RetireStep,
     EnvelopeExpiresStep, RequestDiagnosisStep DEF ControlPlane
<1>2. CASE Process
  BY <1>2, CrashStep, ReinstallStep, ExpiryStep, OverrideWriteStep DEF Process
<1>3. CASE Start \/ SyncBegin
  BY <1>3, StartStep, SyncBeginStep
<1>4. CASE Manager
  BY <1>4, RefreshRefusedStep, RefreshControlPlaneStep, BootstrapAnsweredStep, AnswerLostStep,
     RefusedStep, FetchAssignmentStep, ExchangeTokensStep, SaveStateStep, SaveFailsStep
     DEF Manager
<1>5. CASE Fetch
  BY <1>5, FetchOverrideStep, FetchBeginStep, FetchAccessStep, ReadMetadataStep, ReadMediaStep,
     ReadHTTPStep, SourceStep, VerifyStep, RecordSequenceFloorStep, RecordFailsStep,
     KeepDocumentStep, KeepFailsStep DEF Fetch, KeyUnavailable, SecretUnavailable
<1>6. CASE Diagnosis
  BY <1>6, DiagnosisStep
<1>7. CASE UNCHANGED vars
  BY <1>7 DEF vars, IInv, RowOK, StateOK, FetchOK, CopyOK, Published, CacheFits, ControlOK,
     SessionOK, DeliveryOK, CountersOK, OwnDocument, URI, HasTarget
<1> QED BY <1>1, <1>2, <1>3, <1>4, <1>5, <1>6, <1>7 DEF Next

(* The relation between what the agent took over and the control plane's   *)
(* row survives every interleaving of rotations, assignments, publications, *)
(* fetches, failures and restarts.                                         *)
THEOREM SessionInvariance == Spec => []IInv
<1>1. IInv /\ [Next]_vars => IInv'
  BY StepOK
<1> QED BY <1>1, InitOK, PTL DEF Spec

(* The variables keep their types: a target has a bundle exactly when its  *)
(* mode is assigned, and no token pair is newer than the control plane's.  *)
THEOREM SessionTypes == Spec => []TypeOK
<1>1. IInv => TypeOK
  BY DEF IInv, RowOK, StateOK, FetchOK, CopyOK, ControlOK, DeliveryOK, CountersOK, TypeOK,
     Snapshot
<1> QED BY <1>1, SessionInvariance, PTL

(* Whatever is assigned or published while a fetch runs, what it delivers  *)
(* from the source or the cache file is of the bundle it was for.          *)
THEOREM DeliversItsOwn == Spec => []OwnDocument
<1>1. IInv => OwnDocument
  BY DEF IInv, DeliveryOK
<1> QED BY <1>1, SessionInvariance, PTL

(* The floor that is kept with an assignment, in memory and in the state   *)
(* file, never exceeds what was published for it: no fetch of the bundle   *)
(* before can raise it, so that the node refuses no document it must take. *)
THEOREM FloorsAreReachable == Spec => []FloorReachable
<1>1. IInv => FloorReachable
  BY DEF IInv, StateOK, FloorReachable, AssignmentEligible
<1> QED BY <1>1, SessionInvariance, PTL

(* The document in the cache is no older than the generation it is cached  *)
(* under, however publications fall between the reads of the two.          *)
THEOREM CacheIsNotStale == Spec => []CacheCoversGeneration
<1>1. IInv => CacheCoversGeneration
  BY DEF IInv, CacheFits, CacheCoversGeneration
<1> QED BY <1>1, SessionInvariance, PTL

(* The Google token never has the identity of a bundle before the target's, *)
(* whichever of assignment, refresh and exchange came first.               *)
THEOREM IdentityIsCurrent == Spec => []IdentityFollowsTarget
<1>1. IInv => IdentityFollowsTarget
  BY DEF IInv, StateOK, IdentityFollowsTarget, AssignmentEligible
<1> QED BY <1>1, SessionInvariance, PTL

(* Only a lost answer parts the manager from the pair the control plane    *)
(* accepts, and only an operation that ended early parts the state file.   *)
THEOREM SessionIsKept == Spec => []SessionKept
<1>1. IInv => SessionKept
  BY DEF IInv, SessionOK, SessionKept
<1> QED BY <1>1, SessionInvariance, PTL

-----------------------------------------------------------------------------
(* No rollback *)

\* What a step delivers is the document of the fetch or one of the two caches'.
Offered == {NoDoc, cache.doc, file.doc} \cup (IF main.pc = "keep" THEN {main.doc} ELSE {})

LEMMA DeliverOffered ==
    ASSUME NEW doc, NEW via, Deliver(doc, via)
    PROVE  delivered'.doc = doc
BY DEF Deliver

LEMMA FallbackOffered ==
    ASSUME loadFallbackDesiredState
    PROVE  delivered' = delivered \/ delivered'.doc \in Offered
BY DeliverOffered, FetchErrorEnds DEF loadFallbackDesiredState, Offered

LEMMA GiveUpOffered ==
    ASSUME NEW lost, GiveUp(lost)
    PROVE  delivered' = delivered \/ delivered'.doc \in Offered
BY FallbackOffered DEF GiveUp

LEMMA OnlyOffered ==
    ASSUME [Next]_vars
    PROVE  delivered' = delivered \/ delivered'.doc \in Offered
<1>1. CASE ControlPlane
  BY <1>1 DEF ControlPlane, Assign, PublishDocuments, PersistSequence, Unassign, Retire,
     EnvelopeExpires, RequestDiagnosis, agent
<1>2. CASE Process
  BY <1>2 DEF Process, Crash, Reinstall, AccessExpires, GoogleExpires, OverrideWrite, agent
<1>3. CASE Start \/ SyncBegin \/ UNCHANGED vars
  BY <1>3 DEF Start, SyncBegin, vars
<1>4. CASE Manager
  BY <1>4, GiveUpOffered, FallbackOffered DEF Manager, RefreshRefused, RefreshControlPlane,
     BootstrapAnswered, BootstrapRefused, AnswerLost, Unreachable, FetchAssignment,
     AssignmentRefused, ExchangeTokens, ExchangeRefused, saveState, SaveFails, Proceed
<1>5. CASE Fetch
  <2>1. CASE ServeCached
    BY <2>1, DeliverOffered, FetchErrorEnds DEF ServeCached, Offered
  <2>2. CASE FetchOverride \/ KeepDocument \/ KeepFails
    BY <2>2, DeliverOffered, FetchErrorEnds DEF FetchOverride, KeepDocument, KeepFails, Offered
  <2> QED BY <1>5, <2>1, <2>2, FallbackOffered, FetchErrorEnds DEF Fetch, FetchBegin, FetchAccess,
       ReadMetadata, ReadMedia, ReadHTTP, SourceRefused, SourceUnavailable, KeyUnavailable,
       SecretUnavailable, VerifyFails, ParseRefused, RecordSequenceFloor, RecordFails
<1>6. CASE Diagnosis
  BY <1>6 DEF Diagnosis, DiagnosisSkipped, ClaimDiagnosis, ClaimFails, ReportDiagnosis,
     ReportFails, ranDiagnosis
<1> QED BY <1>1, <1>2, <1>3, <1>4, <1>5, <1>6 DEF Next

LEMMA OfferedIsNoOlder ==
    ASSUME IInv, NEW doc \in Offered, delivered.doc.bundle # 0,
           doc.bundle = delivered.doc.bundle, "unkept" \notin gap
    PROVE  doc.seq >= delivered.doc.seq
<1>1. CASE main.pc = "keep" /\ doc = main.doc
  BY <1>1 DEF IInv, DeliveryOK
<1>2. CASE doc \in {NoDoc, cache.doc, file.doc}
  BY <1>2, Zeros DEF IInv, DeliveryOK
<1> QED BY <1>1, <1>2 DEF Offered

LEMMA DeliveredTypes == IInv => delivered.doc.seq \in Nat
BY DocTypes DEF IInv, DeliveryOK, Deliveries

(* Over outages, restarts and fallbacks the node is never handed an older  *)
(* document of the bundle it runs, unless the cache file was not written.  *)
THEOREM NeverRollsBack == Spec => NoRollback
<1> DEFINE Step == (delivered.doc.bundle # 0 /\ delivered'.doc.bundle = delivered.doc.bundle)
                   => delivered'.doc.seq >= delivered.doc.seq \/ "unkept" \in gap
<1>1. IInv /\ [Next]_vars => [Step]_vars
  BY OnlyOffered, OfferedIsNoOlder, DeliveredTypes
<1>2. NoRollback <=> [][Step]_vars
  BY DEF NoRollback
<1> HIDE DEF Step
<1> QED BY <1>1, <1>2, SessionInvariance, PTL DEF Spec
=============================================================================
