------------------------------ MODULE DiskCare ------------------------------
(***************************************************************************)
(* Which images of a node disk care (agent/internal/diskcare) removes.     *)
(*                                                                         *)
(* A store maps every environment to the revisions the node has reconciled *)
(* for it, the one seen last first; current maps the environments of the   *)
(* document just reconciled to their revisions.  The CLI tags an image by  *)
(* project and revision, so that a revision stands for its image, and the  *)
(* environments of a project share it.                                     *)
(***************************************************************************)
EXTENDS Naturals, Sequences, Functions

CONSTANT Keep    \* RetainedPreviousReleases + 1

ASSUME KeepAssumption == Keep \in Nat \ {0}

(* The records of s that are in S, in their order.  SelectSeq would do, if *)
(* a proof could look into it.                                             *)
Kept(s, S) ==
  LET kept[i \in 0..Len(s)] ==
        IF i = 0 THEN << >>
        ELSE IF s[i] \in S THEN Append(kept[i - 1], s[i]) ELSE kept[i - 1]
  IN kept[Len(s)]

(* What is reconciled now was seen last.                                   *)
Upsert(store, current) ==
  [e \in DOMAIN store |->
     IF e \in DOMAIN current
     THEN <<current[e]>> \o Kept(store[e], Range(store[e]) \ {current[e]})
     ELSE store[e]]

Newest(revisions) ==
  {revisions[i] : i \in {k \in DOMAIN revisions : k <= Keep}}

(* Variant: only the environments of the document keep releases.           *)
RetainedOfPresent(store, current) ==
  [e \in DOMAIN store |-> IF e \in DOMAIN current THEN Newest(store[e]) ELSE {}]

(* Of every environment, whether the document still has it or not.         *)
RetainedReleases(store, current) ==
  [e \in DOMAIN store |->
     Newest(store[e]) \cup (IF e \in DOMAIN current THEN {current[e]} ELSE {})]

(* An image stays for any environment that retains it.                     *)
RetainedImages(retained) == UNION Range(retained)

PruneCandidates(store, retained) ==
  (UNION {Range(store[e]) \ retained[e] : e \in DOMAIN store}) \ RetainedImages(retained)

DropRemovedImages(store, retained, removed) ==
  [e \in DOMAIN store |->
     Kept(store[e], retained[e] \cup (Range(store[e]) \ removed))]
=============================================================================
