----------------------------- MODULE ReleaseLog -----------------------------
(***************************************************************************)
(* What the solo state file promises about releases and deployments,       *)
(* whatever the commands that share it do: releases are kept as they were  *)
(* created; a deployment is numbered after the ones of its environment     *)
(* before it, starts running, and ends once; and the current release of an *)
(* environment changes only when a deployment of that release starts, or   *)
(* when a rollback to it has settled.                                      *)
(***************************************************************************)
EXTENDS Naturals, Sequences

CONSTANT Envs

VARIABLES
  releases,      \* every release saved, in the order of creation
  deployments,   \* every deployment saved, in the order of creation
  current        \* the current release of each environment, 0 for none

vars == <<releases, deployments, current>>

Init == /\ releases = << >> /\ deployments = << >>
        /\ current = [e \in Envs |-> 0]

Ids(s) == 1..Len(s)

Numbered(d) ==
  \A i \in Ids(deployments) :
    deployments[i].env = d.env => deployments[i].seq < d.seq

(* s is extended by one entry, the last of s'.                             *)
Grows(s, t) == Len(t) = Len(s) + 1 /\ SubSeq(t, 1, Len(s)) = s

Starts(e, kind, r) ==
  /\ Grows(deployments, deployments')
  /\ LET d == deployments'[Len(deployments) + 1]
     IN /\ d.env = e /\ d.rel = r /\ d.kind = kind
        /\ d.status = "running" /\ Numbered(d)

(* A deploy is recorded with its release, which becomes the current one.   *)
StartDeploy(e) ==
  /\ Grows(releases, releases')
  /\ releases'[Len(releases) + 1].env = e
  /\ Starts(e, "deploy", Len(releases) + 1)
  /\ current' = [current EXCEPT ![e] = Len(releases) + 1]

(* A rollback to a release of the environment is recorded; what is current *)
(* stays.                                                                  *)
StartRollback(e) ==
  /\ \E r \in Ids(releases) : releases[r].env = e /\ Starts(e, "rollback", r)
  /\ UNCHANGED <<releases, current>>

(* A running deployment ends; a rollback that settles makes its release    *)
(* the current one.                                                        *)
End(i, status) ==
  /\ deployments[i].status = "running" /\ Len(deployments') = Len(deployments)
  /\ deployments' = [deployments EXCEPT ![i] =
       [@ EXCEPT !.status = status, !.pub = deployments'[i].pub]]
  /\ current' = IF deployments[i].kind = "rollback" /\ status = "settled"
                THEN [current EXCEPT ![deployments[i].env] = deployments[i].rel]
                ELSE current
  /\ UNCHANGED releases

Next == \/ \E e \in Envs : StartDeploy(e) \/ StartRollback(e)
        \/ \E i \in Ids(deployments) : \E s \in {"settled", "failed"} : End(i, s)

Spec == Init /\ [][Next]_vars
=============================================================================
