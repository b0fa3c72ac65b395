-------------------------- MODULE MCNodeReconcile --------------------------
(* Instances of NodeReconcile.                                             *)
EXTENDS NodeReconcile, TLC

CONSTANTS web, api, w1, w2, bad, k1, k2

(* Every document over the services and specifications, without TLS.       *)
AllDocuments == [Services -> Specs \cup {NoSpec}] \X {"off"}

(* A web service beside a worker; its second version alone, with an        *)
(* ingress that comes to want a certificate; a release of both whose web   *)
(* service is never healthy; the web service alone, made a worker.         *)
BesideWorker ==
  {<<(web :> w1 @@ api :> k1), "off">>, <<(web :> w2 @@ api :> NoSpec), "auto">>,
   <<(web :> bad @@ api :> k2), "off">>, <<(web :> k1 @@ api :> NoSpec), "off">>}
=============================================================================
