----------------------------- MODULE MCDashboard -----------------------------
(* A v1 server with one session, and a v2 server with two roots in the     *)
(* same directory, one with a child, and two terminals there.              *)
EXTENDS Dashboard, TLC

CONSTANT q1

V1Server == 1
V2Server == 2

MCEndpointOf == [i \in Instances |-> i]

Plain == [parent |-> None, status |-> "idle", places |-> {"here"}, updated |-> 0,
          questions |-> {}, permissions |-> {}]

As(status) == [Plain EXCEPT !.status = status]

Child(parent, status) == [As(status) EXCEPT !.parent = parent]

Asking == [As("idle") EXCEPT !.questions = {q1}]

MCProjections ==
  [i \in Instances |->
     IF i = V1Server
     THEN {1 :> As("idle"), 1 :> As("busy"), 1 :> Asking}
     ELSE {1 :> As("busy") @@ 2 :> As("idle"),
           1 :> As("idle") @@ 2 :> [As("busy") EXCEPT !.updated = 1],
           1 :> As("idle") @@ 2 :> As("idle") @@ 3 :> Child(2, "busy"),
           1 :> As("idle") @@ 3 :> Child(2, "busy")}]

Terminal == [places |-> {"here"}, explicit |-> None, continue |-> FALSE,
             stale |-> FALSE, focus |-> TRUE]

Explicit(s) == [Terminal EXCEPT !.explicit = s]

Sampled(v1Focus, tuis) ==
  [v1Focus |-> v1Focus, tuis |-> [i \in Instances |-> IF i = V2Server THEN tuis ELSE Empty]]

MCSamples ==
  {Sampled({}, Empty), Sampled({V1Server}, 11 :> Terminal),
   Sampled({}, 11 :> [Terminal EXCEPT !.stale = TRUE] @@ 12 :> Terminal),
   Sampled({V1Server}, 11 :> Terminal @@ 12 :> Explicit(1)),
   Sampled({}, 11 :> Explicit(1) @@ 12 :> Explicit(1)),
   Sampled({}, 12 :> [Terminal EXCEPT !.continue = TRUE])}
=============================================================================
