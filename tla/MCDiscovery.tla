----------------------------- MODULE MCDiscovery -----------------------------
(* Small instances of Discovery.                                           *)
EXTENDS Discovery

CONSTANTS a, b, m

\* Every instance at the same endpoint.
OneEndpoint == [i \in Instances |-> 1]

\* Instance a is up.
OneUp == [i \in Instances |-> IF i = a THEN "up" ELSE "absent"]

\* All are.
AllUp == [i \in Instances |-> "up"]
=============================================================================
