---------------------------- MODULE MCBusyPeriods ----------------------------
(***************************************************************************)
(* MCServerConnection with an observer that weighs the ready attention the *)
(* task emits against what really happened at the server: `credit' counts, *)
(* for each session, the busy periods begun there less the readies emitted.*)
(***************************************************************************)
EXTENDS MCServerConnection, Integers

VARIABLE credit

ObservedInit ==
  /\ Init
  /\ credit = [s \in Sessions |-> IF server.status[s] \in Active THEN 1 ELSE 0]

\* How many busy periods of s this step begins, and how many readies it emits.
Begun(s) == IF server.status[s] \notin Active /\ server'.status[s] \in Active THEN 1 ELSE 0

Answers(s) == Cardinality({a \in attention' : a.kind = "ready" /\ a.root = s})

ObservedNext ==
  /\ Next
  /\ credit' = [s \in Sessions |-> credit[s] + Begun(s) - Answers(s)]

ObservedSpec == ObservedInit /\ [][ObservedNext]_<<vars, credit>>

\* A busy period of a session is answered by at most one ready, however
\* often stream and snapshots both tell of it.
ReadyPerBusyPeriod == \A s \in Sessions : credit[s] >= 0
=============================================================================
