--------------------------- MODULE MCClaudeMonitor ---------------------------
(* A small instance of ClaudeMonitor.                                      *)
EXTENDS ClaudeMonitor

\* The first process works, the others are not there.
OneBusy == [p \in Pids |-> IF p = 1 THEN [sid |-> "s", status |-> "busy"] ELSE None]
=============================================================================
