---------------------------- MODULE DashboardRows ----------------------------
(***************************************************************************)
(* The rows of the dashboard, DashboardModel of src/src/dashboard.rs, as   *)
(* far as the Claude sessions are concerned: how an event changes them,    *)
(* and what the user does with the attention they ask for.  The module has *)
(* no variables: `rows' is a function of the keys that have a row.         *)
(*                                                                         *)
(* Abstracted: names, the order of the rows, the selection, elapsed times. *)
(***************************************************************************)
EXTENDS ClaudeTracker

CONSTANT None \* no occurrence

ASSUME RowsAssumption == None \notin Nat

\* `ready' is ready_eligible; a dismissal is one of a ready generation.
Row ==
  [sid : SessionIds, busy : BOOLEAN, ready : BOOLEAN, generation : Nat,
   stale : BOOLEAN, dismissed : Nat \cup {None}]

\* DashboardRow::occurrence: the ready generation that asks for attention.
Occurrence(row) == IF row.ready /\ ~row.busy THEN row.generation ELSE None

\* DashboardRow::dismissed.
IsDismissed(row) == Occurrence(row) # None /\ row.dismissed = Occurrence(row)

NewRow(o, stale) ==
  [sid |-> o.sid, busy |-> o.status \in Working, ready |-> o.status = "idle",
   generation |-> 0, stale |-> stale, dismissed |-> None]

\* Mutant of UpdateRow: a dismissal does not outlive a change of staleness.
UpdateRowClearing(row, o, stale) ==
  LET shown == [row EXCEPT !.sid = o.sid, !.busy = o.status \in Working,
                           !.ready = o.status = "idle", !.stale = stale]
  IN  [shown EXCEPT !.dismissed =
         IF shown.busy \/ row.stale # stale THEN None ELSE @]

\* A dismissal is one of an occurrence, and goes with it.
UpdateRow(row, o, stale) ==
  LET shown == [row EXCEPT !.sid = o.sid, !.busy = o.status \in Working,
                           !.ready = o.status = "idle", !.stale = stale]
  IN  [shown EXCEPT !.dismissed =
         IF shown.busy \/ Occurrence(row) # Occurrence(shown) THEN None ELSE @]

\* apply_claude_ready.
ReadyRow(row) ==
  [row EXCEPT !.generation = @ + 1, !.busy = FALSE, !.ready = TRUE, !.dismissed = None]

Without(rows, k) == [j \in DOMAIN rows \ {k} |-> rows[j]]

With(rows, k, row) == [j \in DOMAIN rows \cup {k} |-> IF j = k THEN row ELSE rows[j]]

\* apply_claude_projection: only a session with a terminal has a row.
ShowProjection(rows, o, stale) ==
  IF ~o.tty THEN Without(rows, o.key)
  ELSE With(rows, o.key,
            IF o.key \in DOMAIN rows THEN UpdateRow(rows[o.key], o, stale) ELSE NewRow(o, stale))

\* apply_at.
Show(rows, e) ==
  IF e.kind = "removed" THEN Without(rows, e.of.key)
  ELSE IF e.kind = "projection" THEN ShowProjection(rows, e.of, e.stale)
  ELSE IF e.kind = "ready" /\ e.of.key \in DOMAIN rows
       THEN [rows EXCEPT ![e.of.key] = ReadyRow(@)]
  ELSE rows
=============================================================================
