---------------------------- MODULE DashboardModel ----------------------------
(***************************************************************************)
(* The rows the dashboard keeps of OpenCode sessions, DashboardModel of    *)
(* src/src/dashboard.rs: how an event of the monitor, a sample of the      *)
(* terminals and a key of the user change them.  The module has no         *)
(* variables: a dashboard is a value `m' of ModelRecord, and an operation  *)
(* maps it to the next one.  The attribution of terminals to sessions is   *)
(* TuiResolution; the rows of Claude sessions are DashboardRows.           *)
(*                                                                         *)
(* A row is keyed by its instance and its root session, or the terminal    *)
(* that has none.  The vector of rows is sorted after every change, so the *)
(* model keeps a function and derives the places; names are abstracted, and *)
(* rows of a group are ordered by ID.  Also abstracted: diagnostics,       *)
(* memory, the status line, the scroll offset, the Retry label.            *)
(***************************************************************************)
EXTENDS TuiResolution

CONSTANTS Instances,   \* server instances: InstanceKey
          V2,          \* those of them that speak the v2 protocol
          EndpointOf   \* the endpoint of each

ASSUME ModelAssumption ==
  /\ V2 \subseteq Instances /\ IsFiniteSet(Instances) /\ IsFiniteSet(Tuis)
  /\ Instances \cup Sessions \cup Tuis \subseteq Nat /\ Sessions \cap Tuis = {}
  /\ None \notin Nat \cup Instances

\* A row (DashboardRow) is a record of
\*   busy, background, questions, permissions   what its root does and asks,
\*   generation                                 how often it became ready,
\*   stale, attachmentStale                     of its server, of its terminal,
\*   lastNonBusy, firstBusy, frozen             times, or None,
\*   dismissed                                  an occurrence, or <<>>,
\*   category                                   "v1", "attached", "headless",
\*                                              "ambiguous", "unresolved",
\*   tui, focus                                 its terminal; can it be focused?
\* and rows without a session are of the last two categories.

Empty == [k \in {} |-> None]

\* DashboardModel::default().
InitModel ==
  [rows |-> Empty, projections |-> Empty,
   attachments |-> [i \in Instances |-> Empty], v1Focus |-> {},
   sticky |-> [i \in Instances |-> Empty], endpoints |-> Empty,
   v2 |-> {}, connected |-> {}, lastNonBusy |-> Empty, pendingReady |-> {},
   selected |-> 0]

-----------------------------------------------------------------------------
(* A row.                                                                  *)

\* DashboardRow::occurrence: what asks for attention, or the empty tuple.
Occurrence(row) ==
  IF row.questions # {} THEN <<"question", row.questions>>
  ELSE IF row.permissions # {} THEN <<"permission", row.permissions>>
  ELSE IF row.busy \/ row.background > 0 \/ row.category \in {"ambiguous", "unresolved"}
       THEN <<>>
  ELSE <<"ready", row.generation>>

IsDismissed(row) == Occurrence(row) # <<>> /\ row.dismissed = Occurrence(row)

Baseline(row) == IF row.lastNonBusy # None THEN row.lastNonBusy ELSE row.firstBusy

\* busy_elapsed.
Elapsed(row, now) ==
  IF ~row.busy THEN None
  ELSE IF row.frozen # None THEN row.frozen
  ELSE IF Baseline(row) # None THEN now - Baseline(row) ELSE None

\* new_row.
NewRow(aggregate, last, now) ==
  [busy |-> aggregate.busy, background |-> aggregate.background,
   questions |-> aggregate.questions, permissions |-> aggregate.permissions,
   generation |-> 0, stale |-> FALSE, attachmentStale |-> FALSE,
   lastNonBusy |-> last,
   firstBusy |-> IF aggregate.busy /\ last = None THEN now ELSE None,
   frozen |-> None, dismissed |-> <<>>, category |-> "v1", tui |-> None, focus |-> FALSE]

\* The times of update_row: a frozen counter goes on from where it stood, and
\* any other runs from when the session was last seen not to work, or else
\* from when it was first seen to.
Retimed(row, busy, now) ==
  IF ~busy THEN [row EXCEPT !.lastNonBusy = now, !.firstBusy = None, !.frozen = None]
  ELSE IF row.frozen # None
       THEN [row EXCEPT
               !.lastNonBusy = IF @ # None THEN now - row.frozen ELSE None,
               !.firstBusy = IF row.lastNonBusy = None /\ @ # None THEN now - row.frozen ELSE @,
               !.frozen = None]
  ELSE [row EXCEPT !.firstBusy = IF ~row.busy /\ row.lastNonBusy = None THEN now ELSE @]

\* Mutant of UpdateRow: a dismissal outlives what it was one of.
UpdateRowKeeping(row, aggregate, now) ==
  [Retimed(row, aggregate.busy, now) EXCEPT
     !.busy = aggregate.busy, !.background = aggregate.background,
     !.questions = aggregate.questions, !.permissions = aggregate.permissions]

\* update_row.
UpdateRow(row, aggregate, now) ==
  LET shown == [Retimed(row, aggregate.busy, now) EXCEPT
                  !.busy = aggregate.busy, !.background = aggregate.background,
                  !.questions = aggregate.questions, !.permissions = aggregate.permissions]
  IN  [shown EXCEPT !.dismissed =
         IF aggregate.busy \/ Occurrence(row) # Occurrence(shown) THEN <<>> ELSE @]

-----------------------------------------------------------------------------
(* The order of the rows and the selection.                                *)

Group(row) ==
  CASE row.category = "v1" -> 0
    [] row.category = "attached" -> 1
    [] row.category = "headless" -> 2
    [] OTHER -> 4

\* compare_rows.
Before(rows, j, k) ==
  \/ Group(rows[j]) < Group(rows[k])
  \/ Group(rows[j]) = Group(rows[k]) /\ (j[2] < k[2] \/ (j[2] = k[2] /\ j[1] < k[1]))

\* The place of a row among the sorted rows.
Place(rows, k) == Cardinality({j \in DOMAIN rows : Before(rows, j, k)}) + 1

\* The key of the selected row, or the empty tuple.
SelectedKey(m) ==
  IF m.selected = 0 THEN <<>> ELSE CHOOSE k \in DOMAIN m.rows : Place(m.rows, k) = m.selected

Least(a, b) == IF a < b THEN a ELSE b

\* clamp_selection: an index into the rows, if there are any.
Clamped(m, index) ==
  IF DOMAIN m.rows = {} THEN 0
  ELSE Least(IF index = 0 THEN 1 ELSE index, Cardinality(DOMAIN m.rows))

\* normalize_rows: the selection stays with the row of this key.
Normalize(m, key) ==
  [m EXCEPT !.selected =
     Clamped(m, IF key \in DOMAIN m.rows THEN Place(m.rows, key) ELSE @)]

-----------------------------------------------------------------------------
(* The rows of one instance.                                               *)

Of(f, i) == {k \in DOMAIN f : k[1] = i}

Forget(f, i) == Drop(f, Of(f, i))

\* Mutant of RemoveInstance: the last projection is kept.
RemoveInstanceKeeping(m, i) ==
  [m EXCEPT !.rows = Forget(@, i), !.attachments[i] = Empty,
            !.v1Focus = @ \ {i}, !.sticky[i] = Empty, !.connected = @ \ {i},
            !.lastNonBusy = Forget(@, i), !.pendingReady = {k \in @ : k[1] # i},
            !.endpoints = Drop(@, {e \in DOMAIN @ : @[e] = i}), !.v2 = @ \ {i}]

\* remove_instance.
RemoveInstance(m, i) ==
  [m EXCEPT !.rows = Forget(@, i), !.projections = Drop(@, {i}),
            !.attachments[i] = Empty, !.v1Focus = @ \ {i}, !.sticky[i] = Empty,
            !.connected = @ \ {i}, !.lastNonBusy = Forget(@, i),
            !.pendingReady = {k \in @ : k[1] # i},
            !.endpoints = Drop(@, {e \in DOMAIN @ : @[e] = i}), !.v2 = @ \ {i}]

\* The instance an endpoint belongs to now; another one there is gone.
Settle(m, i) ==
  LET e    == EndpointOf[i]
      kept == IF e \in DOMAIN m.endpoints /\ m.endpoints[e] # i
              THEN RemoveInstance(m, m.endpoints[e]) ELSE m
  IN  [kept EXCEPT !.endpoints = Put(@, [x \in {e} |-> i])]

\* Mutant of SetStale: a disconnect freezes nothing.
SetStaleRunning(m, i, stale, now) ==
  [m EXCEPT !.rows = [k \in DOMAIN @ |-> IF k[1] = i THEN [@[k] EXCEPT !.stale = stale] ELSE @[k]]]

\* The row of a server that is lost, or that is there again: what its counter
\* had come to is kept until the row is updated.
StaleRow(row, stale, now) ==
  [row EXCEPT !.frozen = IF stale /\ ~row.stale /\ @ = None THEN Elapsed(row, now) ELSE @,
              !.stale = stale]

\* set_stale.
SetStale(m, i, stale, now) ==
  [m EXCEPT !.rows =
     [k \in DOMAIN @ |-> IF k[1] = i THEN StaleRow(@[k], stale, now) ELSE @[k]]]

LastSeen(m, k) == IF k \in DOMAIN m.lastNonBusy THEN m.lastNonBusy[k] ELSE None

\* The row of a root, as it is or anew.
Refreshed(m, k, aggregate, now) ==
  IF k \in DOMAIN m.rows THEN UpdateRow(m.rows[k], aggregate, now)
  ELSE NewRow(aggregate, LastSeen(m, k), now)

\* The row of a terminal that has no session.
LooseRow(kind, t, tui) ==
  [NewRow([busy |-> FALSE, background |-> 0, questions |-> {}, permissions |-> {}], None, 0)
     EXCEPT !.category = kind, !.tui = t, !.attachmentStale = tui.stale]

Works(aggregate) == aggregate.busy \/ aggregate.background > 0

AttachedRow(row, t, tui) ==
  [row EXCEPT !.category = "attached", !.tui = t, !.focus = tui.focus, !.attachmentStale = tui.stale]

HeadlessRow(row) ==
  [row EXCEPT !.category = "headless", !.tui = None, !.focus = FALSE, !.attachmentStale = FALSE]

\* The roots that have a terminal, and those of the rest that work.
SessionRows(m, i, holder, now) ==
  LET ss       == m.projections[i]
      headless == {r \in Roots(ss) \ DOMAIN holder : Works(Aggregate(ss, r, TRUE))}
      row(k)   == Refreshed(m, k, Aggregate(ss, k[2], TRUE), now)
  IN  [k \in {i} \X (DOMAIN holder \cup headless) |->
         IF k[2] \in DOMAIN holder
         THEN AttachedRow(row(k), holder[k[2]], m.attachments[i][holder[k[2]]])
         ELSE HeadlessRow(row(k))]

\* The terminals that have no root.
LooseRows(m, i, resolved) ==
  [k \in {i} \X {t \in DOMAIN resolved : resolved[t].kind # "attached"} |->
     LooseRow(resolved[k[2]].kind, k[2], m.attachments[i][k[2]])]

\* The terminal of each root that has one.
Holder(resolved) ==
  LET attached == {t \in DOMAIN resolved : resolved[t].kind = "attached"}
  IN  [r \in {resolved[t].root : t \in attached} |-> CHOOSE t \in attached : resolved[t].root = r]

Rebuilt(m, i, result, now) ==
  [m EXCEPT !.rows = Put(Put(Forget(@, i), SessionRows(m, i, Holder(result.resolved), now)),
                         LooseRows(m, i, result.resolved)),
            !.sticky[i] = result.sticky]

\* rebuild_v2_rows.
RebuildV2Rows(m, i, now) ==
  IF i \notin DOMAIN m.projections THEN [m EXCEPT !.rows = Forget(@, i)]
  ELSE Rebuilt(m, i, ResolveTuis(m.projections[i], m.attachments[i], m.sticky[i]), now)

-----------------------------------------------------------------------------
(* The events of the monitor: apply_at.  Each is followed by Normalize.    *)

ServerFound(m, i) ==
  LET settled == Settle(m, i)
  IN  Normalize([settled EXCEPT !.v2 = IF i \in V2 THEN @ \cup {i} ELSE @ \ {i}],
                SelectedKey(m))

ServerRemoved(m, i) == Normalize(RemoveInstance(m, i), SelectedKey(m))

Known(m, i) == EndpointOf[i] \in DOMAIN m.endpoints /\ m.endpoints[EndpointOf[i]] = i

Connected(m, i, now) ==
  IF ~Known(m, i) THEN m
  ELSE Normalize(SetStale([m EXCEPT !.connected = @ \cup {i}], i, FALSE, now), SelectedKey(m))

Disconnected(m, i, now) ==
  IF ~Known(m, i) THEN m
  ELSE Normalize(SetStale([m EXCEPT !.connected = @ \ {i}], i, TRUE, now), SelectedKey(m))

\* The row that a ready admits.
ReadyRow(m, i, now) ==
  [NewRow([busy |-> FALSE, background |-> 0, questions |-> {}, permissions |-> {}], now, now)
     EXCEPT !.generation = 1, !.focus = i \in m.v1Focus]

Readied(row, now) ==
  [row EXCEPT !.generation = @ + 1, !.busy = FALSE, !.lastNonBusy = now,
              !.firstBusy = None, !.frozen = None, !.dismissed = <<>>]

\* apply_ready, of one root or of several: of a session that is not projected
\* yet it is remembered.
ApplyReady(m, i, roots, now) ==
  LET ready == {i} \X roots
      shown == ready \cap DOMAIN m.rows
      new   == IF i \in m.v2 \/ i \notin DOMAIN m.projections THEN {}
               ELSE {k \in ready \ shown : k[2] \in DOMAIN m.projections[i]}
      early == IF i \in m.v2 THEN {} ELSE ready \ (shown \cup new)
  IN  [m EXCEPT
         !.lastNonBusy = Put(@, [k \in ready |-> now]),
         !.rows = Put(@, [k \in shown \cup new |->
                            IF k \in shown THEN Readied(m.rows[k], now) ELSE ReadyRow(m, i, now)]),
         !.pendingReady = @ \cup early]

Ready(m, i, root, now) ==
  IF ~Known(m, i) THEN m ELSE Normalize(ApplyReady(m, i, {root}, now), SelectedKey(m))

\* last_non_busy after a projection: of the roots there are, now if idle.
SeenIdle(m, i, ss, now) ==
  LET idle == {r \in Roots(ss) : ~Aggregate(ss, r, i \in m.v2).busy}
  IN  Put(Drop(m.lastNonBusy, {k \in Of(m.lastNonBusy, i) : k[2] \notin Roots(ss)}),
          [k \in {i} \X idle |-> now])

\* A root of a v1 server gets a row when it works or waits for the user.
Admitted(m, i, ss, r) ==
  LET sum == Aggregate(ss, r, FALSE)
  IN  \/ <<i, r>> \in DOMAIN m.rows
      \/ sum.busy \/ sum.questions # {} \/ sum.permissions # {}

\* Mutant of V1Rows: a new row waits for the next sample to be focusable.
V1RowsUnfocused(m, i, ss, now) ==
  Put(Forget(m.rows, i),
      [k \in {i} \X {r \in Roots(ss) : Admitted(m, i, ss, r)} |->
         Refreshed(m, k, Aggregate(ss, k[2], FALSE), now)])

\* The rows of a v1 server after a projection.
V1Rows(m, i, ss, now) ==
  Put(Forget(m.rows, i),
      [k \in {i} \X {r \in Roots(ss) : Admitted(m, i, ss, r)} |->
         [Refreshed(m, k, Aggregate(ss, k[2], FALSE), now) EXCEPT !.focus = i \in m.v1Focus]])

\* The remembered readies of an instance are applied, each to its own root.
ApplyPending(m, i, now) ==
  LET pending == {k \in m.pendingReady : k[1] = i}
  IN  ApplyReady([m EXCEPT !.pendingReady = @ \ pending], i, {k[2] : k \in pending}, now)

\* apply_projection.
ApplyProjection(m, i, ss, now) ==
  LET settled == Settle(m, i)
      held    == [settled EXCEPT !.connected = @ \cup {i}, !.projections = Put(@, [j \in {i} |-> ss])]
      timed   == [held EXCEPT !.lastNonBusy = SeenIdle(held, i, ss, now)]
  IN  IF i \in m.v2 THEN RebuildV2Rows(timed, i, now)
      ELSE SetStale(ApplyPending([timed EXCEPT !.rows = V1Rows(timed, i, ss, now)], i, now),
                    i, FALSE, now)

StateProjection(m, i, ss, now) == Normalize(ApplyProjection(m, i, ss, now), SelectedKey(m))

-----------------------------------------------------------------------------
(* A sample of the terminals: apply_attachments.  `sample' has the         *)
(* terminals of each instance and the v1 servers that can be focused.      *)

\* The rows of each v2 server are rebuilt; it has no say in those of others.
RebuildAll(m, now) ==
  LET managed  == DOMAIN m.projections \cap m.v2
      built    == {[of |-> i, model |-> RebuildV2Rows(m, i, now)] : i \in managed}
      Model(i) == (CHOOSE b \in built : b.of = i).model
  IN  [m EXCEPT
         !.rows = Put(Drop(@, {k \in DOMAIN @ : k[1] \in managed}),
                      [k \in UNION {Of(Model(i).rows, i) : i \in managed} |-> Model(k[1]).rows[k]]),
         !.sticky = [i \in Instances |-> IF i \in managed THEN Model(i).sticky[i] ELSE @[i]]]

ApplyAttachments(m, sample, now) ==
  LET sampled ==
        [m EXCEPT !.v1Focus = sample.v1Focus, !.attachments = sample.tuis,
                  !.sticky = [i \in Instances |-> Keep(@[i], DOMAIN sample.tuis[i])],
                  !.rows = [k \in DOMAIN @ |->
                              IF @[k].category = "v1"
                              THEN [@[k] EXCEPT !.focus = k[1] \in sample.v1Focus] ELSE @[k]]]
  IN  Normalize(RebuildAll(sampled, now), SelectedKey(m))

-----------------------------------------------------------------------------
(* The keys of the user.                                                   *)

\* move_selection.
MoveSelection(m, down) ==
  IF DOMAIN m.rows = {} THEN m
  ELSE [m EXCEPT !.selected =
          IF down THEN Least(@ + 1, Cardinality(DOMAIN m.rows)) ELSE IF @ > 1 THEN @ - 1 ELSE 1]

\* dismiss_selected.
DismissSelected(m) ==
  IF m.selected = 0 \/ Occurrence(m.rows[SelectedKey(m)]) = <<>> THEN m
  ELSE [m EXCEPT !.rows[SelectedKey(m)].dismissed = Occurrence(m.rows[SelectedKey(m)])]

\* restore_selected.
RestoreSelected(m) ==
  IF m.selected = 0 \/ ~IsDismissed(m.rows[SelectedKey(m)]) THEN m
  ELSE [m EXCEPT !.rows[SelectedKey(m)].dismissed = <<>>]

\* focus_selected: is there a request to focus the terminal of the row?
Focusable(m) ==
  /\ m.selected # 0
  /\ LET k == SelectedKey(m)
     IN  /\ m.rows[k].category \in {"v1", "attached"}
         /\ k[1] \in m.connected
         /\ ~m.rows[k].stale /\ ~m.rows[k].attachmentStale
         /\ m.rows[k].focus
=============================================================================
