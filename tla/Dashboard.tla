------------------------------ MODULE Dashboard ------------------------------
(***************************************************************************)
(* The dashboard among those who change it: run_dashboard of               *)
(* src/src/main.rs, which applies in any order the events of the monitor,  *)
(* the samples of the terminals and the keys of the user to one            *)
(* DashboardModel.                                                         *)
(*                                                                         *)
(* The monitor keeps to the order of run_server: a server is found, it     *)
(* connects, projects and announces, it disconnects, it is removed.  The   *)
(* sampler follows it at a distance: a sample may come from before the     *)
(* events that are already applied.                                        *)
(***************************************************************************)
EXTENDS DashboardModel

CONSTANTS Projections, \* what a server may project, for each instance
          Samples,     \* what the sampler may find
          MaxEvents,   \* bound: events and samples
          MaxTime      \* bound: the time the clock comes to

VARIABLES
  m,        \* the dashboard
  now,      \* the time
  monitor,  \* where the task of each instance is
  events,   \* how many events and samples there were
  current,  \* history: instances that projected since they last connected
  put       \* history: the attention the user dismissed, as pairs with its row

vars == <<m, now, monitor, events, current, put>>

ASSUME DashboardAssumption ==
  /\ \A i \in Instances : \A ss \in Projections[i] :
       DOMAIN ss \subseteq Sessions /\ \A s \in DOMAIN ss : ss[s] \in Session
  /\ \A s \in Samples : /\ DOMAIN s.tuis = Instances /\ s.v1Focus \subseteq Instances \ V2
                        /\ \A i \in Instances : DOMAIN s.tuis[i] \subseteq Tuis
  /\ MaxEvents \in Nat /\ MaxTime \in Nat

\* A dismissal is over when what it is one of is, or when the row is updated
\* and works.
Standing(dashboard, updated, dismissals) ==
  {d \in dismissals :
     /\ d[1] \in DOMAIN dashboard.rows
     /\ Occurrence(dashboard.rows[d[1]]) = d[2]
     /\ d[1][1] \in updated => ~dashboard.rows[d[1]].busy}

\* The rows of the instances in `updated' are.
Occurs(next, updated) ==
  /\ events < MaxEvents
  /\ events' = events + 1
  /\ m' = next
  /\ put' = Standing(next, updated, put)
  /\ UNCHANGED now

Moves(i, from, to) == monitor[i] \in from /\ monitor' = [monitor EXCEPT ![i] = to]

-----------------------------------------------------------------------------
(* The events of the monitor.                                              *)

Present == {i \in Instances : monitor[i] # "absent"}

Find(i) ==
  /\ \A j \in Present : EndpointOf[j] # EndpointOf[i]
  /\ Moves(i, {"absent"}, "found")
  /\ Occurs(ServerFound(m, i), {})
  /\ UNCHANGED current

Connect(i) ==
  /\ Moves(i, {"found", "disconnected"}, "connected")
  /\ Occurs(Connected(m, i, now), {})
  /\ UNCHANGED current

Project(i, ss) ==
  /\ monitor[i] = "connected"
  /\ Occurs(StateProjection(m, i, ss, now), {i})
  /\ current' = current \cup {i}
  /\ UNCHANGED monitor

\* A ready is announced; what is dismissed of its row is so no longer.
Announce(i, root) ==
  /\ monitor[i] = "connected"
  /\ events < MaxEvents /\ events' = events + 1
  /\ m' = Ready(m, i, root, now)
  /\ put' = {d \in put : d[1] # <<i, root>>}
  /\ UNCHANGED <<now, monitor, current>>

Break(i) ==
  /\ Moves(i, {"connected"}, "disconnected")
  /\ Occurs(Disconnected(m, i, now), {})
  /\ current' = current \ {i}

Remove(i) ==
  /\ Moves(i, {"found", "connected", "disconnected"}, "absent")
  /\ Occurs(ServerRemoved(m, i), {})
  /\ current' = current \ {i}

-----------------------------------------------------------------------------
(* The sampler, the clock and the user.                                    *)

Sample(s) ==
  /\ Occurs(ApplyAttachments(m, s, now), m.v2)
  /\ UNCHANGED <<monitor, current>>

Tick ==
  /\ now < MaxTime
  /\ now' = now + 1
  /\ UNCHANGED <<m, monitor, events, current, put>>

UserStep == UNCHANGED <<now, monitor, events, current>>

Move(down) ==
  /\ m' = MoveSelection(m, down)
  /\ UserStep /\ UNCHANGED put

Dismiss ==
  /\ m' = DismissSelected(m)
  /\ LET selected == {k \in DOMAIN m.rows : k = SelectedKey(m) /\ Occurrence(m.rows[k]) # <<>>}
     IN  put' = put \cup {<<k, Occurrence(m.rows[k])>> : k \in selected}
  /\ UserStep

Restore ==
  /\ m' = RestoreSelected(m)
  /\ put' = {d \in put : d[1] # SelectedKey(m)}
  /\ UserStep

-----------------------------------------------------------------------------

Init ==
  /\ m = InitModel /\ now = 0
  /\ monitor = [i \in Instances |-> "absent"]
  /\ events = 0 /\ current = {} /\ put = {}

MonitorEvent(i) ==
  \/ Find(i) \/ Connect(i) \/ Break(i) \/ Remove(i)
  \/ \E ss \in Projections[i] : Project(i, ss)
  \/ \E root \in Sessions : Announce(i, root)

Next ==
  \/ \E i \in Instances : MonitorEvent(i)
  \/ \E s \in Samples : Sample(s)
  \/ Tick
  \/ \E down \in BOOLEAN : Move(down)
  \/ Dismiss \/ Restore

Spec == Init /\ [][Next]_vars

-----------------------------------------------------------------------------
(* Properties.                                                             *)

Shown(i) == i \in m.v2 /\ i \in DOMAIN m.projections

RowOf(i, r) == m.rows[<<i, r>>]

\* Nothing a v2 server has is hidden or shown twice: every terminal of the
\* last sample has one row, every root that works has one, and a terminal is
\* attached to one root, as requirements.md has it of collisions.
NothingHidden ==
  \A i \in Instances : Shown(i) =>
    /\ \A t \in DOMAIN m.attachments[i] :
         Cardinality({k \in Of(m.rows, i) : m.rows[k].tui = t}) = 1
    /\ ActiveRoots(m.projections[i]) \subseteq {k[2] : k \in Of(m.rows, i)}

\* A session named on the command line outranks every other evidence: its
\* terminal is attached to its root unless another one claims it explicitly
\* too, whatever pairs were accepted before.
ExplicitHonoured ==
  \A i \in Instances : Shown(i) =>
    LET claims == ExplicitClaims(m.projections[i], m.attachments[i])
    IN  \A c \in claims : ~Rivalled(claims, c) =>
          <<i, c[2]>> \in DOMAIN m.rows /\ RowOf(i, c[2]).tui = c[1]

\* A terminal once attached to a root keeps it while both are there, through
\* idleness, other terminals and other roots, until somebody claims one of
\* them explicitly.
PairSticks ==
  [][\A k \in DOMAIN m.rows :
       LET i == k[1]
           t == m.rows[k].tui
       IN  /\ m.rows[k].category = "attached"
           /\ Shown(i) /\ Shown(i)'
           /\ t \in DOMAIN m'.attachments[i] /\ k[2] \in Roots(m'.projections[i])
           /\ t \notin Misdirected(m'.projections[i], m'.attachments[i])
           /\ \A c \in ExplicitClaims(m'.projections[i], m'.attachments[i]) :
                c[1] = t <=> c[2] = k[2]
           => k \in DOMAIN m'.rows /\ m'.rows[k].tui = t]_vars

\* The selection stays on its row through every reordering while the row is
\* there: a key the user presses acts on the row it was meant for.
SelectionFollows ==
  [][SelectedKey(m) \in DOMAIN m'.rows /\ SelectedKey(m') # SelectedKey(m)
       => m'.rows = m.rows]_vars

\* Attention the user dismissed stays dismissed until it is another one, its
\* row is updated and works, or a ready is announced; and no attention is
\* dismissed but by the user: not because an earlier one was.
DismissalLasts ==
  put = {<<k, Occurrence(m.rows[k])>> : k \in {k \in DOMAIN m.rows : IsDismissed(m.rows[k])}}

\* The terminal a row would focus is the one of the last sample, as fresh and
\* as focusable as it is there; and a key that asks for it does so for a
\* connected server, and for a terminal that sample can focus now.
FocusCurrent ==
  /\ LET k == SelectedKey(m)
         tui == m.attachments[k[1]][m.rows[k].tui]
     IN  Focusable(m) =>
           /\ monitor[k[1]] = "connected"
           /\ IF k[1] \in V2 THEN tui.focus /\ ~tui.stale ELSE k[1] \in m.v1Focus
  /\ \A k \in DOMAIN m.rows :
       LET row == m.rows[k]
       IN  /\ row.category = "v1" => (row.focus <=> k[1] \in m.v1Focus)
           /\ row.category = "attached" =>
                /\ row.tui \in DOMAIN m.attachments[k[1]]
                /\ row.focus = m.attachments[k[1]][row.tui].focus
                /\ row.attachmentStale = m.attachments[k[1]][row.tui].stale
           /\ row.category \notin {"v1", "attached"} => ~row.focus

\* Only servers there are have rows, and they are connected as the monitor
\* says, however late a sample of a removed one comes.
NoGhostRows ==
  /\ {k[1] : k \in DOMAIN m.rows} \subseteq Present
  /\ DOMAIN m.projections \subseteq Present
  /\ m.connected = {i \in Instances : monitor[i] = "connected"}

\* Between two states of a row that works only the time counts that passed
\* while its server was connected and had projected: the counter stands
\* still while it is disconnected, and does not jump afterwards.
CounterRuns(k) ==
  LET passed == IF k[1] \in current THEN now' - now ELSE 0
  IN  /\ k \in DOMAIN m'.rows
      /\ Elapsed(m.rows[k], now) # None /\ Elapsed(m'.rows[k], now') # None
      => Elapsed(m'.rows[k], now') = Elapsed(m.rows[k], now) + passed

\* So it is with the rows of a v1 server.
V1CountersFreeze == [][\A k \in DOMAIN m.rows : k[1] \notin V2 => CounterRuns(k)]_vars

\* And so it is documented of every row: "Disconnected counters freeze and
\* exclude disconnected time".
CountersFreeze == [][\A k \in DOMAIN m.rows : CounterRuns(k)]_vars
=============================================================================
