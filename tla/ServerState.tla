---------------------------- MODULE ServerState ----------------------------
(***************************************************************************)
(* The reducer of one OpenCode server, src/src/state.rs: what the monitor  *)
(* knows of a server's sessions, and how a snapshot or an event of the     *)
(* server changes it.  The module has no variables: a reducer is a value   *)
(* of StateRecord, and every operation maps a reducer to the next one, as  *)
(* the &mut self methods of ServerState do.                                *)
(*                                                                         *)
(* Abstracted: titles, slugs, directories and timestamps (no decision      *)
(* reads them), hence session.renamed; the payload of a retry.  Permission *)
(* and question requests are the members of two disjoint sets, so that one *)
(* index `owner' stands for the two maps `permissions' and `questions'.    *)
(***************************************************************************)
EXTENDS Naturals, FiniteSets

CONSTANTS Sessions,     \* session IDs
          Permissions,  \* permission request IDs
          Questions,    \* question request IDs
          None          \* no session, no parent

Requests == Permissions \cup Questions

ASSUME StateAssumption ==
  /\ None \notin Sessions \cup Requests
  /\ Permissions \cap Questions = {}
  /\ IsFiniteSet(Sessions)

\* A status of a kind Beacon does not know counts as idle in every decision.
Statuses == {"idle", "busy", "retry"}

Active == {"busy", "retry"}

\* A session the server has reported.  `present' is membership in the map
\* `sessions'; `known' is metadata_known.
SessionRecord ==
  [present : BOOLEAN, known : BOOLEAN, parent : Sessions \cup {None},
   status : Statuses, requests : SUBSET Requests]

\* SessionRecord::default(), and the value of every session not in the map.
NoSession ==
  [present |-> FALSE, known |-> FALSE, parent |-> None,
   status |-> "idle", requests |-> {}]

StateRecord ==
  [sessions : [Sessions -> SessionRecord],
   owner : [Requests -> Sessions \cup {None}],
   seen : SUBSET Requests,
   armed : SUBSET Sessions]

InitState ==
  [sessions |-> [s \in Sessions |-> NoSession],
   owner |-> [r \in Requests |-> None],
   seen |-> {},
   armed |-> {}]

\* The wire events the reducer acts on.  session.updated carries the same
\* information as session.created; `failed' (session.execution.failed of the
\* v2 protocol) is a state event the reducer has no rule for; `message'
\* stands for every event that is not a state event.
Event ==
       [kind : {"status"}, session : Sessions, status : Statuses]
  \cup [kind : {"created"}, session : Sessions, parent : Sessions \cup {None}]
  \cup [kind : {"deleted", "failed"}, session : Sessions]
  \cup [kind : {"asked"}, request : Requests, session : Sessions]
  \cup [kind : {"replied"}, request : Requests]
  \cup [kind : {"message"}]

IsStateEvent(e) == e.kind # "message"

\* The request index and the request sets of the session records say the
\* same of every pending request.
Coherent(st) ==
  \A r \in Requests, s \in Sessions : st.owner[r] = s <=> r \in st.sessions[s].requests

-----------------------------------------------------------------------------
(* Queries.                                                                *)

IsRoot(sessions, s) == sessions[s].known /\ sessions[s].parent = None

BusyRoots(sessions) == {s \in Sessions : IsRoot(sessions, s) /\ sessions[s].status \in Active}

\* The walk of resolve_root: step n of it stands at the n-th known ancestor
\* of s, or stays where the walk ended.  It ends at a root, at a session
\* whose ancestry is unknown, or goes round a cycle for ever.
Ancestor(sessions, s) ==
  LET up[n \in 0 .. Cardinality(Sessions)] ==
        IF n = 0 THEN s
        ELSE LET at == up[n - 1]
                 p  == sessions[at].parent
             IN  IF sessions[at].known /\ p # None /\ sessions[p].known
                 THEN p ELSE at
  IN  up[Cardinality(Sessions)]

RootResolved(sessions, s) == IsRoot(sessions, Ancestor(sessions, s))

\* A subject whose ancestry is missing or cyclic stands for itself.
ResolveRoot(sessions, s) ==
  IF RootResolved(sessions, s) THEN Ancestor(sessions, s) ELSE s

EffectivelyIdle(st, s) ==
  /\ st.sessions[s].present
  /\ st.sessions[s].status \notin Active
  /\ \A r \in Requests :
       st.owner[r] # None => ResolveRoot(st.sessions, st.owner[r]) # s

-----------------------------------------------------------------------------
(* The effect of one event, apply_event_core.                              *)

\* The entry of a session is made when it is first written.
Write(st, s, record) == [st EXCEPT !.sessions = [@ EXCEPT ![s] = record]]

ApplyStatus(st, s, status) ==
  Write(st, s, [st.sessions[s] EXCEPT !.present = TRUE, !.status = status])

UpdateMetadata(st, s, parent) ==
  Write(st, s, [st.sessions[s] EXCEPT !.present = TRUE, !.known = TRUE, !.parent = parent])

\* Mutant of DeleteSession: the request indexes keep the requests of the session.
DeleteSessionKeepsIndex(st, s) ==
  [Write(st, s, NoSession) EXCEPT !.armed = @ \ {s}]

DeleteSession(st, s) ==
  [Write(st, s, NoSession) EXCEPT
     !.owner = [r \in Requests |-> IF st.owner[r] = s THEN None ELSE st.owner[r]],
     !.armed = @ \ {s}]

\* A request that moved leaves the record of its previous session.
UpsertRequest(st, r, s) ==
  [st EXCEPT
     !.owner = [@ EXCEPT ![r] = s],
     !.sessions = [x \in Sessions |->
        IF x = s
        THEN [st.sessions[x] EXCEPT !.present = TRUE, !.requests = @ \cup {r}]
        ELSE IF x = st.owner[r]
        THEN [st.sessions[x] EXCEPT !.requests = @ \ {r}]
        ELSE st.sessions[x]]]

RemoveRequest(st, r) ==
  [st EXCEPT
     !.owner = [@ EXCEPT ![r] = None],
     !.sessions = [x \in Sessions |->
        IF x = st.owner[r]
        THEN [st.sessions[x] EXCEPT !.requests = @ \ {r}]
        ELSE st.sessions[x]]]

ApplyEventCore(st, e) ==
  CASE e.kind = "status"  -> ApplyStatus(st, e.session, e.status)
    [] e.kind = "created" -> UpdateMetadata(st, e.session, e.parent)
    [] e.kind = "deleted" -> DeleteSession(st, e.session)
    [] e.kind = "asked"   -> UpsertRequest(st, e.request, e.session)
    [] e.kind = "replied" -> RemoveRequest(st, e.request)
    [] OTHER              -> st

-----------------------------------------------------------------------------
(* Ready arms and attention.                                               *)

NormalizeReadyArms(st) == [st EXCEPT !.armed = {s \in @ : IsRoot(st.sessions, s)}]

ArmBusyRoots(st) == [st EXCEPT !.armed = @ \cup BusyRoots(st.sessions)]

\* The arms that take_ready_attention takes and disarm_initially_idle_roots drops.
ReadyRoots(st) == {s \in st.armed : EffectivelyIdle(st, s)}

RequestAttention(st, r, s, source, initial) ==
  [kind |-> IF r \in Questions THEN "question" ELSE "permission",
   root |-> ResolveRoot(st.sessions, s), subject |-> s, request |-> r,
   source |-> source, initial |-> initial, resolved |-> RootResolved(st.sessions, s)]

ReadyAttention(st, source) ==
  {[kind |-> "ready", root |-> s, subject |-> s, request |-> None,
    source |-> source, initial |-> FALSE, resolved |-> TRUE] : s \in ReadyRoots(st)}

DropReady(st) == [st EXCEPT !.armed = @ \ ReadyRoots(st)]

-----------------------------------------------------------------------------
(* apply_event_with_updates.                                               *)

\* The request this event makes newly pending, unless it was seen before.
FreshRequests(st, e) ==
  IF e.kind = "asked" /\ e.request \notin st.seen THEN {e.request} ELSE {}

\* The reducer after the event, its arms refreshed and its request marked as
\* seen, before the ready roots are taken.
Reduced(st, e) ==
  LET armed == ArmBusyRoots(NormalizeReadyArms(ApplyEventCore(st, e)))
  IN  [armed EXCEPT !.seen = @ \cup FreshRequests(st, e)]

ApplyEvent(st, e) == DropReady(Reduced(st, e))

EventAttention(st, e) ==
  LET reduced == Reduced(st, e)
  IN  {RequestAttention(reduced, r, e.session, "live", FALSE) : r \in FreshRequests(st, e)}
        \cup ReadyAttention(reduced, "live")

-----------------------------------------------------------------------------
(* reconcile_replayed_with_updates: the candidate a snapshot starts, and   *)
(* what becomes of it once the journal has been replayed over it.          *)

\* A complete answer of the server: the sessions listed with their parents,
\* the statuses listed ("idle" where the answer names none) and the
\* pending requests.
Snapshot ==
  [listed : SUBSET Sessions,
   parent : [Sessions -> Sessions \cup {None}],
   reported : SUBSET Sessions,
   status : [Sessions -> Statuses],
   owner : [Requests -> Sessions \cup {None}]]

\* The session record a snapshot makes.
SnapshotRecord(snapshot, s) ==
  LET pending == {r \in Requests : snapshot.owner[r] = s}
  IN  [present  |-> s \in snapshot.listed \cup snapshot.reported \/ pending # {},
       known    |-> s \in snapshot.listed,
       parent   |-> IF s \in snapshot.listed THEN snapshot.parent[s] ELSE None,
       status   |-> IF s \in snapshot.reported THEN snapshot.status[s] ELSE "idle",
       requests |-> pending]

\* Mutants of InstallSnapshot: the seen requests are forgotten; the arms are
\* forgotten; a session the snapshot does not list survives it.
InstallSnapshotForgetsSeen(st, snapshot) ==
  [st EXCEPT !.sessions = [s \in Sessions |-> SnapshotRecord(snapshot, s)],
             !.owner = snapshot.owner,
             !.seen = {}]

InstallSnapshotDisarms(st, snapshot) ==
  [st EXCEPT !.sessions = [s \in Sessions |-> SnapshotRecord(snapshot, s)],
             !.owner = snapshot.owner,
             !.armed = {}]

InstallSnapshotMerges(st, snapshot) ==
  [st EXCEPT !.sessions = [s \in Sessions |->
                IF s \in snapshot.listed THEN SnapshotRecord(snapshot, s)
                ELSE st.sessions[s]],
             !.owner = snapshot.owner]

\* install_snapshot over a fresh candidate, which keeps the seen requests and
\* the arms of the reducer it will replace.
InstallSnapshot(st, snapshot) ==
  [st EXCEPT !.sessions = [s \in Sessions |-> SnapshotRecord(snapshot, s)],
             !.owner = snapshot.owner]

UnseenRequests(st) == {r \in Requests : st.owner[r] # None /\ r \notin st.seen}

\* Mutant of Settled: a root busy in the snapshot is armed although its ready
\* was emitted meanwhile.
SettledRearms(candidate, snapshotBusy, liveReady) ==
  LET armed == ArmBusyRoots([NormalizeReadyArms(candidate)
                               EXCEPT !.armed = @ \cup snapshotBusy])
  IN  [armed EXCEPT !.seen = @ \cup UnseenRequests(armed)]

\* The candidate with its arms settled and its requests marked as seen.  The
\* roots busy in the snapshot are armed after the normalisation, except those
\* whose ready the live stream already emitted.
Settled(candidate, snapshotBusy, liveReady) ==
  LET armed == ArmBusyRoots([NormalizeReadyArms(candidate)
                               EXCEPT !.armed = @ \cup (snapshotBusy \ liveReady)])
  IN  [armed EXCEPT !.seen = @ \cup UnseenRequests(armed)]

\* Mutant of FinishReconcile: the ready roots stay armed.
FinishReconcileKeepsReady(candidate, snapshotBusy, liveReady) ==
  Settled(candidate, snapshotBusy, liveReady)

FinishReconcile(candidate, snapshotBusy, liveReady) ==
  DropReady(Settled(candidate, snapshotBusy, liveReady))

ReconcileAttention(candidate, snapshotBusy, liveReady, initial) ==
  LET settled == Settled(candidate, snapshotBusy, liveReady)
  IN  {RequestAttention(settled, r, settled.owner[r], "snapshot", initial)
          : r \in UnseenRequests(candidate)}
        \cup (IF initial THEN {} ELSE ReadyAttention(settled, "snapshot"))
=============================================================================
