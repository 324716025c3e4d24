-------------------------- MODULE ServerState_proofs --------------------------
(***************************************************************************)
(* Lemmas about the operations of the reducer: what each of them keeps of  *)
(* the type and of the coherence of the request indexes, and what it does  *)
(* to the seen requests and to the arms.                                   *)
(***************************************************************************)
EXTENDS ServerState, TLAPS

-----------------------------------------------------------------------------
(* apply_event_core.                                                       *)

\* Writing one record of the table keeps the reducer a reducer.
LEMMA WriteType ==
  ASSUME NEW st \in StateRecord, NEW s \in Sessions, NEW record \in SessionRecord
  PROVE  Write(st, s, record) \in StateRecord
<1>1. st.sessions \in [Sessions -> SessionRecord]
  BY DEF StateRecord
<1>2. [st.sessions EXCEPT ![s] = record] \in [Sessions -> SessionRecord]
  BY <1>1
<1> QED BY <1>2 DEF Write, StateRecord

\* An event keeps the reducer a reducer.
LEMMA CoreType ==
  ASSUME NEW st \in StateRecord, NEW e \in Event
  PROVE  ApplyEventCore(st, e) \in StateRecord
<1> USE StateAssumption
<1>0. st.sessions \in [Sessions -> SessionRecord]
  BY DEF StateRecord
<1>1. CASE e.kind = "status"
  <2>1. e.session \in Sessions /\ e.status \in Statuses
    BY <1>1 DEF Event
  <2>2. st.sessions[e.session] \in SessionRecord
    BY <1>0, <2>1
  <2>3. [st.sessions[e.session] EXCEPT !.present = TRUE, !.status = e.status]
           \in SessionRecord
    BY <2>1, <2>2 DEF SessionRecord
  <2>4. ApplyStatus(st, e.session, e.status) \in StateRecord
    BY <2>1, <2>3, WriteType DEF ApplyStatus
  <2> QED BY <1>1, <2>4 DEF ApplyEventCore
<1>2. CASE e.kind = "created"
  <2>1. e.session \in Sessions /\ e.parent \in Sessions \cup {None}
    BY <1>2 DEF Event
  <2>2. st.sessions[e.session] \in SessionRecord
    BY <1>0, <2>1
  <2>3. [st.sessions[e.session] EXCEPT !.present = TRUE, !.known = TRUE,
                                        !.parent = e.parent] \in SessionRecord
    BY <2>1, <2>2 DEF SessionRecord
  <2>4. UpdateMetadata(st, e.session, e.parent) \in StateRecord
    BY <2>1, <2>3, WriteType DEF UpdateMetadata
  <2> QED BY <1>2, <2>4 DEF ApplyEventCore
<1>3. CASE e.kind = "deleted"
  <2>1. e.session \in Sessions
    BY <1>3 DEF Event
  <2>2. DeleteSession(st, e.session) \in StateRecord
    BY <2>1 DEF DeleteSession, Write, NoSession, StateRecord, SessionRecord, Statuses
  <2> QED BY <1>3, <2>2 DEF ApplyEventCore
<1>4. CASE e.kind = "asked"
  <2>1. e.request \in Requests /\ e.session \in Sessions
    BY <1>4 DEF Event
  <2>2. \A x \in Sessions :
          /\ [st.sessions[x] EXCEPT !.present = TRUE, !.requests = @ \cup {e.request}]
                \in SessionRecord
          /\ [st.sessions[x] EXCEPT !.requests = @ \ {e.request}] \in SessionRecord
    <3> TAKE x \in Sessions
    <3>1. st.sessions[x] \in SessionRecord
      BY <1>0
    <3> QED BY <2>1, <3>1 DEF SessionRecord
  <2>3. [st.owner EXCEPT ![e.request] = e.session] \in [Requests -> Sessions \cup {None}]
    BY <2>1 DEF StateRecord
  <2>4. UpsertRequest(st, e.request, e.session) \in StateRecord
    BY <1>0, <2>2, <2>3 DEF UpsertRequest, StateRecord
  <2> QED BY <1>4, <2>4 DEF ApplyEventCore
<1>5. CASE e.kind = "replied"
  <2>1. e.request \in Requests
    BY <1>5 DEF Event
  <2>2. \A x \in Sessions :
          [st.sessions[x] EXCEPT !.requests = @ \ {e.request}] \in SessionRecord
    <3> TAKE x \in Sessions
    <3>1. st.sessions[x] \in SessionRecord
      BY <1>0
    <3> QED BY <2>1, <3>1 DEF SessionRecord
  <2>3. [st.owner EXCEPT ![e.request] = None] \in [Requests -> Sessions \cup {None}]
    BY <2>1 DEF StateRecord
  <2>4. RemoveRequest(st, e.request) \in StateRecord
    BY <1>0, <2>2, <2>3 DEF RemoveRequest, StateRecord
  <2> QED BY <1>5, <2>4 DEF ApplyEventCore
<1>6. CASE e.kind \notin {"status", "created", "deleted", "asked", "replied"}
  BY <1>6 DEF ApplyEventCore
<1> QED BY <1>1, <1>2, <1>3, <1>4, <1>5, <1>6

\* An event keeps the request indexes coherent.
LEMMA CoreCoherent ==
  ASSUME NEW st \in StateRecord, NEW e \in Event, Coherent(st)
  PROVE  Coherent(ApplyEventCore(st, e))
<1> USE StateAssumption
<1>1. CASE e.kind = "status"
  <2>1. e.session \in Sessions /\ e.status \in Statuses
    BY <1>1 DEF Event
  <2>2. Coherent(ApplyStatus(st, e.session, e.status))
    BY <2>1 DEF ApplyStatus, Write, Coherent, StateRecord, SessionRecord
  <2> QED BY <1>1, <2>2 DEF ApplyEventCore
<1>2. CASE e.kind = "created"
  <2>1. e.session \in Sessions /\ e.parent \in Sessions \cup {None}
    BY <1>2 DEF Event
  <2>2. Coherent(UpdateMetadata(st, e.session, e.parent))
    BY <2>1 DEF UpdateMetadata, Write, Coherent, StateRecord, SessionRecord
  <2> QED BY <1>2, <2>2 DEF ApplyEventCore
<1>3. CASE e.kind = "deleted"
  <2>1. e.session \in Sessions
    BY <1>3 DEF Event
  <2>2. Coherent(DeleteSession(st, e.session))
    BY <2>1 DEF DeleteSession, Write, NoSession, Coherent, StateRecord, SessionRecord
  <2> QED BY <1>3, <2>2 DEF ApplyEventCore
<1>4. CASE e.kind = "asked"
  <2>1. e.request \in Requests /\ e.session \in Sessions
    BY <1>4 DEF Event
  <2>2. Coherent(UpsertRequest(st, e.request, e.session))
    BY <2>1 DEF UpsertRequest, Coherent, StateRecord, SessionRecord
  <2> QED BY <1>4, <2>2 DEF ApplyEventCore
<1>5. CASE e.kind = "replied"
  <2>1. e.request \in Requests
    BY <1>5 DEF Event
  <2>2. Coherent(RemoveRequest(st, e.request))
    BY <2>1 DEF RemoveRequest, Coherent, StateRecord, SessionRecord
  <2> QED BY <1>5, <2>2 DEF ApplyEventCore
<1>6. CASE e.kind \notin {"status", "created", "deleted", "asked", "replied"}
  BY <1>6 DEF ApplyEventCore
<1> QED BY <1>1, <1>2, <1>3, <1>4, <1>5, <1>6

\* An event marks no request as seen.
LEMMA CoreSeen ==
  ASSUME NEW st \in StateRecord, NEW e \in Event
  PROVE  ApplyEventCore(st, e).seen = st.seen
BY DEF ApplyEventCore, ApplyStatus, UpdateMetadata, DeleteSession, UpsertRequest,
       RemoveRequest, Write, StateRecord

\* An event makes no request pending but the one it asks.
LEMMA CorePending ==
  ASSUME NEW st \in StateRecord, NEW e \in Event, NEW r \in Requests,
         ApplyEventCore(st, e).owner[r] # None
  PROVE  st.owner[r] # None \/ (e.kind = "asked" /\ e.request = r)
<1> USE StateAssumption DEF StateRecord
<1>1. CASE e.kind = "status"
  BY <1>1 DEF ApplyEventCore, ApplyStatus, Write
<1>2. CASE e.kind = "created"
  BY <1>2 DEF ApplyEventCore, UpdateMetadata, Write
<1>3. CASE e.kind = "deleted"
  BY <1>3 DEF ApplyEventCore, DeleteSession, Write
<1>4. CASE e.kind = "asked"
  BY <1>4 DEF ApplyEventCore, UpsertRequest, Event
<1>5. CASE e.kind = "replied"
  BY <1>5 DEF ApplyEventCore, RemoveRequest, Event
<1>6. CASE e.kind \notin {"status", "created", "deleted", "asked", "replied"}
  BY <1>6 DEF ApplyEventCore
<1> QED BY <1>1, <1>2, <1>3, <1>4, <1>5, <1>6

-----------------------------------------------------------------------------
(* What every operation ends with: the arms are refreshed and the ready    *)
(* roots are taken.                                                        *)

\* Taking the ready roots leaves no ready root and drops no busy one.
LEMMA DropReadyFacts ==
  ASSUME NEW st \in StateRecord, BusyRoots(st.sessions) \subseteq st.armed
  PROVE  /\ DropReady(st) \in StateRecord
         /\ DropReady(st).sessions = st.sessions
         /\ DropReady(st).owner = st.owner
         /\ DropReady(st).seen = st.seen
         /\ BusyRoots(DropReady(st).sessions) \subseteq DropReady(st).armed
         /\ ReadyRoots(DropReady(st)) = {}
<1> DEFINE next == DropReady(st)
<1>1. /\ next.sessions = st.sessions /\ next.owner = st.owner /\ next.seen = st.seen
      /\ next.armed = st.armed \ ReadyRoots(st)
  BY DEF DropReady, StateRecord
<1>2. next \in StateRecord
  BY DEF DropReady, StateRecord
<1>3. \A s \in Sessions : EffectivelyIdle(next, s) <=> EffectivelyIdle(st, s)
  BY <1>1 DEF EffectivelyIdle
<1>4. ReadyRoots(next) = {}
  BY <1>1, <1>2, <1>3 DEF ReadyRoots, StateRecord
<1>5. \A s \in BusyRoots(st.sessions) : ~EffectivelyIdle(st, s)
  BY DEF BusyRoots, EffectivelyIdle
<1>6. BusyRoots(next.sessions) \subseteq next.armed
  BY <1>1, <1>5 DEF ReadyRoots
<1> QED BY <1>1, <1>2, <1>4, <1>6

\* Refreshing the arms arms every busy root and changes nothing else.
LEMMA ArmFacts ==
  ASSUME NEW st \in StateRecord, NEW extra \in SUBSET Sessions
  PROVE  LET armed == ArmBusyRoots([NormalizeReadyArms(st) EXCEPT !.armed = @ \cup extra])
         IN  /\ armed \in StateRecord
             /\ armed.sessions = st.sessions
             /\ armed.owner = st.owner
             /\ armed.seen = st.seen
             /\ BusyRoots(armed.sessions) \subseteq armed.armed
BY DEF ArmBusyRoots, NormalizeReadyArms, BusyRoots, StateRecord

\* Marking requests as seen.
LEMMA MarkFacts ==
  ASSUME NEW st \in StateRecord, NEW new \in SUBSET Requests
  PROVE  LET marked == [st EXCEPT !.seen = @ \cup new]
         IN  /\ marked \in StateRecord
             /\ marked.sessions = st.sessions
             /\ marked.owner = st.owner
             /\ marked.armed = st.armed
             /\ marked.seen = st.seen \cup new
BY DEF StateRecord

-----------------------------------------------------------------------------
(* apply_event_with_updates.                                               *)

\* A live event: the reducer it leaves, and the requests it announces.
LEMMA EventFacts ==
  ASSUME NEW st \in StateRecord, NEW e \in Event
  PROVE  /\ ApplyEvent(st, e) \in StateRecord
         /\ ApplyEvent(st, e).sessions = ApplyEventCore(st, e).sessions
         /\ ApplyEvent(st, e).owner = ApplyEventCore(st, e).owner
         /\ ApplyEvent(st, e).seen = st.seen \cup FreshRequests(st, e)
         /\ BusyRoots(ApplyEvent(st, e).sessions) \subseteq ApplyEvent(st, e).armed
         /\ ReadyRoots(ApplyEvent(st, e)) = {}
<1> DEFINE core == ApplyEventCore(st, e)
           armed == ArmBusyRoots(NormalizeReadyArms(core))
<1>1. core \in StateRecord /\ core.seen = st.seen
  BY CoreType, CoreSeen
<1>2. /\ armed \in StateRecord
      /\ armed.sessions = core.sessions
      /\ armed.owner = core.owner
      /\ armed.seen = core.seen
      /\ BusyRoots(armed.sessions) \subseteq armed.armed
  BY <1>1 DEF ArmBusyRoots, NormalizeReadyArms, BusyRoots, StateRecord
<1>3. FreshRequests(st, e) \in SUBSET Requests
  BY DEF FreshRequests, Event
<1>4. Reduced(st, e) = [armed EXCEPT !.seen = @ \cup FreshRequests(st, e)]
  BY DEF Reduced
<1>5. /\ Reduced(st, e) \in StateRecord
      /\ Reduced(st, e).sessions = core.sessions
      /\ Reduced(st, e).owner = core.owner
      /\ Reduced(st, e).seen = st.seen \cup FreshRequests(st, e)
      /\ BusyRoots(Reduced(st, e).sessions) \subseteq Reduced(st, e).armed
  BY <1>1, <1>2, <1>3, <1>4, MarkFacts
<1> HIDE DEF core, armed
<1> QED BY <1>5, DropReadyFacts DEF ApplyEvent, core

\* The requests a live event announces are the fresh ones.
LEMMA EventAnnounces ==
  ASSUME NEW st, NEW e, NEW r \in Requests
  PROVE  (\E a \in EventAttention(st, e) : a.request = r) <=> r \in FreshRequests(st, e)
<1>1. \A a \in ReadyAttention(Reduced(st, e), "live") : a.request = None
  BY DEF ReadyAttention
<1>2. \A x : RequestAttention(Reduced(st, e), x, e.session, "live", FALSE).request = x
  BY DEF RequestAttention
<1> QED BY <1>1, <1>2, StateAssumption DEF EventAttention

-----------------------------------------------------------------------------
(* reconcile_replayed_with_updates.                                        *)

\* A snapshot over any reducer is a reducer with coherent indexes, which
\* remembers the requests seen before.
LEMMA InstallFacts ==
  ASSUME NEW st \in StateRecord, NEW snap \in Snapshot
  PROVE  /\ InstallSnapshot(st, snap) \in StateRecord
         /\ Coherent(InstallSnapshot(st, snap))
         /\ InstallSnapshot(st, snap).seen = st.seen
<1> USE StateAssumption
<1>1. \A s \in Sessions : SnapshotRecord(snap, s) \in SessionRecord
  BY DEF SnapshotRecord, Snapshot, SessionRecord, Statuses
<1>2. snap.owner \in [Requests -> Sessions \cup {None}]
  BY DEF Snapshot
<1>3. InstallSnapshot(st, snap) \in StateRecord
  BY <1>1, <1>2 DEF InstallSnapshot, StateRecord
<1>4. \A s \in Sessions :
        InstallSnapshot(st, snap).sessions[s].requests = {r \in Requests : snap.owner[r] = s}
  BY DEF InstallSnapshot, SnapshotRecord, StateRecord
<1>5. /\ InstallSnapshot(st, snap).owner = snap.owner
      /\ InstallSnapshot(st, snap).seen = st.seen
  BY DEF InstallSnapshot, StateRecord
<1>6. Coherent(InstallSnapshot(st, snap))
  BY <1>4, <1>5 DEF Coherent
<1> QED BY <1>3, <1>5, <1>6

\* The end of a reconciliation: every pending request is now seen.
LEMMA FinishFacts ==
  ASSUME NEW st \in StateRecord, NEW busy \in SUBSET Sessions, NEW live \in SUBSET Sessions
  PROVE  LET next == FinishReconcile(st, busy, live)
         IN  /\ next \in StateRecord
             /\ next.sessions = st.sessions
             /\ next.owner = st.owner
             /\ next.seen = st.seen \cup UnseenRequests(st)
             /\ BusyRoots(next.sessions) \subseteq next.armed
             /\ ReadyRoots(next) = {}
<1> DEFINE armed == ArmBusyRoots([NormalizeReadyArms(st) EXCEPT !.armed = @ \cup (busy \ live)])
<1>1. /\ armed \in StateRecord
      /\ armed.sessions = st.sessions
      /\ armed.owner = st.owner
      /\ armed.seen = st.seen
      /\ BusyRoots(armed.sessions) \subseteq armed.armed
  BY ArmFacts
<1>2. UnseenRequests(armed) = UnseenRequests(st)
  BY <1>1 DEF UnseenRequests
<1>3. UnseenRequests(st) \in SUBSET Requests
  BY DEF UnseenRequests
<1>4. Settled(st, busy, live) = [armed EXCEPT !.seen = @ \cup UnseenRequests(armed)]
  BY DEF Settled
<1> HIDE DEF armed
<1>5. /\ Settled(st, busy, live) \in StateRecord
      /\ Settled(st, busy, live).sessions = st.sessions
      /\ Settled(st, busy, live).owner = st.owner
      /\ Settled(st, busy, live).seen = st.seen \cup UnseenRequests(st)
      /\ BusyRoots(Settled(st, busy, live).sessions) \subseteq Settled(st, busy, live).armed
  BY <1>1, <1>2, <1>3, <1>4, MarkFacts
<1> QED BY <1>5, DropReadyFacts DEF FinishReconcile

\* The requests a reconciliation announces are the unseen pending ones.
LEMMA ReconcileAnnounces ==
  ASSUME NEW st, NEW busy, NEW live, NEW initial \in BOOLEAN, NEW r \in Requests
  PROVE  (\E a \in ReconcileAttention(st, busy, live, initial) : a.request = r)
           <=> r \in UnseenRequests(st)
<1> DEFINE settled == Settled(st, busy, live)
<1>1. \A a \in ReadyAttention(settled, "snapshot") : a.request = None
  BY DEF ReadyAttention
<1>2. \A x : RequestAttention(settled, x, settled.owner[x], "snapshot", initial).request = x
  BY DEF RequestAttention
<1> HIDE DEF settled
<1> QED BY <1>1, <1>2, StateAssumption DEF ReconcileAttention, settled

-----------------------------------------------------------------------------
(* What one event says of a session and of a request.                      *)

TellsStatus(e, s) == e.kind \in {"status", "deleted"} /\ e.session = s

TellsMetadata(e, s) == e.kind \in {"created", "deleted"} /\ e.session = s

TellsRequest(e, r) == e.kind \in {"asked", "replied"} /\ e.request = r

\* What it makes of the status, the metadata and the owner known before.
StatusAfter(e, s, before) ==
  IF ~TellsStatus(e, s) THEN before
  ELSE IF e.kind = "status" THEN e.status ELSE "idle"

KnownAfter(e, s, before) ==
  IF ~TellsMetadata(e, s) THEN before
  ELSE IF e.kind = "created" THEN TRUE ELSE FALSE

ParentAfter(e, s, before) ==
  IF ~TellsMetadata(e, s) THEN before
  ELSE IF e.kind = "created" THEN e.parent ELSE None

OwnerAfter(e, r, before) ==
  IF TellsRequest(e, r)
  THEN IF e.kind = "asked" THEN e.session ELSE None
  ELSE IF e.kind = "deleted" /\ before = e.session THEN None ELSE before

\* An event acts on each of them apart, whatever else the reducer holds.
LEMMA CoreEffect ==
  ASSUME NEW st \in StateRecord, NEW e \in Event,
         NEW next, next = ApplyEventCore(st, e)
  PROVE  /\ \A s \in Sessions :
              /\ next.sessions[s].status = StatusAfter(e, s, st.sessions[s].status)
              /\ next.sessions[s].known = KnownAfter(e, s, st.sessions[s].known)
              /\ next.sessions[s].parent = ParentAfter(e, s, st.sessions[s].parent)
         /\ \A r \in Requests : next.owner[r] = OwnerAfter(e, r, st.owner[r])
<1> USE StateAssumption
<1>0. /\ st.sessions \in [Sessions -> SessionRecord]
      /\ st.owner \in [Requests -> Sessions \cup {None}]
  BY DEF StateRecord
<1> USE DEF StatusAfter, KnownAfter, ParentAfter, OwnerAfter, TellsStatus, TellsMetadata, TellsRequest
<1>1. CASE e.kind = "status"
  <2>1. next = ApplyStatus(st, e.session, e.status) /\ e.session \in Sessions
    BY <1>1 DEF ApplyEventCore, Event
  <2>2. /\ next.owner = st.owner
        /\ next.sessions = [st.sessions EXCEPT ![e.session] =
             [st.sessions[e.session] EXCEPT !.present = TRUE, !.status = e.status]]
    BY <2>1 DEF ApplyStatus, Write, StateRecord
  <2>3. /\ next.sessions[e.session].status = e.status
        /\ next.sessions[e.session].known = st.sessions[e.session].known
        /\ next.sessions[e.session].parent = st.sessions[e.session].parent
    BY <1>0, <2>1, <2>2 DEF SessionRecord
  <2>4. \A s \in Sessions : s # e.session => next.sessions[s] = st.sessions[s]
    BY <1>0, <2>2
  <2> QED BY <1>1, <2>2, <2>3, <2>4
<1>2. CASE e.kind = "created"
  <2>1. /\ next = UpdateMetadata(st, e.session, e.parent)
        /\ e.session \in Sessions /\ e.parent \in Sessions \cup {None}
    BY <1>2 DEF ApplyEventCore, Event
  <2>2. /\ next.owner = st.owner
        /\ next.sessions = [st.sessions EXCEPT ![e.session] =
             [st.sessions[e.session] EXCEPT !.present = TRUE, !.known = TRUE,
                                            !.parent = e.parent]]
    BY <2>1 DEF UpdateMetadata, Write, StateRecord
  <2>3. /\ next.sessions[e.session].status = st.sessions[e.session].status
        /\ next.sessions[e.session].known = TRUE
        /\ next.sessions[e.session].parent = e.parent
    BY <1>0, <2>1, <2>2 DEF SessionRecord
  <2>4. \A s \in Sessions : s # e.session => next.sessions[s] = st.sessions[s]
    BY <1>0, <2>2
  <2>5. \A s \in Sessions :
          next.sessions[s].known = KnownAfter(e, s, st.sessions[s].known)
    BY <1>2, <2>3, <2>4
  <2>6. \A s \in Sessions :
          /\ next.sessions[s].status = StatusAfter(e, s, st.sessions[s].status)
          /\ next.sessions[s].parent = ParentAfter(e, s, st.sessions[s].parent)
    BY <1>2, <2>3, <2>4
  <2>7. \A r \in Requests : next.owner[r] = OwnerAfter(e, r, st.owner[r])
    BY <1>2, <2>2
  <2> HIDE DEF StatusAfter, KnownAfter, ParentAfter, OwnerAfter
  <2> QED BY <2>5, <2>6, <2>7
<1>3. CASE e.kind = "deleted"
  <2>1. next = DeleteSession(st, e.session) /\ e.session \in Sessions
    BY <1>3 DEF ApplyEventCore, Event
  <2>2. /\ next.owner = [r \in Requests |-> IF st.owner[r] = e.session THEN None ELSE st.owner[r]]
        /\ next.sessions = [st.sessions EXCEPT ![e.session] = NoSession]
    BY <2>1 DEF DeleteSession, Write, StateRecord
  <2>3. \A s \in Sessions :
          /\ next.sessions[s].status = StatusAfter(e, s, st.sessions[s].status)
          /\ next.sessions[s].parent = ParentAfter(e, s, st.sessions[s].parent)
    BY <1>0, <1>3, <2>2 DEF NoSession
  <2>4. \A s \in Sessions :
          next.sessions[s].known = KnownAfter(e, s, st.sessions[s].known)
    <3> TAKE s \in Sessions
    <3>1. CASE s = e.session
      <4>1. next.sessions[s] = NoSession
        BY <1>0, <2>2, <3>1
      <4>2. next.sessions[s].known = FALSE
        BY <4>1 DEF NoSession
      <4>3. TellsMetadata(e, s) /\ e.kind # "created"
        BY <1>3, <3>1
      <4> QED BY <4>2, <4>3
    <3>2. CASE s # e.session
      <4>1. next.sessions[s] = st.sessions[s]
        BY <1>0, <2>2, <3>2
      <4>2. ~TellsMetadata(e, s)
        BY <3>2
      <4> QED BY <4>1, <4>2
    <3> QED BY <3>1, <3>2
  <2>5. \A r \in Requests : next.owner[r] = OwnerAfter(e, r, st.owner[r])
    BY <1>0, <1>3, <2>2
  <2> HIDE DEF StatusAfter, KnownAfter, ParentAfter, OwnerAfter
  <2> QED BY <2>3, <2>4, <2>5
<1>4. CASE e.kind = "asked"
  <2>1. /\ next = UpsertRequest(st, e.request, e.session)
        /\ e.request \in Requests /\ e.session \in Sessions
    BY <1>4 DEF ApplyEventCore, Event
  <2>2. /\ next.owner = [st.owner EXCEPT ![e.request] = e.session]
        /\ \A s \in Sessions : /\ next.sessions[s].status = st.sessions[s].status
                               /\ next.sessions[s].known = st.sessions[s].known
                               /\ next.sessions[s].parent = st.sessions[s].parent
    BY <1>0, <2>1 DEF UpsertRequest, StateRecord, SessionRecord
  <2> QED BY <1>0, <1>4, <2>1, <2>2
<1>5. CASE e.kind = "replied"
  <2>1. next = RemoveRequest(st, e.request) /\ e.request \in Requests
    BY <1>5 DEF ApplyEventCore, Event
  <2>2. /\ next.owner = [st.owner EXCEPT ![e.request] = None]
        /\ \A s \in Sessions : /\ next.sessions[s].status = st.sessions[s].status
                               /\ next.sessions[s].known = st.sessions[s].known
                               /\ next.sessions[s].parent = st.sessions[s].parent
    BY <1>0, <2>1 DEF RemoveRequest, StateRecord, SessionRecord
  <2> QED BY <1>0, <1>5, <2>1, <2>2
<1>6. CASE e.kind \notin {"status", "created", "deleted", "asked", "replied"}
  <2>1. next = st
    BY <1>6 DEF ApplyEventCore
  <2> QED BY <1>6, <2>1
<1> QED BY <1>1, <1>2, <1>3, <1>4, <1>5, <1>6

-----------------------------------------------------------------------------
(* What becomes of the arms.                                               *)

\* An event takes no arm away but that of the session it deletes, and gives none.
LEMMA CoreArms ==
  ASSUME NEW st \in StateRecord, NEW e \in Event
  PROVE  /\ ApplyEventCore(st, e).armed \subseteq st.armed
         /\ \A s \in st.armed :
              \/ s \in ApplyEventCore(st, e).armed
              \/ e.kind = "deleted" /\ e.session = s
<1>1. CASE e.kind = "deleted"
  BY <1>1 DEF ApplyEventCore, DeleteSession, Write, StateRecord
<1>2. CASE e.kind # "deleted"
  <2>1. ApplyEventCore(st, e).armed = st.armed
    BY <1>2
    DEF ApplyEventCore, ApplyStatus, UpdateMetadata, UpsertRequest, RemoveRequest, Write,
        StateRecord
  <2> QED BY <2>1
<1> QED BY <1>1, <1>2

\* The arms before the ready ones are taken, and those that are taken.
LEMMA ReducedArms ==
  ASSUME NEW st \in StateRecord, NEW e \in Event, NEW core, core = ApplyEventCore(st, e)
  PROVE  /\ Reduced(st, e).armed =
              {s \in core.armed : IsRoot(core.sessions, s)} \cup BusyRoots(core.sessions)
         /\ Reduced(st, e).sessions = core.sessions
         /\ ApplyEvent(st, e).armed = Reduced(st, e).armed \ ReadyRoots(Reduced(st, e))
         /\ ReadyRoots(Reduced(st, e)) \subseteq Reduced(st, e).armed
<1>1. core \in StateRecord
  BY CoreType
<1>2. /\ Reduced(st, e).armed =
           {s \in core.armed : IsRoot(core.sessions, s)} \cup BusyRoots(core.sessions)
      /\ Reduced(st, e).sessions = core.sessions
  BY <1>1 DEF Reduced, ArmBusyRoots, NormalizeReadyArms, StateRecord
<1>3. ApplyEvent(st, e).armed = Reduced(st, e).armed \ ReadyRoots(Reduced(st, e))
  <2>1. Reduced(st, e) \in StateRecord
    <3>1. FreshRequests(st, e) \in SUBSET Requests
      BY DEF FreshRequests, Event
    <3> QED BY <1>1, <3>1
            DEF Reduced, ArmBusyRoots, NormalizeReadyArms, BusyRoots, StateRecord
  <2> QED BY <2>1 DEF ApplyEvent, DropReady, StateRecord
<1>4. ReadyRoots(Reduced(st, e)) \subseteq Reduced(st, e).armed
  BY DEF ReadyRoots
<1> QED BY <1>2, <1>3, <1>4

LEMMA SettledArms ==
  ASSUME NEW st \in StateRecord, NEW busy \in SUBSET Sessions, NEW live \in SUBSET Sessions
  PROVE  /\ Settled(st, busy, live).armed =
              {s \in st.armed : IsRoot(st.sessions, s)}
                \cup (busy \ live) \cup BusyRoots(st.sessions)
         /\ Settled(st, busy, live).sessions = st.sessions
         /\ FinishReconcile(st, busy, live).armed =
              Settled(st, busy, live).armed \ ReadyRoots(Settled(st, busy, live))
         /\ ReadyRoots(Settled(st, busy, live)) \subseteq Settled(st, busy, live).armed
<1>1. /\ Settled(st, busy, live).armed =
           {s \in st.armed : IsRoot(st.sessions, s)}
             \cup (busy \ live) \cup BusyRoots(st.sessions)
      /\ Settled(st, busy, live).sessions = st.sessions
  BY DEF Settled, ArmBusyRoots, NormalizeReadyArms, StateRecord
<1>2. FinishReconcile(st, busy, live).armed =
        Settled(st, busy, live).armed \ ReadyRoots(Settled(st, busy, live))
  BY DEF FinishReconcile, DropReady, Settled, ArmBusyRoots, NormalizeReadyArms, StateRecord
<1>3. ReadyRoots(Settled(st, busy, live)) \subseteq Settled(st, busy, live).armed
  BY DEF ReadyRoots
<1> QED BY <1>1, <1>2, <1>3

\* A root that is taken as ready is not busy.
LEMMA ReadyIsIdle ==
  ASSUME NEW st, NEW s \in ReadyRoots(st)
  PROVE  st.sessions[s].status \notin Active
BY DEF ReadyRoots, EffectivelyIdle

LEMMA ReadyAttentionRoots ==
  ASSUME NEW st, NEW source, NEW s
  PROVE  (\E a \in ReadyAttention(st, source) : a.kind = "ready" /\ a.root = s)
           <=> s \in ReadyRoots(st)
<1>1. ASSUME NEW a \in ReadyAttention(st, source), a.root = s PROVE s \in ReadyRoots(st)
  <2>1. PICK x \in ReadyRoots(st) :
          a = [kind |-> "ready", root |-> x, subject |-> x, request |-> None,
               source |-> source, initial |-> FALSE, resolved |-> TRUE]
    BY DEF ReadyAttention
  <2> QED BY <1>1, <2>1
<1>2. ASSUME s \in ReadyRoots(st)
      PROVE  \E a \in ReadyAttention(st, source) : a.kind = "ready" /\ a.root = s
  <2> DEFINE a == [kind |-> "ready", root |-> s, subject |-> s, request |-> None,
                   source |-> source, initial |-> FALSE, resolved |-> TRUE]
  <2>1. a \in ReadyAttention(st, source)
    BY <1>2 DEF ReadyAttention
  <2> QED BY <2>1
<1> QED BY <1>1, <1>2

\* The readies that go out are those of the roots taken.
LEMMA EventReadies ==
  ASSUME NEW st, NEW e, NEW s
  PROVE  (\E a \in EventAttention(st, e) : a.kind = "ready" /\ a.root = s)
           <=> s \in ReadyRoots(Reduced(st, e))
<1>1. \A x : RequestAttention(Reduced(st, e), x, e.session, "live", FALSE).kind # "ready"
  BY DEF RequestAttention
<1>2. (\E a \in ReadyAttention(Reduced(st, e), "live") : a.kind = "ready" /\ a.root = s)
        <=> s \in ReadyRoots(Reduced(st, e))
  BY ReadyAttentionRoots
<1> QED BY <1>1, <1>2 DEF EventAttention

LEMMA ReconcileReadies ==
  ASSUME NEW st, NEW busy, NEW live, NEW initial \in BOOLEAN, NEW s
  PROVE  (\E a \in ReconcileAttention(st, busy, live, initial) :
            a.kind = "ready" /\ a.root = s)
           <=> ~initial /\ s \in ReadyRoots(Settled(st, busy, live))
<1> DEFINE settled == Settled(st, busy, live)
<1>1. \A x :
        RequestAttention(settled, x, settled.owner[x], "snapshot", initial).kind # "ready"
  BY DEF RequestAttention
<1> HIDE DEF settled
<1> QED BY <1>1, ReadyAttentionRoots DEF ReconcileAttention, settled

\* What a snapshot says of the sessions it lists, and the arms it leaves.
LEMMA InstallEffect ==
  ASSUME NEW st \in StateRecord, NEW snap \in Snapshot,
         NEW fresh, fresh = InstallSnapshot(st, snap)
  PROVE  /\ fresh.armed = st.armed
         /\ \A s \in Sessions :
              /\ fresh.sessions[s].known <=> s \in snap.listed
              /\ s \in snap.listed => fresh.sessions[s].parent = snap.parent[s]
              /\ fresh.sessions[s].status \in Active
                   <=> s \in snap.reported /\ snap.status[s] \in Active
BY DEF InstallSnapshot, SnapshotRecord, StateRecord, Snapshot, Active
=============================================================================
