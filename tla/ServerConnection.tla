-------------------------- MODULE ServerConnection --------------------------
(***************************************************************************)
(* The task that follows one OpenCode server, run_server and               *)
(* monitor_connection of src/src/monitor.rs, and the server it follows.    *)
(*                                                                         *)
(* The task opens the event stream of the server, asks for a snapshot and  *)
(* buffers the events that arrive meanwhile (bootstrap); then it applies   *)
(* every event as it comes (live), and whenever a trigger fires it asks    *)
(* for another snapshot while it goes on applying events, journals them    *)
(* (reconciling), replays the journal over the snapshot (replaying) and    *)
(* puts the result in the place of what it knew.  When the stream breaks   *)
(* it waits until discovery has verified the server again (waiting).       *)
(*                                                                         *)
(* The stream and the snapshot requests are different HTTP connections: an *)
(* event may reach the task long after a snapshot that already shows its   *)
(* effect.  A snapshot is itself several requests answered one by one.     *)
(*                                                                         *)
(* The server (the section "The server") is not code of the repository: it *)
(* is modelled by the requests and events the monitor handles.             *)
(***************************************************************************)
EXTENDS ServerState, Sequences

CONSTANTS Protocol,         \* "v1" or "v2"
          InitialServers,   \* what the server may hold when the task starts
          ServerOperations, \* which kinds of operation the server performs
          JournalCapacity,  \* BOOTSTRAP_EVENT_CAPACITY (1024, or 8 MiB)
          MaxOperations,    \* bound: operations of the server
          MaxBreaks,        \* bound: broken streams and failed attempts to open one
          MaxFailures,      \* bound: failed snapshot requests
          MaxResyncs        \* bound: manual resync requests

VARIABLES
  server,        \* the sessions and requests the server holds
  stream,        \* events the server sent and the task has not received
  streamOpen,    \* whether the server still holds the stream open
  used,          \* how much of each bound is used up
  phase,         \* where the task is
  reducer,       \* connection_state.reducer
  initialized,   \* connection_state.initialized
  snapshot,      \* the answers the snapshot request has so far
  journal,       \* events buffered (bootstrap) or journaled (reconciling)
  liveReady,     \* journal.ready_emitted
  coalesced,     \* the coalescing timer is armed
  rerun,         \* another snapshot is to follow the one in flight
  terminal,      \* the stream broke during bootstrap
  candidate,     \* the reducer being rebuilt from snapshot and journal
  snapshotBusy,  \* snapshot_busy_roots
  replayed,      \* how many journal entries the candidate has seen
  resync,        \* a manual resync request not yet noticed
  attention,     \* the attention emitted by the last step
  announced,     \* history: how often each request was announced, at most 2
  told,          \* history: sessions reported busy since their last ready
  owed           \* history: why a further snapshot has to be requested

serverVars  == <<server, stream, streamOpen>>
passVars    == <<snapshot, journal, liveReady>>
replayVars  == <<candidate, snapshotBusy, replayed>>
triggerVars == <<coalesced, rerun, resync>>
vars == <<serverVars, used, phase, reducer, initialized, passVars, triggerVars,
          terminal, replayVars, attention, announced, told, owed>>

\* What the server holds: live and deleted sessions, those whose aborted
\* execution has yet to report, and the requests ever asked.
ServerRecord ==
  [live : SUBSET Sessions, gone : SUBSET Sessions, aborting : SUBSET Sessions,
   parent : [Sessions -> Sessions \cup {None}], status : [Sessions -> Statuses],
   owner : [Requests -> Sessions \cup {None}], asked : SUBSET Requests]

ASSUME ConnectionAssumption ==
  /\ Protocol \in {"v1", "v2"}
  /\ InitialServers \subseteq ServerRecord
  /\ \A held \in InitialServers : held.live \cap held.gone = {}
  /\ JournalCapacity \in Nat
  /\ MaxOperations \in Nat /\ MaxBreaks \in Nat
  /\ MaxFailures \in Nat /\ MaxResyncs \in Nat

Phases == {"connecting", "bootstrap", "draining", "live", "reconciling",
           "replaying", "waiting", "stopped"}

InFlight == phase \in {"bootstrap", "reconciling"}

Parts == IF Protocol = "v1"
         THEN {"sessions", "statuses", "permissions", "questions"}
         ELSE {"sessions", "statuses"}

EmptySnapshot ==
  [listed |-> {}, parent |-> [s \in Sessions |-> None],
   reported |-> {}, status |-> [s \in Sessions |-> "idle"],
   owner |-> [r \in Requests |-> None]]

NoAnswers == [read |-> {}, answer |-> EmptySnapshot]

\* A step that emits no attention.
Quiet == attention' = {} /\ UNCHANGED <<announced, told>>

-----------------------------------------------------------------------------
(* The server.                                                             *)

\* An operation of the server: its state becomes `after' and, while a stream
\* is open, event e is on its way to the task.
Perform(operation, after, e) ==
  /\ operation \in ServerOperations
  /\ used.operations < MaxOperations
  /\ used' = [used EXCEPT !.operations = @ + 1]
  /\ server' = after
  /\ stream' = IF streamOpen THEN Append(stream, e) ELSE stream
  /\ UNCHANGED <<streamOpen, phase, reducer, initialized, passVars, triggerVars,
                 terminal, replayVars, owed>>
  /\ Quiet

Create(s, p) ==
  /\ s \notin server.live \cup server.gone
  /\ p \in server.live \cup {None}
  /\ Perform("create",
       [server EXCEPT !.live = @ \cup {s}, !.parent[s] = p, !.status[s] = "idle"],
       [kind |-> "created", session |-> s, parent |-> p])

\* What the v2 server says of a status: what became of the execution.
Execution == [busy |-> "started", idle |-> "ended", retry |-> "scheduled"]

\* The client words it like v1; a retry that says neither when nor why is
\* passed on as it is, and nobody heeds it.
AdaptV2Event(e) ==
  LET worded(status) == [kind |-> "status", session |-> e.session, status |-> status]
  IN  CASE e.execution = "started" -> worded("busy")
        [] e.execution = "ended" -> worded("idle")
        [] e.execution = "scheduled" /\ e.complete -> worded("retry")
        [] OTHER -> [kind |-> "message"]

\* The events that may tell of a status.
StatusEvents(s, status) ==
  IF Protocol = "v1" THEN {[kind |-> "status", session |-> s, status |-> status]}
  ELSE {AdaptV2Event([execution |-> Execution[status], session |-> s, complete |-> c]) :
          c \in BOOLEAN}

SetStatus(s, status) ==
  /\ s \in server.live
  /\ status \in {"idle", "busy"} \ {server.status[s]}
  /\ \E e \in StatusEvents(s, status) :
       Perform("status", [server EXCEPT !.status[s] = status], e)

Retry(s) ==
  /\ s \in server.live /\ server.status[s] = "busy"
  /\ \E e \in StatusEvents(s, "retry") :
       Perform("retry", [server EXCEPT !.status[s] = "retry"], e)

\* The v2 server reports a failed execution without a status.
Fail(s) ==
  /\ Protocol = "v2"
  /\ s \in server.live /\ server.status[s] \in Active
  /\ Perform("fail", [server EXCEPT !.status[s] = "idle"],
       [kind |-> "failed", session |-> s])

Delete(s) ==
  /\ s \in server.live
  /\ \A c \in server.live : server.parent[c] # s
  /\ Perform("delete",
       [server EXCEPT
          !.live = @ \ {s}, !.gone = @ \cup {s},
          !.aborting = IF server.status[s] \in Active THEN @ \cup {s} ELSE @,
          !.status[s] = "idle",
          !.owner = [r \in Requests |->
             IF server.owner[r] = s THEN None ELSE server.owner[r]]],
       [kind |-> "deleted", session |-> s])

\* The aborted execution of a deleted session reports that it is idle.
Abort(s) ==
  /\ s \in server.aborting
  /\ \E e \in StatusEvents(s, "idle") :
       Perform("delete", [server EXCEPT !.aborting = @ \ {s}], e)

Ask(r, s) ==
  /\ Protocol = "v1"
  /\ s \in server.live /\ r \notin server.asked
  /\ Perform("ask", [server EXCEPT !.owner[r] = s, !.asked = @ \cup {r}],
       [kind |-> "asked", request |-> r, session |-> s])

Reply(r) ==
  /\ server.owner[r] # None
  /\ Perform("ask", [server EXCEPT !.owner[r] = None],
       [kind |-> "replied", request |-> r])

Chatter == Perform("chatter", server, [kind |-> "message"])

\* The server answers one part of the snapshot request from its present state.
Answer(part) ==
  /\ InFlight
  /\ part \in Parts \ snapshot.read
  /\ snapshot' =
       [read |-> snapshot.read \cup {part},
        answer |->
          CASE part = "sessions" ->
                 [snapshot.answer EXCEPT !.listed = server.live, !.parent = server.parent]
            [] part = "statuses" ->
                 [snapshot.answer EXCEPT
                    !.reported = {s \in server.live : server.status[s] \in Active},
                    !.status = server.status]
            [] part = "permissions" ->
                 [snapshot.answer EXCEPT
                    !.owner = [r \in Requests |->
                       IF r \in Permissions THEN server.owner[r] ELSE snapshot.answer.owner[r]]]
            [] part = "questions" ->
                 [snapshot.answer EXCEPT
                    !.owner = [r \in Requests |->
                       IF r \in Questions THEN server.owner[r] ELSE snapshot.answer.owner[r]]]]
  /\ UNCHANGED <<serverVars, used, phase, reducer, initialized, journal, liveReady,
                 triggerVars, terminal, replayVars, owed>>
  /\ Quiet

\* The stream breaks: the events still on their way may be cut short.
BreakStream ==
  /\ streamOpen
  /\ used.breaks < MaxBreaks
  /\ used' = [used EXCEPT !.breaks = @ + 1]
  /\ streamOpen' = FALSE
  /\ \E n \in 0 .. Len(stream) : stream' = SubSeq(stream, 1, n)
  /\ UNCHANGED <<server, phase, reducer, initialized, passVars, triggerVars,
                 terminal, replayVars, owed>>
  /\ Quiet

ServerStep ==
  \/ \E s \in Sessions :
       \/ \E p \in Sessions \cup {None} : Create(s, p)
       \/ \E status \in Statuses : SetStatus(s, status)
       \/ Retry(s)
       \/ Fail(s)
       \/ Delete(s)
       \/ Abort(s)
  \/ \E r \in Requests : Reply(r) \/ \E s \in Sessions : Ask(r, s)
  \/ Chatter
  \/ BreakStream

-----------------------------------------------------------------------------
(* The snapshot and the steps every phase of the task is built from.       *)

\* The snapshot as the client hands it over: the v2 client reports a status
\* for every session it lists, busy exactly for the active ones.
Answered ==
  IF Protocol = "v1" THEN snapshot.answer
  ELSE [snapshot.answer EXCEPT
          !.reported = snapshot.answer.listed,
          !.status = [s \in Sessions |->
             IF s \in snapshot.answer.reported THEN "busy" ELSE "idle"]]

Complete == snapshot.read = Parts

ReportedBusy(answer) ==
  {s \in answer.reported : answer.status[s] \in Active}

\* The attention goes out, and the history records it.  `busy' are the
\* sessions this step reported as busy.
Emit(out, busy) ==
  /\ attention' = out
  /\ announced' = [r \in Requests |->
       IF (\E a \in out : a.request = r) /\ announced[r] < 2
       THEN announced[r] + 1 ELSE announced[r]]
  /\ told' = (told \cup busy) \ {s \in Sessions : \E a \in out : a.kind = "ready" /\ a.root = s}

\* handle_live_event: the event is reduced and its attention emitted.
HandleLiveEvent(e) ==
  /\ reducer' = ApplyEvent(reducer, e)
  /\ Emit(EventAttention(reducer, e),
          IF e.kind = "status" /\ e.status \in Active THEN {e.session} ELSE {})
  /\ owed' = IF IsStateEvent(e) THEN owed \cup {"event"} ELSE owed

ReadyEmitted == {s \in Sessions : \E a \in attention' : a.kind = "ready" /\ a.root = s}

\* Mutant of CanPoll: a full journal takes one more event.
CanPollFull == Len(journal) <= JournalCapacity

CanPoll == Len(journal) < JournalCapacity

\* A new snapshot request leaves, with a journal of its own.
RequestSnapshot ==
  /\ snapshot' = NoAnswers
  /\ journal' = <<>>
  /\ liveReady' = {}
  /\ owed' = {}

\* The snapshot request in flight, if any, is dropped with its journal.
DropPass ==
  /\ snapshot' = NoAnswers
  /\ journal' = <<>>
  /\ liveReady' = {}
  /\ coalesced' = FALSE
  /\ rerun' = FALSE

\* monitor_connection returns an error: the stream is dropped and the task
\* waits until discovery has verified the instance again.
Disconnect ==
  /\ phase' = "waiting"
  /\ stream' = <<>> /\ streamOpen' = FALSE
  /\ terminal' = FALSE
  /\ DropPass
  /\ UNCHANGED <<server, reducer, initialized, resync, replayVars, owed>>
  /\ Quiet

StreamEnded == stream = <<>> /\ ~streamOpen

-----------------------------------------------------------------------------
(* Bootstrap.                                                              *)

\* The stream opens and the bootstrap snapshot is requested.
Connect ==
  /\ phase = "connecting"
  /\ phase' = "bootstrap"
  /\ streamOpen' = TRUE /\ stream' = <<>>
  /\ RequestSnapshot
  /\ UNCHANGED <<server, used, reducer, initialized, triggerVars, terminal, replayVars>>
  /\ Quiet

\* The stream cannot be opened.
ConnectFails ==
  /\ phase = "connecting"
  /\ used.breaks < MaxBreaks
  /\ used' = [used EXCEPT !.breaks = @ + 1]
  /\ Disconnect

\* Every event is buffered, whether it is a state event or not.
BufferEvent ==
  /\ phase = "bootstrap"
  /\ stream # <<>> /\ CanPoll
  /\ journal' = Append(journal, Head(stream))
  /\ stream' = Tail(stream)
  /\ UNCHANGED <<server, streamOpen, used, phase, reducer, initialized, snapshot, liveReady,
                 triggerVars, terminal, replayVars, owed>>
  /\ Quiet

\* What follows the bootstrap: the buffered events are handled one by one,
\* and the timer is armed if a state event is among them.
StartDraining ==
  /\ phase' = "draining"
  /\ coalesced' = \E i \in DOMAIN journal : IsStateEvent(journal[i])
  /\ snapshot' = NoAnswers
  /\ UNCHANGED <<serverVars, journal, liveReady, rerun, resync, replayVars, owed>>

BootstrapStreamEnds ==
  /\ phase = "bootstrap"
  /\ StreamEnded /\ CanPoll
  /\ terminal' = TRUE
  /\ StartDraining
  /\ UNCHANGED <<used, reducer, initialized>>
  /\ Quiet

\* reconcile_with_updates: the snapshot alone replaces the reducer.
BootstrapSnapshot ==
  /\ phase = "bootstrap"
  /\ Complete
  /\ LET fresh == InstallSnapshot(reducer, Answered)
     IN  /\ reducer' = FinishReconcile(fresh, BusyRoots(fresh.sessions), {})
         /\ Emit(ReconcileAttention(fresh, BusyRoots(fresh.sessions), {}, ~initialized),
                 ReportedBusy(Answered))
  /\ initialized' = TRUE
  /\ StartDraining
  /\ UNCHANGED <<used, terminal>>

\* A failed bootstrap snapshot keeps the stream and the buffered events.
BootstrapSnapshotFails ==
  /\ phase = "bootstrap"
  /\ used.failures < MaxFailures
  /\ used' = [used EXCEPT !.failures = @ + 1]
  /\ StartDraining
  /\ UNCHANGED <<reducer, initialized, terminal>>
  /\ Quiet

DrainEvent ==
  /\ phase = "draining"
  /\ journal # <<>>
  /\ HandleLiveEvent(Head(journal))
  /\ journal' = Tail(journal)
  /\ UNCHANGED <<serverVars, used, phase, initialized, snapshot, liveReady, triggerVars,
                 terminal, replayVars>>

BootstrapEnds ==
  /\ phase = "draining"
  /\ journal = <<>> /\ ~terminal
  /\ phase' = "live"
  /\ UNCHANGED <<serverVars, used, reducer, initialized, passVars, triggerVars, terminal,
                 replayVars, owed>>
  /\ Quiet

BootstrapBroken ==
  /\ phase = "draining"
  /\ journal = <<>> /\ terminal
  /\ Disconnect
  /\ UNCHANGED used

-----------------------------------------------------------------------------
(* Live: events are applied as they come, until a trigger fires.           *)

LiveEvent ==
  /\ phase = "live" /\ ~rerun
  /\ stream # <<>>
  /\ HandleLiveEvent(Head(stream))
  /\ stream' = Tail(stream)
  /\ coalesced' = (coalesced \/ IsStateEvent(Head(stream)))
  /\ UNCHANGED <<server, streamOpen, used, phase, initialized, passVars, rerun, resync,
                 terminal, replayVars>>

\* The periodic tick starts a pass.
PeriodicPass ==
  /\ phase = "live" /\ ~rerun
  /\ phase' = "reconciling"
  /\ RequestSnapshot
  /\ UNCHANGED <<serverVars, used, reducer, initialized, triggerVars, terminal, replayVars>>
  /\ Quiet

\* A manual resync or the coalescing timer does.
TriggeredPass ==
  /\ phase = "live" /\ ~rerun
  /\ \/ resync /\ resync' = FALSE /\ UNCHANGED coalesced
     \/ coalesced /\ coalesced' = FALSE /\ UNCHANGED resync
  /\ phase' = "reconciling"
  /\ RequestSnapshot
  /\ UNCHANGED <<serverVars, used, reducer, initialized, rerun, terminal, replayVars>>
  /\ Quiet

\* The request that triggers asked for while another was in flight leaves
\* before anything else is looked at.
FollowUp ==
  /\ phase = "live" /\ rerun
  /\ rerun' = FALSE
  /\ phase' = "reconciling"
  /\ RequestSnapshot
  /\ UNCHANGED <<serverVars, used, reducer, initialized, coalesced, resync, terminal,
                 replayVars>>
  /\ Quiet

StreamEnds ==
  /\ \/ phase = "live" /\ ~rerun
     \/ phase = "reconciling" /\ CanPoll
  /\ StreamEnded
  /\ Disconnect
  /\ UNCHANGED used

-----------------------------------------------------------------------------
(* Reconciling: reconcile_in_flight.                                       *)

\* Mutant of JournalEvent: an event journaled asks for no further snapshot.
JournalEventUncovered ==
  /\ phase = "reconciling"
  /\ stream # <<>> /\ CanPoll
  /\ HandleLiveEvent(Head(stream))
  /\ stream' = Tail(stream)
  /\ journal' = IF IsStateEvent(Head(stream)) THEN Append(journal, Head(stream)) ELSE journal
  /\ liveReady' = liveReady \cup ReadyEmitted
  /\ UNCHANGED <<server, streamOpen, used, phase, initialized, snapshot, triggerVars,
                 terminal, replayVars>>

\* Mutant of JournalEvent: the stream is polled on, and what finds the journal
\* full is applied all the same.
JournalEventOverfull ==
  /\ phase = "reconciling"
  /\ stream # <<>>
  /\ HandleLiveEvent(Head(stream))
  /\ stream' = Tail(stream)
  /\ coalesced' = (coalesced \/ IsStateEvent(Head(stream)))
  /\ journal' = IF CanPoll /\ IsStateEvent(Head(stream)) THEN Append(journal, Head(stream)) ELSE journal
  /\ liveReady' = liveReady \cup ReadyEmitted
  /\ UNCHANGED <<server, streamOpen, used, phase, initialized, snapshot, rerun, resync,
                 terminal, replayVars>>

\* A state event is journaled first, then handled as a live event.
JournalEvent ==
  /\ phase = "reconciling"
  /\ stream # <<>> /\ CanPoll
  /\ HandleLiveEvent(Head(stream))
  /\ stream' = Tail(stream)
  /\ IF IsStateEvent(Head(stream))
     THEN journal' = Append(journal, Head(stream)) /\ coalesced' = TRUE
     ELSE UNCHANGED <<journal, coalesced>>
  /\ liveReady' = liveReady \cup ReadyEmitted
  /\ UNCHANGED <<server, streamOpen, used, phase, initialized, snapshot, rerun, resync,
                 terminal, replayVars>>

\* A trigger that fires during the request asks for one that follows.
TriggerInFlight ==
  /\ phase = "reconciling"
  /\ \/ UNCHANGED <<coalesced, resync>>
     \/ resync /\ resync' = FALSE /\ UNCHANGED coalesced
     \/ coalesced /\ coalesced' = FALSE /\ UNCHANGED resync
  /\ rerun' = TRUE
  /\ UNCHANGED <<serverVars, used, phase, reducer, initialized, passVars, terminal,
                 replayVars, owed>>
  /\ Quiet

\* Mutant of DrainReadyTriggers: a manual request drained here is forgotten.
DrainReadyTriggersForgets ==
  \E periodic \in BOOLEAN, elapsed \in BOOLEAN :
    /\ elapsed => coalesced
    /\ coalesced' = (coalesced /\ ~elapsed)
    /\ resync' = FALSE
    /\ rerun' = (rerun \/ periodic \/ elapsed)

\* drain_ready_reconciliation_triggers: what is ready when the request ends
\* belongs to the same following request.  A manual request is ready as soon
\* as it was made; the two timers may have elapsed or not.
DrainReadyTriggers ==
  \E periodic \in BOOLEAN, elapsed \in BOOLEAN :
    /\ elapsed => coalesced
    /\ coalesced' = (coalesced /\ ~elapsed)
    /\ resync' = FALSE
    /\ rerun' = (rerun \/ periodic \/ resync \/ elapsed)

\* A complete snapshot becomes the candidate.  What it reports as busy is
\* news, except where a ready was emitted meanwhile: there it counts only if
\* it outlasts the replay.
SnapshotArrives ==
  /\ phase = "reconciling"
  /\ Complete
  /\ DrainReadyTriggers
  /\ phase' = "replaying"
  /\ candidate' = InstallSnapshot(reducer, Answered)
  /\ snapshotBusy' = BusyRoots(candidate'.sessions)
  /\ replayed' = 0
  /\ told' = told \cup (ReportedBusy(Answered) \ liveReady)
  /\ attention' = {}
  /\ snapshot' = NoAnswers
  /\ UNCHANGED <<serverVars, used, reducer, initialized, journal, liveReady, terminal,
                 announced, owed>>

\* A failed one changes nothing.
SnapshotFails ==
  /\ phase = "reconciling"
  /\ used.failures < MaxFailures
  /\ used' = [used EXCEPT !.failures = @ + 1]
  /\ DrainReadyTriggers
  /\ phase' = "live"
  /\ snapshot' = NoAnswers /\ journal' = <<>> /\ liveReady' = {}
  /\ UNCHANGED <<serverVars, reducer, initialized, terminal, replayVars, owed>>
  /\ Quiet

-----------------------------------------------------------------------------
(* Replaying: the loop of reconcile_replayed_with_updates, an entry of the *)
(* journal at a time.                                                      *)

\* Mutant of Replay: the last event first.
ReplayBackwards ==
  /\ phase = "replaying"
  /\ replayed < Len(journal)
  /\ candidate' = ApplyEventCore(candidate, journal[Len(journal) - replayed])
  /\ replayed' = replayed + 1
  /\ UNCHANGED <<serverVars, used, phase, reducer, initialized, passVars, triggerVars,
                 terminal, snapshotBusy, owed>>
  /\ Quiet

Replay ==
  /\ phase = "replaying"
  /\ replayed < Len(journal)
  /\ candidate' = ApplyEventCore(candidate, journal[replayed + 1])
  /\ replayed' = replayed + 1
  /\ UNCHANGED <<serverVars, used, phase, reducer, initialized, passVars, triggerVars,
                 terminal, snapshotBusy, owed>>
  /\ Quiet

FinishReplay ==
  /\ phase = "replaying"
  /\ replayed = Len(journal)
  /\ reducer' = FinishReconcile(candidate, snapshotBusy, liveReady)
  /\ Emit(ReconcileAttention(candidate, snapshotBusy, liveReady, ~initialized),
          {s \in Sessions : candidate.sessions[s].status \in Active})
  /\ initialized' = TRUE
  /\ phase' = "live"
  /\ candidate' = InitState /\ snapshotBusy' = {} /\ replayed' = 0
  /\ journal' = <<>> /\ liveReady' = {}
  /\ UNCHANGED <<serverVars, used, snapshot, triggerVars, terminal, owed>>

-----------------------------------------------------------------------------
(* Around the connection: run_server, its owner and the user.              *)

\* Discovery has verified the instance after the disconnect, and the delay
\* has passed.
Reverify ==
  /\ phase = "waiting"
  /\ phase' = "connecting"
  /\ UNCHANGED <<serverVars, used, reducer, initialized, passVars, triggerVars, terminal,
                 replayVars, owed>>
  /\ Quiet

\* A manual resync request is made.
RequestResync ==
  /\ phase # "stopped"
  /\ used.resyncs < MaxResyncs
  /\ used' = [used EXCEPT !.resyncs = @ + 1]
  /\ resync' = TRUE
  /\ owed' = owed \cup {"resync"}
  /\ UNCHANGED <<serverVars, phase, reducer, initialized, passVars, coalesced, rerun,
                 terminal, replayVars>>
  /\ Quiet

\* Shutdown, cancellation or a closed receiver: every wait of the task ends.
Stop ==
  /\ phase # "stopped"
  /\ phase' = "stopped"
  /\ stream' = <<>> /\ streamOpen' = FALSE
  /\ DropPass
  /\ terminal' = FALSE
  /\ candidate' = InitState /\ snapshotBusy' = {} /\ replayed' = 0
  /\ UNCHANGED <<server, used, reducer, initialized, resync, owed>>
  /\ Quiet

\* A stopped task stays stopped.
Finished == phase = "stopped" /\ UNCHANGED vars

-----------------------------------------------------------------------------

Init ==
  /\ server \in InitialServers
  /\ stream = <<>> /\ streamOpen = FALSE
  /\ used = [operations |-> 0, breaks |-> 0, failures |-> 0, resyncs |-> 0]
  /\ phase = "connecting"
  /\ reducer = InitState /\ initialized = FALSE
  /\ snapshot = NoAnswers /\ journal = <<>> /\ liveReady = {}
  /\ coalesced = FALSE /\ rerun = FALSE /\ resync = FALSE
  /\ terminal = FALSE
  /\ candidate = InitState /\ snapshotBusy = {} /\ replayed = 0
  /\ attention = {}
  /\ announced = [r \in Requests |-> 0]
  /\ told = {}
  /\ owed = {}

\* The steps of the task that need nothing but the task itself.
LocalStep ==
  \/ DrainEvent \/ BootstrapEnds \/ BootstrapBroken
  \/ Replay \/ FinishReplay \/ FollowUp

\* The steps the task takes when something outside of it is ready.
ReceiveStep == LiveEvent \/ JournalEvent \/ StreamEnds

ArriveStep == Connect \/ BootstrapSnapshot \/ SnapshotArrives \/ Reverify

Next ==
  \/ ServerStep
  \/ \E part \in Parts : Answer(part)
  \/ LocalStep \/ ReceiveStep \/ ArriveStep
  \/ ConnectFails \/ BufferEvent \/ BootstrapStreamEnds \/ BootstrapSnapshotFails
  \/ PeriodicPass \/ TriggeredPass \/ TriggerInFlight \/ SnapshotFails
  \/ RequestResync \/ Stop \/ Finished

Spec == Init /\ [][Next]_vars

\* The task runs, the server answers and the coalescing timer elapses.
\* Received events are served strongly fairly: reconcile_in_flight polls the
\* stream first, and the select of the live loop chooses at random, so that an
\* event that waits is not passed over for ever by the triggers.
PromptFairness ==
  /\ WF_vars(LocalStep)
  /\ WF_vars(ArriveStep)
  /\ WF_vars(TriggeredPass)
  /\ WF_vars(\E part \in Parts : Answer(part))
  /\ SF_vars(ReceiveStep)

\* The periodic tick too comes again and again.
Fairness == PromptFairness /\ WF_vars(PeriodicPass)

PromptSpec == Spec /\ PromptFairness

FairSpec == Spec /\ Fairness

-----------------------------------------------------------------------------
(* Properties.                                                             *)

AttentionRecord ==
  [kind : {"question", "permission", "ready"}, root : Sessions, subject : Sessions,
   request : Requests \cup {None}, source : {"live", "snapshot"},
   initial : BOOLEAN, resolved : BOOLEAN]

\* Every variable holds what the code's declarations allow, and the journal
\* keeps within its capacity, with which it is bounded before each poll.
TypeOK ==
  /\ server \in ServerRecord
  /\ stream \in Seq(Event) /\ streamOpen \in BOOLEAN
  /\ phase \in Phases
  /\ reducer \in StateRecord /\ initialized \in BOOLEAN
  /\ snapshot \in [read : SUBSET Parts, answer : Snapshot]
  /\ journal \in Seq(Event) /\ Len(journal) <= JournalCapacity
  /\ liveReady \in SUBSET Sessions
  /\ coalesced \in BOOLEAN /\ rerun \in BOOLEAN /\ resync \in BOOLEAN
  /\ terminal \in BOOLEAN
  /\ candidate \in StateRecord /\ snapshotBusy \in SUBSET Sessions
  /\ replayed \in Nat
  /\ announced \in [Requests -> 0 .. 2]
  /\ told \in SUBSET Sessions
  /\ owed \in SUBSET {"event", "resync"}

\* The request indexes and the request sets of the session records say the
\* same of every pending request, whichever event, deletion or snapshot came
\* last: a request in one and not in the other would never be resolved.
IndexCoherent == Coherent(reducer) /\ Coherent(candidate)

\* A request is announced once in the life of the task, and no request is
\* pending unannounced: neither the journal replay, nor a later snapshot, nor
\* a reconnection announces it again or passes over it.
RequestsAnnouncedOnce ==
  \A r \in Requests :
    /\ announced[r] <= 1
    /\ reducer.owner[r] # None => announced[r] = 1

\* Between two steps every busy root is armed, and no armed root is already
\* effectively idle: its ready would never be emitted.
ArmsSettled ==
  /\ BusyRoots(reducer.sessions) \subseteq reducer.armed
  /\ ReadyRoots(reducer) = {}

\* A ready names a session reported busy since its previous ready: by the
\* stream, or by a snapshot which that ready did not overtake or whose word
\* the replay of the journal left standing.
ReadyOnlyAfterBusy ==
  [][\A a \in attention' : a.kind = "ready" => a.root \in told]_vars

\* An arm that disappears was answered by its ready, unless the session is
\* deleted or the first snapshot found it idle.
NoArmLost ==
  [][\A s \in reducer.armed \ reducer'.armed :
       \/ \E a \in attention' : a.kind = "ready" /\ a.root = s
       \/ s \notin server.live
       \/ ~initialized]_vars

\* Which sessions and requests the journal says something of.
JournaledStatus ==
  {s \in Sessions : \E i \in DOMAIN journal :
     journal[i].kind \in {"status", "deleted"} /\ journal[i].session = s}

JournaledMetadata ==
  {s \in Sessions : \E i \in DOMAIN journal :
     journal[i].kind \in {"created", "deleted"} /\ journal[i].session = s}

JournaledRequests ==
  {r \in Requests : \E i \in DOMAIN journal :
     journal[i].kind \in {"asked", "replied"} /\ journal[i].request = r}

\* The snapshot that is installed takes back nothing the journal tells.
JournalKept ==
  /\ \A s \in JournaledStatus :
       reducer'.sessions[s].status = reducer.sessions[s].status
  /\ \A s \in JournaledMetadata :
       /\ reducer'.sessions[s].known = reducer.sessions[s].known
       /\ reducer'.sessions[s].parent = reducer.sessions[s].parent
  /\ \A r \in JournaledRequests : reducer'.owner[r] = reducer.owner[r]

\* Whatever changes in the reducer, the journal tells: of a request, that it
\* was asked or replied or that its session was deleted.
ChangeJournaled ==
  /\ \A s \in Sessions :
       /\ reducer'.sessions[s].status # reducer.sessions[s].status => s \in JournaledStatus'
       /\ \/ reducer'.sessions[s].known # reducer.sessions[s].known
          \/ reducer'.sessions[s].parent # reducer.sessions[s].parent
          => s \in JournaledMetadata'
  /\ \A r \in Requests : reducer'.owner[r] # reducer.owner[r] =>
       r \in JournaledRequests' \/ reducer.owner[r] \in JournaledMetadata'

\* What the stream said while a snapshot was in flight stands: the journal has
\* all of it, at its capacity too, and installing the snapshot takes back
\* nothing of it, however old or new the snapshot is.
JournalWins ==
  [][/\ phase = "reconciling" /\ phase' = "reconciling" => ChangeJournaled
     /\ FinishReplay => JournalKept]_vars

\* After every state event and every manual resync a snapshot request is
\* still to leave: a trigger that overlaps a request in flight is not lost.
SnapshotFollows ==
  phase \in {"live", "reconciling", "replaying"} =>
    /\ "event" \in owed => coalesced \/ rerun
    /\ "resync" \in owed => resync \/ rerun

\* What the reducer says is what the server holds.
Synced ==
  /\ \A s \in Sessions :
       /\ reducer.sessions[s].known <=> s \in server.live
       /\ s \in server.live =>
            /\ reducer.sessions[s].parent = server.parent[s]
            /\ reducer.sessions[s].status \in Active <=> server.status[s] \in Active
  /\ reducer.owner = server.owner

\* Once the server has come to rest and the connection is no longer broken,
\* the reducer says for good what the server holds, whatever the order in
\* which events, torn snapshots and triggers met.
Converges == <>[](Synced \/ phase = "stopped")

\* It does so when the periodic tick comes again and again, though snapshot
\* requests fail; and when none fails it does so without the tick, by the
\* coalesced triggers alone.
ServedConverges ==
  (<>[](used.failures = 0) \/ WF_vars(PeriodicPass)) => Converges

\* When a ready is emitted the session is a root the reducer knows, as
\* requirements.md has it.
ReadyNamesRoot ==
  \A a \in attention : a.kind = "ready" => IsRoot(reducer.sessions, a.root)
=============================================================================
