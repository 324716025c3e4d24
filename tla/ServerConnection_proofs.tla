----------------------- MODULE ServerConnection_proofs -----------------------
(***************************************************************************)
(* Proofs about the connection task, for every set of sessions and         *)
(* requests, every server and every bound.                                 *)
(***************************************************************************)
EXTENDS ServerConnection, ServerState_proofs

-----------------------------------------------------------------------------
(* Types.                                                                  *)

\* The client hands over a snapshot.
LEMMA AnsweredType == ASSUME TypeOK PROVE Answered \in Snapshot
<1>1. snapshot.answer \in Snapshot
  BY DEF TypeOK
<1>2. CASE Protocol = "v1"
  BY <1>1, <1>2 DEF Answered
<1>3. CASE Protocol # "v1"
  <2>1. [s \in Sessions |-> IF s \in snapshot.answer.reported THEN "busy" ELSE "idle"]
           \in [Sessions -> Statuses]
    BY DEF Statuses
  <2> QED BY <1>1, <1>3, <2>1 DEF Answered, Snapshot
<1> QED BY <1>2, <1>3

LEMMA EmptyTypes == /\ InitState \in StateRecord
                    /\ NoAnswers \in [read : SUBSET Parts, answer : Snapshot]
                    /\ <<>> \in Seq(Event) /\ Len(<<>>) <= JournalCapacity
<1>1. <<>> \in Seq(Event) /\ Len(<<>>) <= JournalCapacity
  BY ConnectionAssumption
<1> QED
  BY <1>1, StateAssumption DEF InitState, StateRecord, SessionRecord, NoSession, Statuses,
     NoAnswers, EmptySnapshot, Snapshot

\* The history of announcements keeps its type whatever is emitted.
LEMMA EmitType ==
  ASSUME NEW out, NEW busy \in SUBSET Sessions, TypeOK, Emit(out, busy)
  PROVE  announced' \in [Requests -> 0 .. 2] /\ told' \in SUBSET Sessions
BY DEF TypeOK, Emit

LEMMA HandleType ==
  ASSUME NEW e \in Event, TypeOK, HandleLiveEvent(e)
  PROVE  /\ reducer' \in StateRecord
         /\ announced' \in [Requests -> 0 .. 2] /\ told' \in SUBSET Sessions
         /\ owed' \in SUBSET {"event", "resync"}
<1>1. reducer' \in StateRecord
  BY EventFacts DEF TypeOK, HandleLiveEvent
<1>2. (IF e.kind = "status" /\ e.status \in Active THEN {e.session} ELSE {})
         \in SUBSET Sessions
  BY DEF Event
<1>3. owed' \in SUBSET {"event", "resync"}
  BY DEF TypeOK, HandleLiveEvent
<1> QED BY <1>1, <1>2, <1>3, EmitType DEF HandleLiveEvent

\* Whatever tells of a status is an event.
LEMMA StatusEventsType ==
  ASSUME NEW s \in Sessions, NEW status \in Statuses, NEW e \in StatusEvents(s, status)
  PROVE  e \in Event
<1>1. [kind |-> "message"] \in Event
  BY DEF Event
<1>2. \A t \in Statuses : [kind |-> "status", session |-> s, status |-> t] \in Event
  BY DEF Event
<1>3. {"busy", "idle", "retry"} \subseteq Statuses
  BY DEF Statuses
<1>4. CASE Protocol = "v1"
  BY <1>2, <1>4 DEF StatusEvents
<1>5. CASE Protocol # "v1"
  <2>1. PICK c \in BOOLEAN :
          e = AdaptV2Event([execution |-> Execution[status], session |-> s, complete |-> c])
    BY <1>5 DEF StatusEvents
  <2>2. e \in {[kind |-> "message"]}
             \cup {[kind |-> "status", session |-> s, status |-> t] : t \in {"busy", "idle", "retry"}}
    BY <2>1 DEF AdaptV2Event
  <2> QED BY <1>1, <1>2, <1>3, <2>2
<1> QED BY <1>4, <1>5

\* The operations of the server keep its type, and the events it sends are
\* events.
LEMMA ServerStepType ==
  ASSUME TypeOK, ServerStep
  PROVE  server' \in ServerRecord /\ stream' \in Seq(Event) /\ streamOpen' \in BOOLEAN
<1> USE StateAssumption DEF TypeOK
<1>0. ASSUME NEW operation, NEW after \in ServerRecord, NEW e \in Event,
             Perform(operation, after, e)
      PROVE  server' \in ServerRecord /\ stream' \in Seq(Event) /\ streamOpen' \in BOOLEAN
  BY <1>0 DEF Perform
<1>1. ASSUME NEW s \in Sessions, NEW p \in Sessions \cup {None}, Create(s, p)
      PROVE  server' \in ServerRecord /\ stream' \in Seq(Event) /\ streamOpen' \in BOOLEAN
  <2>1. [server EXCEPT !.live = @ \cup {s}, !.parent[s] = p, !.status[s] = "idle"]
           \in ServerRecord
    BY DEF ServerRecord, Statuses
  <2>2. [kind |-> "created", session |-> s, parent |-> p] \in Event
    BY DEF Event
  <2> QED BY <1>0, <1>1, <2>1, <2>2 DEF Create
<1>2. ASSUME NEW s \in Sessions, NEW status \in Statuses, SetStatus(s, status)
      PROVE  server' \in ServerRecord /\ stream' \in Seq(Event) /\ streamOpen' \in BOOLEAN
  <2>1. [server EXCEPT !.status[s] = status] \in ServerRecord
    BY DEF ServerRecord
  <2>2. StatusEvents(s, status) \subseteq Event
    BY StatusEventsType
  <2> QED BY <1>0, <1>2, <2>1, <2>2 DEF SetStatus
<1>3. ASSUME NEW s \in Sessions, Retry(s)
      PROVE  server' \in ServerRecord /\ stream' \in Seq(Event) /\ streamOpen' \in BOOLEAN
  <2>1. [server EXCEPT !.status[s] = "retry"] \in ServerRecord
    BY DEF ServerRecord, Statuses
  <2>2. StatusEvents(s, "retry") \subseteq Event
    BY StatusEventsType DEF Statuses
  <2> QED BY <1>0, <1>3, <2>1, <2>2 DEF Retry
<1>4. ASSUME NEW s \in Sessions, Fail(s)
      PROVE  server' \in ServerRecord /\ stream' \in Seq(Event) /\ streamOpen' \in BOOLEAN
  <2>1. [server EXCEPT !.status[s] = "idle"] \in ServerRecord
    BY DEF ServerRecord, Statuses
  <2>2. [kind |-> "failed", session |-> s] \in Event
    BY DEF Event
  <2> QED BY <1>0, <1>4, <2>1, <2>2 DEF Fail
<1>5. ASSUME NEW s \in Sessions, Delete(s)
      PROVE  server' \in ServerRecord /\ stream' \in Seq(Event) /\ streamOpen' \in BOOLEAN
  <2> DEFINE after ==
       [server EXCEPT
          !.live = @ \ {s}, !.gone = @ \cup {s},
          !.aborting = IF server.status[s] \in Active THEN @ \cup {s} ELSE @,
          !.status[s] = "idle",
          !.owner = [r \in Requests |->
             IF server.owner[r] = s THEN None ELSE server.owner[r]]]
  <2>1. after \in ServerRecord
    BY DEF ServerRecord, Statuses
  <2>2. [kind |-> "deleted", session |-> s] \in Event
    BY DEF Event
  <2> QED BY <1>0, <1>5, <2>1, <2>2 DEF Delete
<1>6. ASSUME NEW s \in Sessions, Abort(s)
      PROVE  server' \in ServerRecord /\ stream' \in Seq(Event) /\ streamOpen' \in BOOLEAN
  <2>1. [server EXCEPT !.aborting = @ \ {s}] \in ServerRecord
    BY DEF ServerRecord
  <2>2. StatusEvents(s, "idle") \subseteq Event
    BY StatusEventsType DEF Statuses
  <2> QED BY <1>0, <1>6, <2>1, <2>2 DEF Abort
<1>7. ASSUME NEW r \in Requests, NEW s \in Sessions, Ask(r, s)
      PROVE  server' \in ServerRecord /\ stream' \in Seq(Event) /\ streamOpen' \in BOOLEAN
  <2>1. [server EXCEPT !.owner[r] = s, !.asked = @ \cup {r}] \in ServerRecord
    BY DEF ServerRecord
  <2>2. [kind |-> "asked", request |-> r, session |-> s] \in Event
    BY DEF Event
  <2> QED BY <1>0, <1>7, <2>1, <2>2 DEF Ask
<1>8. ASSUME NEW r \in Requests, Reply(r)
      PROVE  server' \in ServerRecord /\ stream' \in Seq(Event) /\ streamOpen' \in BOOLEAN
  <2>1. [server EXCEPT !.owner[r] = None] \in ServerRecord
    BY DEF ServerRecord
  <2>2. [kind |-> "replied", request |-> r] \in Event
    BY DEF Event
  <2> QED BY <1>0, <1>8, <2>1, <2>2 DEF Reply
<1>9. ASSUME Chatter
      PROVE  server' \in ServerRecord /\ stream' \in Seq(Event) /\ streamOpen' \in BOOLEAN
  <2>1. [kind |-> "message"] \in Event
    BY DEF Event
  <2> QED BY <1>0, <1>9, <2>1 DEF Chatter
<1>10. ASSUME BreakStream
       PROVE  server' \in ServerRecord /\ stream' \in Seq(Event) /\ streamOpen' \in BOOLEAN
  <2>1. PICK n \in 0 .. Len(stream) : stream' = SubSeq(stream, 1, n)
    BY <1>10 DEF BreakStream
  <2>2. stream' \in Seq(Event)
    BY <2>1
  <2> QED BY <1>10, <2>2 DEF BreakStream
<1> QED
  BY <1>1, <1>2, <1>3, <1>4, <1>5, <1>6, <1>7, <1>8, <1>9, <1>10 DEF ServerStep

\* A pass that is dropped or begun, and a connection that is given up.
LEMMA DropPassType ==
  ASSUME DropPass
  PROVE  /\ snapshot' \in [read : SUBSET Parts, answer : Snapshot]
         /\ journal' \in Seq(Event) /\ Len(journal') <= JournalCapacity
         /\ liveReady' \in SUBSET Sessions
         /\ coalesced' \in BOOLEAN /\ rerun' \in BOOLEAN
<1>1. snapshot' = NoAnswers /\ journal' = <<>>
  BY DEF DropPass
<1>2. liveReady' = {} /\ coalesced' = FALSE /\ rerun' = FALSE
  BY DEF DropPass
<1> QED BY <1>1, <1>2, EmptyTypes, Zenon

LEMMA RequestSnapshotType ==
  ASSUME RequestSnapshot
  PROVE  /\ snapshot' \in [read : SUBSET Parts, answer : Snapshot]
         /\ journal' \in Seq(Event) /\ Len(journal') <= JournalCapacity
         /\ liveReady' \in SUBSET Sessions
         /\ owed' \in SUBSET {"event", "resync"}
<1>1. snapshot' = NoAnswers /\ journal' = <<>> /\ liveReady' = {} /\ owed' = {}
  BY DEF RequestSnapshot
<1> QED BY <1>1, EmptyTypes, Zenon

LEMMA DisconnectType == ASSUME TypeOK, Disconnect PROVE TypeOK'
<1>1. stream' \in Seq(Event) /\ streamOpen' \in BOOLEAN
  BY EmptyTypes, Zenon DEF Disconnect
<1>2. DropPass
  BY DEF Disconnect
<1> QED BY <1>1, <1>2, DropPassType DEF Disconnect, Quiet, TypeOK, Phases, replayVars

\* The steps that put nothing but the task itself in motion.
LEMMA TaskStepType ==
  ASSUME TypeOK,
         LocalStep \/ ReceiveStep \/ ArriveStep \/ ConnectFails \/ BufferEvent
           \/ BootstrapStreamEnds \/ BootstrapSnapshotFails \/ PeriodicPass \/ TriggeredPass
           \/ TriggerInFlight \/ SnapshotFails \/ RequestResync \/ Stop \/ Finished
  PROVE  TypeOK'
<1> USE EmptyTypes
<1>1. CASE DrainEvent
  <2>1. /\ Head(journal) \in Event /\ journal' \in Seq(Event)
        /\ Len(journal') <= JournalCapacity
    BY <1>1, ConnectionAssumption DEF DrainEvent, TypeOK
  <2> QED BY <1>1, <2>1, HandleType DEF DrainEvent, TypeOK, serverVars, triggerVars, replayVars
<1>2. CASE BootstrapEnds
  BY <1>2 DEF BootstrapEnds, Quiet, TypeOK, Phases, serverVars, passVars, triggerVars, replayVars
<1>3. CASE BootstrapBroken
  BY <1>3, DisconnectType DEF BootstrapBroken
<1>4. CASE Replay
  <2>1. journal[replayed + 1] \in Event
    BY <1>4 DEF Replay, TypeOK
  <2>2. candidate' \in StateRecord
    BY <1>4, <2>1, CoreType DEF Replay, TypeOK
  <2> QED BY <1>4, <2>2 DEF Replay, Quiet, TypeOK, serverVars, passVars, triggerVars
<1>5. CASE FinishReplay
  <2>1. reducer' \in StateRecord
    BY <1>5, FinishFacts DEF FinishReplay, TypeOK
  <2>2. announced' \in [Requests -> 0 .. 2] /\ told' \in SUBSET Sessions
    BY <1>5, EmitType DEF FinishReplay
  <2> QED BY <1>5, <2>1, <2>2 DEF FinishReplay, TypeOK, Phases, serverVars, triggerVars
<1>6. CASE FollowUp
  BY <1>6, RequestSnapshotType DEF FollowUp, Quiet, TypeOK, Phases, serverVars, replayVars
<1>7. CASE LiveEvent
  <2>1. Head(stream) \in Event /\ stream' \in Seq(Event)
    BY <1>7 DEF LiveEvent, TypeOK
  <2>2. coalesced' \in BOOLEAN
    BY <1>7 DEF LiveEvent, TypeOK, IsStateEvent
  <2> QED BY <1>7, <2>1, <2>2, HandleType DEF LiveEvent, TypeOK, passVars, replayVars
<1>8. CASE JournalEvent
  <2>1. Head(stream) \in Event /\ stream' \in Seq(Event)
    BY <1>8 DEF JournalEvent, TypeOK
  <2>2. /\ journal' \in Seq(Event) /\ Len(journal') <= JournalCapacity
        /\ coalesced' \in BOOLEAN
    <3>1. CASE IsStateEvent(Head(stream))
      <4>1. journal' = Append(journal, Head(stream)) /\ coalesced' = TRUE
        BY <1>8, <3>1 DEF JournalEvent
      <4>2. journal \in Seq(Event) /\ Len(journal) < JournalCapacity
        BY <1>8 DEF JournalEvent, CanPoll, TypeOK
      <4> QED BY <2>1, <4>1, <4>2, ConnectionAssumption
    <3>2. CASE ~IsStateEvent(Head(stream))
      BY <1>8, <3>2 DEF JournalEvent, TypeOK
    <3> QED BY <3>1, <3>2
  <2>3. liveReady' \in SUBSET Sessions
    BY <1>8 DEF JournalEvent, ReadyEmitted, TypeOK
  <2>4. /\ reducer' \in StateRecord
        /\ announced' \in [Requests -> 0 .. 2] /\ told' \in SUBSET Sessions
        /\ owed' \in SUBSET {"event", "resync"}
    BY <1>8, <2>1, HandleType DEF JournalEvent
  <2>5. UNCHANGED <<server, streamOpen, phase, initialized, snapshot, rerun, resync,
                    terminal, replayVars>>
    BY <1>8 DEF JournalEvent
  <2> QED BY <2>1, <2>2, <2>3, <2>4, <2>5 DEF TypeOK, replayVars
<1>9. CASE StreamEnds
  BY <1>9, DisconnectType DEF StreamEnds
<1>10. CASE Connect
  <2>1. stream' \in Seq(Event)
    BY <1>10 DEF Connect
  <2> QED BY <1>10, <2>1, RequestSnapshotType
        DEF Connect, Quiet, TypeOK, Phases, triggerVars, replayVars
<1>11. CASE BootstrapSnapshot
  <2> DEFINE fresh == InstallSnapshot(reducer, Answered)
  <2>1. fresh \in StateRecord
    BY AnsweredType, InstallFacts DEF TypeOK
  <2>2. BusyRoots(fresh.sessions) \in SUBSET Sessions /\ {} \in SUBSET Sessions
    BY DEF BusyRoots
  <2>3. reducer' \in StateRecord
    <3>1. reducer' = FinishReconcile(fresh, BusyRoots(fresh.sessions), {})
      BY <1>11 DEF BootstrapSnapshot
    <3> HIDE DEF fresh
    <3> QED BY <3>1, <2>1, <2>2, FinishFacts
  <2>4. ReportedBusy(Answered) \in SUBSET Sessions
    BY AnsweredType DEF ReportedBusy, Snapshot
  <2>5. announced' \in [Requests -> 0 .. 2] /\ told' \in SUBSET Sessions
    BY <1>11, <2>4, EmitType DEF BootstrapSnapshot
  <2>6. coalesced' \in BOOLEAN
    BY <1>11 DEF BootstrapSnapshot, StartDraining
  <2> QED BY <1>11, <2>3, <2>5, <2>6
        DEF BootstrapSnapshot, StartDraining, TypeOK, Phases, serverVars, replayVars
<1>12. CASE SnapshotArrives
  <2>1. candidate' \in StateRecord
    BY <1>12, AnsweredType, InstallFacts DEF SnapshotArrives, TypeOK
  <2>2. snapshotBusy' \in SUBSET Sessions
    BY <1>12 DEF SnapshotArrives, BusyRoots
  <2>3. told' \in SUBSET Sessions
    BY <1>12, AnsweredType DEF SnapshotArrives, ReportedBusy, Snapshot, TypeOK
  <2>4. coalesced' \in BOOLEAN /\ rerun' \in BOOLEAN /\ resync' \in BOOLEAN
    BY <1>12 DEF SnapshotArrives, DrainReadyTriggers, TypeOK
  <2> QED BY <1>12, <2>1, <2>2, <2>3, <2>4 DEF SnapshotArrives, TypeOK, Phases, serverVars
<1>13. CASE Reverify
  BY <1>13 DEF Reverify, Quiet, TypeOK, Phases, serverVars, passVars, triggerVars, replayVars
<1>14. CASE ConnectFails
  BY <1>14, DisconnectType DEF ConnectFails
<1>15. CASE BufferEvent
  <2>1. /\ stream' \in Seq(Event) /\ journal' \in Seq(Event)
        /\ Len(journal') <= JournalCapacity
    BY <1>15, ConnectionAssumption DEF BufferEvent, CanPoll, TypeOK
  <2> QED BY <1>15, <2>1 DEF BufferEvent, Quiet, TypeOK, triggerVars, replayVars
<1>16. CASE BootstrapStreamEnds
  <2>1. coalesced' \in BOOLEAN
    BY <1>16 DEF BootstrapStreamEnds, StartDraining
  <2> QED BY <1>16, <2>1
        DEF BootstrapStreamEnds, StartDraining, Quiet, TypeOK, Phases, serverVars, replayVars
<1>17. CASE BootstrapSnapshotFails
  <2>1. coalesced' \in BOOLEAN
    BY <1>17 DEF BootstrapSnapshotFails, StartDraining
  <2> QED BY <1>17, <2>1
        DEF BootstrapSnapshotFails, StartDraining, Quiet, TypeOK, Phases, serverVars, replayVars
<1>18. CASE PeriodicPass \/ TriggeredPass
  <2>1. coalesced' \in BOOLEAN /\ rerun' \in BOOLEAN /\ resync' \in BOOLEAN
    BY <1>18 DEF PeriodicPass, TriggeredPass, TypeOK, triggerVars
  <2> QED BY <1>18, <2>1, RequestSnapshotType
        DEF PeriodicPass, TriggeredPass, Quiet, TypeOK, Phases, serverVars, replayVars
<1>19. CASE TriggerInFlight
  BY <1>19 DEF TriggerInFlight, Quiet, TypeOK, serverVars, passVars, replayVars
<1>20. CASE SnapshotFails
  <2>1. coalesced' \in BOOLEAN /\ rerun' \in BOOLEAN /\ resync' \in BOOLEAN
    BY <1>20 DEF SnapshotFails, DrainReadyTriggers, TypeOK
  <2> QED BY <1>20, <2>1 DEF SnapshotFails, Quiet, TypeOK, Phases, serverVars, replayVars
<1>21. CASE RequestResync
  BY <1>21 DEF RequestResync, Quiet, TypeOK, serverVars, passVars, replayVars
<1>22. CASE Stop
  <2>1. stream' \in Seq(Event) /\ streamOpen' \in BOOLEAN /\ DropPass
    BY <1>22, EmptyTypes, Zenon DEF Stop
  <2> QED BY <1>22, <2>1, DropPassType DEF Stop, Quiet, TypeOK, Phases
<1>23. CASE Finished
  BY <1>23 DEF Finished, vars, TypeOK, serverVars, passVars, triggerVars, replayVars
<1> QED
  BY <1>1, <1>2, <1>3, <1>4, <1>5, <1>6, <1>7, <1>8, <1>9, <1>10, <1>11, <1>12, <1>13,
     <1>14, <1>15, <1>16, <1>17, <1>18, <1>19, <1>20, <1>21, <1>22, <1>23
  DEF LocalStep, ReceiveStep, ArriveStep

\* An answer of the server is part of a snapshot.
LEMMA AnswerType ==
  ASSUME TypeOK, NEW part \in Parts, Answer(part)
  PROVE  TypeOK'
<1>1. /\ snapshot.read \in SUBSET Parts
      /\ snapshot.answer \in Snapshot
      /\ server \in ServerRecord
  BY DEF TypeOK
<1>2. snapshot'.answer \in Snapshot
  <2>1. CASE part = "sessions"
    BY <1>1, <2>1 DEF Answer, Snapshot, ServerRecord
  <2>2. CASE part = "statuses"
    BY <1>1, <2>2 DEF Answer, Snapshot, ServerRecord
  <2>3. CASE part = "permissions"
    BY <1>1, <2>3 DEF Answer, Snapshot, ServerRecord
  <2>4. CASE part = "questions"
    BY <1>1, <2>4 DEF Answer, Snapshot, ServerRecord
  <2> QED BY <2>1, <2>2, <2>3, <2>4 DEF Parts
<1>3. snapshot' \in [read : SUBSET Parts, answer : Snapshot]
  BY <1>1, <1>2 DEF Answer
<1> QED BY <1>3 DEF Answer, Quiet, TypeOK, serverVars, triggerVars, replayVars

\* An operation of the server leaves the task as it is.
LEMMA ServerLeavesTask ==
  ServerStep => /\ Quiet
                /\ UNCHANGED <<phase, reducer, initialized, passVars, triggerVars, terminal,
                               replayVars, owed>>
<1>1. ASSUME NEW operation, NEW after, NEW e, Perform(operation, after, e)
      PROVE  /\ Quiet
             /\ UNCHANGED <<phase, reducer, initialized, passVars, triggerVars, terminal,
                            replayVars, owed>>
  BY <1>1 DEF Perform
<1> QED
  BY <1>1
  DEF ServerStep, Create, SetStatus, Retry, Fail, Delete, Abort, Ask, Reply, Chatter, BreakStream

LEMMA StepType == TypeOK /\ [Next]_vars => TypeOK'
<1> SUFFICES ASSUME TypeOK, [Next]_vars PROVE TypeOK'
  OBVIOUS
<1>1. CASE ServerStep
  <2>1. server' \in ServerRecord /\ stream' \in Seq(Event) /\ streamOpen' \in BOOLEAN
    BY <1>1, ServerStepType
  <2>2. UNCHANGED <<phase, reducer, initialized, passVars, triggerVars, terminal,
                    replayVars, owed, announced, told>>
    BY <1>1, ServerLeavesTask DEF Quiet
  <2> QED BY <2>1, <2>2 DEF TypeOK, passVars, triggerVars, replayVars
<1>2. CASE \E part \in Parts : Answer(part)
  BY <1>2, AnswerType
<1>3. CASE UNCHANGED vars
  BY <1>3 DEF vars, TypeOK, serverVars, passVars, triggerVars, replayVars
<1> QED BY <1>1, <1>2, <1>3, TaskStepType DEF Next

LEMMA InitType == Init => TypeOK
<1> SUFFICES ASSUME Init PROVE TypeOK
  OBVIOUS
<1>1. server \in ServerRecord
  BY ConnectionAssumption DEF Init
<1>2. <<>> \in Seq(Event)
  OBVIOUS
<1>3. announced \in [Requests -> 0 .. 2]
  BY DEF Init
<1> QED BY <1>1, <1>2, <1>3, EmptyTypes DEF Init, TypeOK, Phases

\* Type correctness of the connection task.
THEOREM TypeCorrect == Spec => []TypeOK
BY InitType, StepType, PTL DEF Spec

-----------------------------------------------------------------------------
(* The reducer between two steps.                                          *)

\* The inductive invariant behind the safety theorems.  A reducer is settled
\* when its indexes agree, when its pending requests are seen, and when its
\* arms leave nothing to take; the announcements are exactly the requests
\* seen; and the candidate of a replay remembers what the reducer has seen,
\* since it will take its place.
ReducerSettled ==
  /\ Coherent(reducer)
  /\ \A r \in Requests : reducer.owner[r] # None => r \in reducer.seen
  /\ ArmsSettled

AnnouncedAreSeen ==
  \A r \in Requests : announced[r] = IF r \in reducer.seen THEN 1 ELSE 0

CandidateFollows ==
  /\ Coherent(candidate)
  /\ phase = "replaying" => candidate.seen = reducer.seen

IInv == TypeOK /\ ReducerSettled /\ AnnouncedAreSeen /\ CandidateFollows

\* A live event keeps the reducer settled and announces what it marks as seen.
LEMMA HandleKeeps ==
  ASSUME IInv, NEW e \in Event, HandleLiveEvent(e)
  PROVE  ReducerSettled' /\ AnnouncedAreSeen'
<1>1. reducer \in StateRecord /\ announced \in [Requests -> 0 .. 2]
  BY DEF IInv, TypeOK
<1>2. /\ reducer' = ApplyEvent(reducer, e)
      /\ announced' = [r \in Requests |->
           IF (\E a \in EventAttention(reducer, e) : a.request = r) /\ announced[r] < 2
           THEN announced[r] + 1 ELSE announced[r]]
  BY DEF HandleLiveEvent, Emit
<1>3. /\ reducer'.sessions = ApplyEventCore(reducer, e).sessions
      /\ reducer'.owner = ApplyEventCore(reducer, e).owner
      /\ reducer'.seen = reducer.seen \cup FreshRequests(reducer, e)
      /\ ArmsSettled'
  BY <1>1, <1>2, EventFacts DEF ArmsSettled
<1>4. Coherent(reducer)'
  <2>1. Coherent(ApplyEventCore(reducer, e))
    BY <1>1, CoreCoherent DEF IInv, ReducerSettled
  <2> QED BY <1>3, <2>1 DEF Coherent
<1>5. \A r \in Requests : reducer'.owner[r] # None => r \in reducer'.seen
  <2> SUFFICES ASSUME NEW r \in Requests, reducer'.owner[r] # None
               PROVE  r \in reducer'.seen
    OBVIOUS
  <2>1. reducer.owner[r] # None \/ (e.kind = "asked" /\ e.request = r)
    BY <1>1, <1>3, CorePending
  <2>2. CASE reducer.owner[r] # None
    BY <1>3, <2>2 DEF IInv, ReducerSettled
  <2>3. CASE e.kind = "asked" /\ e.request = r
    BY <1>3, <2>3 DEF FreshRequests
  <2> QED BY <2>1, <2>2, <2>3
<1>6. AnnouncedAreSeen'
  <2> SUFFICES ASSUME NEW r \in Requests
               PROVE  announced'[r] = IF r \in reducer'.seen THEN 1 ELSE 0
    BY DEF AnnouncedAreSeen
  <2>1. announced[r] = IF r \in reducer.seen THEN 1 ELSE 0
    BY DEF IInv, AnnouncedAreSeen
  <2>2. r \in FreshRequests(reducer, e) => r \notin reducer.seen
    BY DEF FreshRequests
  <2>3. announced'[r] = IF r \in FreshRequests(reducer, e) /\ announced[r] < 2
                        THEN announced[r] + 1 ELSE announced[r]
    BY <1>2, EventAnnounces
  <2> QED BY <1>3, <2>1, <2>2, <2>3
<1> QED BY <1>3, <1>4, <1>5, <1>6 DEF ReducerSettled

\* So does the end of a reconciliation whose candidate is coherent and has
\* seen what the reducer has seen.
LEMMA FinishKeeps ==
  ASSUME IInv, NEW st \in StateRecord, Coherent(st), st.seen = reducer.seen,
         NEW busy \in SUBSET Sessions, NEW live \in SUBSET Sessions,
         NEW initial \in BOOLEAN, NEW reported,
         reducer' = FinishReconcile(st, busy, live),
         Emit(ReconcileAttention(st, busy, live, initial), reported)
  PROVE  ReducerSettled' /\ AnnouncedAreSeen'
<1>1. announced \in [Requests -> 0 .. 2]
  BY DEF IInv, TypeOK
<1>2. /\ reducer'.sessions = st.sessions
      /\ reducer'.owner = st.owner
      /\ reducer'.seen = st.seen \cup UnseenRequests(st)
      /\ ArmsSettled'
  BY FinishFacts DEF ArmsSettled
<1>3. Coherent(reducer)'
  BY <1>2 DEF Coherent
<1>4. \A r \in Requests : reducer'.owner[r] # None => r \in reducer'.seen
  BY <1>2 DEF UnseenRequests
<1>5. AnnouncedAreSeen'
  <2> SUFFICES ASSUME NEW r \in Requests
               PROVE  announced'[r] = IF r \in reducer'.seen THEN 1 ELSE 0
    BY DEF AnnouncedAreSeen
  <2>1. announced[r] = IF r \in reducer.seen THEN 1 ELSE 0
    BY DEF IInv, AnnouncedAreSeen
  <2>2. r \in UnseenRequests(st) => r \notin reducer.seen
    BY DEF UnseenRequests
  <2>3. announced'[r] = IF r \in UnseenRequests(st) /\ announced[r] < 2
                        THEN announced[r] + 1 ELSE announced[r]
    BY <1>1, ReconcileAnnounces DEF Emit
  <2> QED BY <1>2, <2>1, <2>2, <2>3
<1> QED BY <1>2, <1>3, <1>4, <1>5 DEF ReducerSettled

\* A step that leaves the reducer alone keeps it settled.
LEMMA QuietKeeps ==
  ASSUME IInv, reducer' = reducer, announced' = announced
  PROVE  ReducerSettled' /\ AnnouncedAreSeen'
BY DEF IInv, ReducerSettled, AnnouncedAreSeen, ArmsSettled, Coherent

LEMMA InitStateFacts ==
  /\ Coherent(InitState)
  /\ InitState.seen = {} /\ InitState.armed = {}
  /\ \A r \in Requests : InitState.owner[r] = None
  /\ BusyRoots(InitState.sessions) = {}
BY StateAssumption DEF InitState, NoSession, Coherent, BusyRoots, IsRoot

LEMMA InitIInv == Init => IInv
<1> SUFFICES ASSUME Init PROVE IInv
  OBVIOUS
<1>1. TypeOK
  BY InitType
<1>2. ReducerSettled /\ CandidateFollows
  BY InitStateFacts
  DEF Init, ReducerSettled, ArmsSettled, ReadyRoots, CandidateFollows
<1>3. AnnouncedAreSeen
  BY InitStateFacts DEF Init, AnnouncedAreSeen
<1> QED BY <1>1, <1>2, <1>3 DEF IInv

\* The steps that neither touch the reducer nor announce anything.
QuietStep == reducer' = reducer /\ announced' = announced

LEMMA StepIInv == IInv /\ [Next]_vars => IInv'
<1> SUFFICES ASSUME IInv, [Next]_vars PROVE IInv'
  OBVIOUS
<1>1. TypeOK /\ TypeOK'
  BY StepType DEF IInv
<1>2. ReducerSettled' /\ AnnouncedAreSeen' /\ CandidateFollows'
  <2>1. ASSUME QuietStep, candidate' = candidate,
               phase' = "replaying" => phase = "replaying"
        PROVE  ReducerSettled' /\ AnnouncedAreSeen' /\ CandidateFollows'
    <3>1. CandidateFollows'
      BY <2>1 DEF IInv, CandidateFollows, Coherent, QuietStep
    <3> QED BY <2>1, <3>1, QuietKeeps DEF QuietStep
  <2>2. CASE ServerStep
    BY <2>1, <2>2, ServerLeavesTask DEF Quiet, QuietStep, replayVars
  <2>3. CASE \E part \in Parts : Answer(part)
    BY <2>1, <2>3 DEF Answer, Quiet, QuietStep, replayVars
  <2>4. CASE LocalStep
    <3>1. CASE DrainEvent
      <4>1. Head(journal) \in Event /\ HandleLiveEvent(Head(journal))
        BY <1>1, <3>1 DEF DrainEvent, TypeOK
      <4>2. CandidateFollows'
        BY <3>1 DEF DrainEvent, IInv, CandidateFollows, Coherent, replayVars
      <4> QED BY <4>1, <4>2, HandleKeeps
    <3>2. CASE BootstrapEnds
      BY <2>1, <3>2 DEF BootstrapEnds, Quiet, QuietStep, replayVars
    <3>3. CASE BootstrapBroken
      BY <2>1, <3>3 DEF BootstrapBroken, Disconnect, Quiet, QuietStep, replayVars
    <3>4. CASE Replay
      <4>1. journal[replayed + 1] \in Event /\ candidate \in StateRecord
        BY <1>1, <3>4 DEF Replay, TypeOK
      <4>2. Coherent(candidate') /\ candidate'.seen = candidate.seen
        BY <3>4, <4>1, CoreCoherent, CoreSeen DEF Replay, IInv, CandidateFollows
      <4>3. CandidateFollows'
        BY <3>4, <4>2 DEF Replay, IInv, CandidateFollows, Coherent
      <4> QED BY <3>4, <4>3, QuietKeeps DEF Replay, Quiet
    <3>5. CASE FinishReplay
      <4>1. /\ candidate \in StateRecord /\ Coherent(candidate)
            /\ candidate.seen = reducer.seen
            /\ snapshotBusy \in SUBSET Sessions /\ liveReady \in SUBSET Sessions
            /\ (~initialized) \in BOOLEAN
        BY <1>1, <3>5 DEF FinishReplay, IInv, CandidateFollows, TypeOK
      <4>2. ReducerSettled' /\ AnnouncedAreSeen'
        BY <3>5, <4>1, FinishKeeps DEF FinishReplay
      <4>3. CandidateFollows'
        BY <3>5, InitStateFacts DEF FinishReplay, CandidateFollows, Coherent
      <4> QED BY <4>2, <4>3
    <3>6. CASE FollowUp
      BY <2>1, <3>6 DEF FollowUp, Quiet, QuietStep, replayVars
    <3> QED BY <2>4, <3>1, <3>2, <3>3, <3>4, <3>5, <3>6 DEF LocalStep
  <2>5. CASE ReceiveStep
    <3>1. CASE LiveEvent
      <4>1. Head(stream) \in Event /\ HandleLiveEvent(Head(stream))
        BY <1>1, <3>1 DEF LiveEvent, TypeOK
      <4>2. CandidateFollows'
        BY <3>1 DEF LiveEvent, IInv, CandidateFollows, Coherent, replayVars
      <4> QED BY <4>1, <4>2, HandleKeeps
    <3>2. CASE JournalEvent
      <4>1. Head(stream) \in Event /\ HandleLiveEvent(Head(stream))
        BY <1>1, <3>2 DEF JournalEvent, TypeOK
      <4>2. CandidateFollows'
        BY <3>2 DEF JournalEvent, IInv, CandidateFollows, Coherent, replayVars
      <4> QED BY <4>1, <4>2, HandleKeeps
    <3>3. CASE StreamEnds
      BY <2>1, <3>3 DEF StreamEnds, Disconnect, Quiet, QuietStep, replayVars
    <3> QED BY <2>5, <3>1, <3>2, <3>3 DEF ReceiveStep
  <2>6. CASE ArriveStep
    <3>1. CASE Connect
      BY <2>1, <3>1 DEF Connect, Quiet, QuietStep, replayVars
    <3>2. CASE BootstrapSnapshot
      <4> DEFINE fresh == InstallSnapshot(reducer, Answered)
      <4>1. fresh \in StateRecord /\ Coherent(fresh) /\ fresh.seen = reducer.seen
        BY <1>1, AnsweredType, InstallFacts DEF TypeOK
      <4>2. BusyRoots(fresh.sessions) \in SUBSET Sessions /\ {} \in SUBSET Sessions
        BY DEF BusyRoots
      <4>3. /\ reducer' = FinishReconcile(fresh, BusyRoots(fresh.sessions), {})
            /\ Emit(ReconcileAttention(fresh, BusyRoots(fresh.sessions), {}, ~initialized),
                    ReportedBusy(Answered))
            /\ (~initialized) \in BOOLEAN
        BY <1>1, <3>2 DEF BootstrapSnapshot, TypeOK
      <4>4. CandidateFollows'
        BY <3>2
        DEF BootstrapSnapshot, StartDraining, IInv, CandidateFollows, Coherent, replayVars
      <4> HIDE DEF fresh
      <4> QED BY <4>1, <4>2, <4>3, <4>4, FinishKeeps
    <3>3. CASE SnapshotArrives
      <4>1. candidate' = InstallSnapshot(reducer, Answered) /\ QuietStep
        BY <3>3 DEF SnapshotArrives, QuietStep
      <4>2. Coherent(candidate') /\ candidate'.seen = reducer.seen
        BY <1>1, <4>1, AnsweredType, InstallFacts DEF TypeOK
      <4>3. CandidateFollows'
        BY <4>1, <4>2 DEF CandidateFollows, Coherent, QuietStep
      <4> QED BY <4>1, <4>3, QuietKeeps DEF QuietStep
    <3>4. CASE Reverify
      BY <2>1, <3>4 DEF Reverify, Quiet, QuietStep, replayVars
    <3> QED BY <2>6, <3>1, <3>2, <3>3, <3>4 DEF ArriveStep
  <2>7. CASE ConnectFails
    BY <2>1, <2>7 DEF ConnectFails, Disconnect, Quiet, QuietStep, replayVars
  <2>8. CASE BufferEvent
    BY <2>1, <2>8 DEF BufferEvent, Quiet, QuietStep, replayVars
  <2>9. CASE BootstrapStreamEnds
    BY <2>1, <2>9 DEF BootstrapStreamEnds, StartDraining, Quiet, QuietStep, replayVars
  <2>10. CASE BootstrapSnapshotFails
    BY <2>1, <2>10 DEF BootstrapSnapshotFails, StartDraining, Quiet, QuietStep, replayVars
  <2>11. CASE PeriodicPass \/ TriggeredPass
    BY <2>1, <2>11 DEF PeriodicPass, TriggeredPass, Quiet, QuietStep, replayVars
  <2>12. CASE TriggerInFlight
    BY <2>1, <2>12 DEF TriggerInFlight, Quiet, QuietStep, replayVars
  <2>13. CASE SnapshotFails
    BY <2>1, <2>13 DEF SnapshotFails, Quiet, QuietStep, replayVars
  <2>14. CASE RequestResync
    BY <2>1, <2>14 DEF RequestResync, Quiet, QuietStep, replayVars
  <2>15. CASE Stop
    <3>1. CandidateFollows'
      BY <2>15, InitStateFacts DEF Stop, CandidateFollows, Coherent
    <3> QED BY <2>15, <3>1, QuietKeeps DEF Stop, Quiet
  <2>16. CASE Finished \/ UNCHANGED vars
    BY <2>1, <2>16 DEF Finished, vars, QuietStep, replayVars
  <2> QED
    BY <2>2, <2>3, <2>4, <2>5, <2>6, <2>7, <2>8, <2>9, <2>10, <2>11, <2>12, <2>13,
       <2>14, <2>15, <2>16 DEF Next
<1> QED BY <1>1, <1>2 DEF IInv

LEMMA Invariance == Spec => []IInv
BY InitIInv, StepIInv, PTL DEF Spec

\* The request indexes never disagree, in the reducer or in a candidate.
THEOREM IndexesStayCoherent == Spec => []IndexCoherent
<1>1. IInv => IndexCoherent
  BY DEF IInv, ReducerSettled, CandidateFollows, IndexCoherent
<1> QED BY <1>1, Invariance, PTL

\* No request is announced twice, and none is pending unannounced.
THEOREM AnnouncedOnce == Spec => []RequestsAnnouncedOnce
<1>1. IInv => RequestsAnnouncedOnce
  BY DEF IInv, ReducerSettled, AnnouncedAreSeen, RequestsAnnouncedOnce
<1> QED BY <1>1, Invariance, PTL

\* No busy root is left unarmed and no ready is left behind.
THEOREM ArmsStaySettled == Spec => []ArmsSettled
<1>1. IInv => ArmsSettled
  BY DEF IInv, ReducerSettled
<1> QED BY <1>1, Invariance, PTL

-----------------------------------------------------------------------------
(* What the events of a journal say, the last one about each thing being   *)
(* the one that counts.                                                    *)

Deletes(e, s) == e.kind = "deleted" /\ e.session = s

\* After its first n events journal q says nothing more of a status, of
\* metadata or of a request.
SilentOnStatus(q, n, s) == \A j \in DOMAIN q : j > n => ~TellsStatus(q[j], s)

SilentOnMetadata(q, n, s) == \A j \in DOMAIN q : j > n => ~TellsMetadata(q[j], s)

SilentOnRequest(q, n, r) == \A j \in DOMAIN q : j > n => ~TellsRequest(q[j], r)

DeletedAfter(q, n, s) == \E j \in DOMAIN q : j > n /\ Deletes(q[j], s)

\* Reducer st holds what journal q says.  A request last asked by a session
\* deleted since is owned by nobody, and no request is owned by a session
\* deleted since it was last asked.
Stands(st, q) ==
  \A i \in DOMAIN q :
    /\ \A s \in Sessions :
         /\ TellsStatus(q[i], s) /\ SilentOnStatus(q, i, s) =>
              st.sessions[s].status = StatusAfter(q[i], s, None)
         /\ TellsMetadata(q[i], s) /\ SilentOnMetadata(q, i, s) =>
              /\ st.sessions[s].known = KnownAfter(q[i], s, FALSE)
              /\ st.sessions[s].parent = ParentAfter(q[i], s, None)
    /\ \A r \in Requests :
         /\ TellsRequest(q[i], r) /\ SilentOnRequest(q, i, r) =>
              st.owner[r] = IF DeletedAfter(q, i, OwnerAfter(q[i], r, None))
                            THEN None ELSE OwnerAfter(q[i], r, None)
         /\ q[i].kind = "deleted" /\ SilentOnRequest(q, i, r) =>
              st.owner[r] # q[i].session

\* Candidate, over which the first n events of q were replayed, agrees with
\* the reducer on what those told and the others will not tell.
CatchesUp(cand, st, q, n) ==
  \A i \in 1 .. n :
    /\ \A s \in Sessions :
         /\ TellsStatus(q[i], s) /\ SilentOnStatus(q, n, s) =>
              cand.sessions[s].status = st.sessions[s].status
         /\ TellsMetadata(q[i], s) /\ SilentOnMetadata(q, n, s) =>
              /\ cand.sessions[s].known = st.sessions[s].known
              /\ cand.sessions[s].parent = st.sessions[s].parent
    /\ \A r \in Requests :
         TellsRequest(q[i], r) /\ SilentOnRequest(q, n, r) =>
           \/ cand.owner[r] = st.owner[r]
           \/ st.owner[r] = None /\ DeletedAfter(q, n, cand.owner[r])

\* A reducer that handles an event goes on holding what the journal says,
\* the event journaled.
LEMMA StandsAppend ==
  ASSUME NEW st \in StateRecord, NEW q \in Seq(Event), NEW e \in Event, Stands(st, q),
         NEW next, next.sessions = ApplyEventCore(st, e).sessions,
         next.owner = ApplyEventCore(st, e).owner
  PROVE  Stands(next, Append(q, e))
<1> DEFINE p == Append(q, e)
           n == Len(q)
<1>1. /\ n \in Nat /\ DOMAIN q = 1 .. n /\ DOMAIN p = 1 .. n + 1
      /\ p[n + 1] = e /\ \A i \in 1 .. n : p[i] = q[i] /\ q[i] \in Event
  OBVIOUS
<1>2. /\ \A s \in Sessions :
           /\ next.sessions[s].status = StatusAfter(e, s, st.sessions[s].status)
           /\ next.sessions[s].known = KnownAfter(e, s, st.sessions[s].known)
           /\ next.sessions[s].parent = ParentAfter(e, s, st.sessions[s].parent)
      /\ \A r \in Requests : next.owner[r] = OwnerAfter(e, r, st.owner[r])
  BY CoreEffect
<1> HIDE DEF p, n
<1> SUFFICES ASSUME NEW i \in 1 .. n + 1
    PROVE  /\ \A s \in Sessions :
                /\ TellsStatus(p[i], s) /\ SilentOnStatus(p, i, s) =>
                     next.sessions[s].status = StatusAfter(p[i], s, None)
                /\ TellsMetadata(p[i], s) /\ SilentOnMetadata(p, i, s) =>
                     /\ next.sessions[s].known = KnownAfter(p[i], s, FALSE)
                     /\ next.sessions[s].parent = ParentAfter(p[i], s, None)
           /\ \A r \in Requests :
                /\ TellsRequest(p[i], r) /\ SilentOnRequest(p, i, r) =>
                     next.owner[r] = IF DeletedAfter(p, i, OwnerAfter(p[i], r, None))
                                     THEN None ELSE OwnerAfter(p[i], r, None)
                /\ p[i].kind = "deleted" /\ SilentOnRequest(p, i, r) =>
                     next.owner[r] # p[i].session
  BY <1>1 DEF Stands, p
<1>3. CASE i = n + 1
  <2>1. p[i] = e
    BY <1>1, <1>3
  <2>2. \A x : ~DeletedAfter(p, i, x)
    BY <1>1, <1>3 DEF DeletedAfter
  <2>3. e.kind = "deleted" => e.session \in Sessions
    BY DEF Event
  <2> QED
    BY <1>2, <2>1, <2>2, <2>3, StateAssumption
    DEF StatusAfter, KnownAfter, ParentAfter, OwnerAfter, TellsRequest
<1>4. CASE i \in 1 .. n
  <2>1. p[i] = q[i] /\ i < n + 1 /\ i \in DOMAIN q
    BY <1>1, <1>4
  <2>2. \A s : SilentOnStatus(p, i, s) => SilentOnStatus(q, i, s) /\ ~TellsStatus(e, s)
    BY <1>1, <1>4 DEF SilentOnStatus
  <2>3. \A s : SilentOnMetadata(p, i, s) => SilentOnMetadata(q, i, s) /\ ~TellsMetadata(e, s)
    BY <1>1, <1>4 DEF SilentOnMetadata
  <2>4. \A r : SilentOnRequest(p, i, r) => SilentOnRequest(q, i, r) /\ ~TellsRequest(e, r)
    BY <1>1, <1>4 DEF SilentOnRequest
  <2>5. \A s : DeletedAfter(p, i, s) <=> DeletedAfter(q, i, s) \/ Deletes(e, s)
    BY <1>1, <1>4 DEF DeletedAfter
  <2>6. \A s \in Sessions :
          /\ TellsStatus(p[i], s) /\ SilentOnStatus(p, i, s) =>
               next.sessions[s].status = StatusAfter(p[i], s, None)
          /\ TellsMetadata(p[i], s) /\ SilentOnMetadata(p, i, s) =>
               /\ next.sessions[s].known = KnownAfter(p[i], s, FALSE)
               /\ next.sessions[s].parent = ParentAfter(p[i], s, None)
    <3> TAKE s \in Sessions
    <3>1. ASSUME TellsStatus(p[i], s), SilentOnStatus(p, i, s)
          PROVE  next.sessions[s].status = StatusAfter(p[i], s, None)
      <4>1. st.sessions[s].status = StatusAfter(q[i], s, None)
        BY <2>1, <2>2, <3>1 DEF Stands
      <4>2. next.sessions[s].status = st.sessions[s].status
        BY <1>2, <2>2, <3>1 DEF StatusAfter
      <4> QED BY <2>1, <4>1, <4>2
    <3>2. ASSUME TellsMetadata(p[i], s), SilentOnMetadata(p, i, s)
          PROVE  /\ next.sessions[s].known = KnownAfter(p[i], s, FALSE)
                 /\ next.sessions[s].parent = ParentAfter(p[i], s, None)
      <4>1. /\ st.sessions[s].known = KnownAfter(q[i], s, FALSE)
            /\ st.sessions[s].parent = ParentAfter(q[i], s, None)
        BY <2>1, <2>3, <3>2 DEF Stands
      <4>2. /\ next.sessions[s].known = st.sessions[s].known
            /\ next.sessions[s].parent = st.sessions[s].parent
        BY <1>2, <2>3, <3>2 DEF KnownAfter, ParentAfter
      <4> QED BY <2>1, <4>1, <4>2
    <3> QED BY <3>1, <3>2
  <2>7. \A r \in Requests :
          /\ TellsRequest(p[i], r) /\ SilentOnRequest(p, i, r) =>
               next.owner[r] = IF DeletedAfter(p, i, OwnerAfter(p[i], r, None))
                               THEN None ELSE OwnerAfter(p[i], r, None)
          /\ p[i].kind = "deleted" /\ SilentOnRequest(p, i, r) =>
               next.owner[r] # p[i].session
    <3> TAKE r \in Requests
    <3>1. SilentOnRequest(p, i, r) =>
            next.owner[r] = IF Deletes(e, st.owner[r]) THEN None ELSE st.owner[r]
      BY <1>2, <2>4 DEF OwnerAfter, Deletes
    <3>2. ASSUME TellsRequest(p[i], r), SilentOnRequest(p, i, r)
          PROVE  next.owner[r] = IF DeletedAfter(p, i, OwnerAfter(p[i], r, None))
                                 THEN None ELSE OwnerAfter(p[i], r, None)
      <4>1. st.owner[r] = IF DeletedAfter(q, i, OwnerAfter(p[i], r, None))
                          THEN None ELSE OwnerAfter(p[i], r, None)
        BY <2>1, <2>4, <3>2 DEF Stands
      <4> QED BY <2>5, <3>1, <3>2, <4>1
    <3>3. ASSUME p[i].kind = "deleted", SilentOnRequest(p, i, r)
          PROVE  next.owner[r] # p[i].session
      <4>1. st.owner[r] # q[i].session
        BY <2>1, <2>4, <3>3 DEF Stands
      <4>2. q[i].session \in Sessions
        <5>1. q[i] \in Event
          BY <1>1, <1>4
        <5> QED BY <2>1, <3>3, <5>1 DEF Event
      <4> QED BY <2>1, <3>1, <3>3, <4>1, <4>2, StateAssumption
    <3> QED BY <3>2, <3>3
  <2> QED BY <2>6, <2>7
<1>5. i = n + 1 \/ i \in 1 .. n
  BY <1>1
<1> QED BY <1>3, <1>4, <1>5

\* A candidate that replays one event more catches up by as much.
LEMMA CatchesUpStep ==
  ASSUME NEW st \in StateRecord, NEW q \in Seq(Event), Stands(st, q),
         NEW n \in Nat, n < Len(q),
         NEW cand \in StateRecord, CatchesUp(cand, st, q, n),
         NEW next, next = ApplyEventCore(cand, q[n + 1])
  PROVE  CatchesUp(next, st, q, n + 1)
<1> DEFINE e == q[n + 1]
<1>1. e \in Event /\ n + 1 \in DOMAIN q
  OBVIOUS
<1>2. /\ \A s \in Sessions :
           /\ next.sessions[s].status = StatusAfter(e, s, cand.sessions[s].status)
           /\ next.sessions[s].known = KnownAfter(e, s, cand.sessions[s].known)
           /\ next.sessions[s].parent = ParentAfter(e, s, cand.sessions[s].parent)
      /\ \A r \in Requests : next.owner[r] = OwnerAfter(e, r, cand.owner[r])
  BY <1>1, CoreEffect
<1>3. DOMAIN q \subseteq Nat
  OBVIOUS
<1> HIDE DEF e
<1>4. \A j \in DOMAIN q : j > n => j = n + 1 \/ j > n + 1
  BY <1>3
<1> SUFFICES ASSUME NEW i \in 1 .. n + 1
    PROVE  /\ \A s \in Sessions :
                /\ TellsStatus(q[i], s) /\ SilentOnStatus(q, n + 1, s) =>
                     next.sessions[s].status = st.sessions[s].status
                /\ TellsMetadata(q[i], s) /\ SilentOnMetadata(q, n + 1, s) =>
                     /\ next.sessions[s].known = st.sessions[s].known
                     /\ next.sessions[s].parent = st.sessions[s].parent
           /\ \A r \in Requests :
                TellsRequest(q[i], r) /\ SilentOnRequest(q, n + 1, r) =>
                  \/ next.owner[r] = st.owner[r]
                  \/ st.owner[r] = None /\ DeletedAfter(q, n + 1, next.owner[r])
  BY DEF CatchesUp
<1>5. ASSUME NEW s \in Sessions, TellsStatus(q[i], s), SilentOnStatus(q, n + 1, s)
      PROVE  next.sessions[s].status = st.sessions[s].status
  <2>1. CASE TellsStatus(e, s)
    <3>1. st.sessions[s].status = StatusAfter(e, s, None)
      BY <1>1, <1>5, <2>1 DEF Stands, e
    <3> QED BY <1>2, <2>1, <3>1 DEF StatusAfter
  <2>2. CASE ~TellsStatus(e, s)
    <3>1. i \in 1 .. n /\ SilentOnStatus(q, n, s)
      BY <1>4, <1>5, <2>2 DEF SilentOnStatus, e
    <3>2. cand.sessions[s].status = st.sessions[s].status
      BY <1>5, <3>1 DEF CatchesUp
    <3> QED BY <1>2, <2>2, <3>2 DEF StatusAfter
  <2> QED BY <2>1, <2>2
<1>6. ASSUME NEW s \in Sessions, TellsMetadata(q[i], s), SilentOnMetadata(q, n + 1, s)
      PROVE  /\ next.sessions[s].known = st.sessions[s].known
             /\ next.sessions[s].parent = st.sessions[s].parent
  <2>1. CASE TellsMetadata(e, s)
    <3>1. /\ st.sessions[s].known = KnownAfter(e, s, FALSE)
          /\ st.sessions[s].parent = ParentAfter(e, s, None)
      BY <1>1, <1>6, <2>1 DEF Stands, e
    <3>2. /\ KnownAfter(e, s, FALSE) = KnownAfter(e, s, cand.sessions[s].known)
          /\ ParentAfter(e, s, None) = ParentAfter(e, s, cand.sessions[s].parent)
      BY <2>1, Zenon DEF KnownAfter, ParentAfter
    <3> QED BY <1>2, <3>1, <3>2
  <2>2. CASE ~TellsMetadata(e, s)
    <3>1. i \in 1 .. n /\ SilentOnMetadata(q, n, s)
      BY <1>4, <1>6, <2>2 DEF SilentOnMetadata, e
    <3>2. /\ cand.sessions[s].known = st.sessions[s].known
          /\ cand.sessions[s].parent = st.sessions[s].parent
      BY <1>6, <3>1 DEF CatchesUp
    <3> QED BY <1>2, <2>2, <3>2 DEF KnownAfter, ParentAfter
  <2> QED BY <2>1, <2>2
<1>7. ASSUME NEW r \in Requests, TellsRequest(q[i], r), SilentOnRequest(q, n + 1, r)
      PROVE  \/ next.owner[r] = st.owner[r]
             \/ st.owner[r] = None /\ DeletedAfter(q, n + 1, next.owner[r])
  <2>1. CASE TellsRequest(e, r)
    <3>1. st.owner[r] = IF DeletedAfter(q, n + 1, OwnerAfter(e, r, None))
                        THEN None ELSE OwnerAfter(e, r, None)
      BY <1>1, <1>7, <2>1 DEF Stands, e
    <3>2. next.owner[r] = OwnerAfter(e, r, None)
      BY <1>2, <2>1 DEF OwnerAfter
    <3> QED BY <3>1, <3>2
  <2>2. CASE ~TellsRequest(e, r)
    <3>1. i \in 1 .. n /\ SilentOnRequest(q, n, r)
      BY <1>4, <1>7, <2>2 DEF SilentOnRequest, e
    <3>2. \/ cand.owner[r] = st.owner[r]
          \/ st.owner[r] = None /\ DeletedAfter(q, n, cand.owner[r])
      BY <1>7, <3>1 DEF CatchesUp
    <3>3. next.owner[r] = IF Deletes(e, cand.owner[r]) THEN None ELSE cand.owner[r]
      BY <1>2, <2>2 DEF OwnerAfter, Deletes
    <3>4. CASE Deletes(e, cand.owner[r])
      <4>1. st.owner[r] # cand.owner[r]
        BY <1>1, <1>7, <3>4 DEF Stands, Deletes, e
      <4> QED BY <3>2, <3>3, <3>4, <4>1
    <3>5. CASE ~Deletes(e, cand.owner[r])
      <4>1. DeletedAfter(q, n, cand.owner[r]) => DeletedAfter(q, n + 1, cand.owner[r])
        BY <1>4, <3>5 DEF DeletedAfter, e
      <4> QED BY <3>2, <3>3, <3>5, <4>1
    <3> QED BY <3>4, <3>5
  <2> QED BY <2>1, <2>2
<1> QED BY <1>5, <1>6, <1>7

-----------------------------------------------------------------------------
(* The journal and the reasons for a further snapshot.                     *)

\* While a snapshot is in flight or replayed, the reducer holds what the
\* journal says and the candidate catches up with it.
JournalHeld ==
  /\ phase \in {"reconciling", "replaying"} => Stands(reducer, journal)
  /\ phase = "replaying" =>
       replayed <= Len(journal) /\ CatchesUp(candidate, reducer, journal, replayed)

\* The reasons for a further snapshot are covered from the moment the stream
\* is open: during the bootstrap by the events buffered, which arm the timer
\* when they are drained, later by the timer or by the request that follows.
OwedCovered ==
  /\ phase \in {"bootstrap", "draining", "live", "reconciling", "replaying"} =>
       ("resync" \in owed => resync \/ rerun)
  /\ phase = "bootstrap" => "event" \notin owed
  /\ phase = "draining" =>
       /\ "event" \in owed => coalesced
       /\ \A i \in DOMAIN journal : IsStateEvent(journal[i]) => coalesced
  /\ phase \in {"live", "reconciling", "replaying"} =>
       ("event" \in owed => coalesced \/ rerun)

PassInv == TypeOK /\ JournalHeld /\ OwedCovered

LEMMA InitPassInv == Init => PassInv
BY InitType DEF Init, PassInv, JournalHeld, OwedCovered

\* An event journaled, and one that is none, leave the reducer with what the
\* journal says.
LEMMA JournalEventStands ==
  ASSUME TypeOK, JournalHeld, JournalEvent
  PROVE  JournalHeld'
<1> DEFINE e == Head(stream)
<1>1. /\ e \in Event /\ reducer \in StateRecord /\ journal \in Seq(Event)
      /\ Stands(reducer, journal)
      /\ phase' = "reconciling"
  BY DEF TypeOK, JournalHeld, JournalEvent
<1>2. /\ reducer'.sessions = ApplyEventCore(reducer, e).sessions
      /\ reducer'.owner = ApplyEventCore(reducer, e).owner
  BY <1>1, EventFacts DEF JournalEvent, HandleLiveEvent
<1>3. CASE IsStateEvent(e)
  <2>1. journal' = Append(journal, e)
    BY <1>3 DEF JournalEvent
  <2> HIDE DEF e
  <2>2. Stands(reducer', Append(journal, e))
    BY <1>1, <1>2, StandsAppend
  <2> QED BY <1>1, <2>1, <2>2 DEF JournalHeld
<1>4. CASE ~IsStateEvent(e)
  <2>1. journal' = journal
    BY <1>4 DEF JournalEvent
  <2> HIDE DEF e
  <2>2. reducer'.sessions = reducer.sessions /\ reducer'.owner = reducer.owner
    BY <1>2, <1>4 DEF ApplyEventCore, IsStateEvent
  <2>3. Stands(reducer', journal)
    BY <1>1, <2>2 DEF Stands
  <2> QED BY <1>1, <2>1, <2>3 DEF JournalHeld
<1> QED BY <1>3, <1>4

LEMMA StepJournalHeld == TypeOK /\ JournalHeld /\ [Next]_vars => JournalHeld'
<1> SUFFICES ASSUME TypeOK, JournalHeld, [Next]_vars PROVE JournalHeld'
  OBVIOUS
<1>1. ASSUME UNCHANGED <<phase, reducer, journal, candidate, replayed>>
      PROVE  JournalHeld'
  BY <1>1 DEF JournalHeld
<1>2. ASSUME phase' \notin {"reconciling", "replaying"}
      PROVE  JournalHeld'
  BY <1>2 DEF JournalHeld
<1>3. ASSUME phase' = "reconciling", journal' = <<>>
      PROVE  JournalHeld'
  BY <1>3 DEF JournalHeld, Stands
<1>4. CASE ServerStep
  BY <1>1, <1>4, ServerLeavesTask DEF replayVars, passVars
<1>5. CASE \E part \in Parts : Answer(part)
  BY <1>1, <1>5 DEF Answer, Quiet, replayVars
<1>6. CASE DrainEvent \/ BootstrapEnds \/ BootstrapBroken \/ FinishReplay \/ LiveEvent
             \/ StreamEnds \/ Connect \/ BootstrapSnapshot \/ Reverify \/ ConnectFails
             \/ BufferEvent \/ BootstrapStreamEnds \/ BootstrapSnapshotFails \/ SnapshotFails
             \/ Stop
  BY <1>2, <1>6
  DEF DrainEvent, BootstrapEnds, BootstrapBroken, FinishReplay, LiveEvent, StreamEnds,
      Connect, BootstrapSnapshot, Reverify, ConnectFails, BufferEvent, BootstrapStreamEnds,
      BootstrapSnapshotFails, SnapshotFails, Stop, StartDraining, Disconnect
<1>7. CASE FollowUp \/ PeriodicPass \/ TriggeredPass
  BY <1>3, <1>7 DEF FollowUp, PeriodicPass, TriggeredPass, RequestSnapshot
<1>8. CASE JournalEvent
  BY <1>8, JournalEventStands
<1>9. CASE SnapshotArrives
  <2>1. /\ Stands(reducer, journal) /\ reducer' = reducer /\ journal' = journal
        /\ replayed' = 0 /\ Len(journal) \in Nat
    BY <1>9 DEF SnapshotArrives, JournalHeld, TypeOK
  <2>2. CatchesUp(candidate', reducer', journal', 0)
    BY DEF CatchesUp
  <2> QED BY <2>1, <2>2 DEF JournalHeld
<1>10. CASE Replay
  <2>1. /\ Stands(reducer, journal) /\ reducer' = reducer /\ journal' = journal
        /\ phase = "replaying" /\ phase' = phase
        /\ replayed \in Nat /\ Len(journal) \in Nat /\ replayed < Len(journal)
        /\ CatchesUp(candidate, reducer, journal, replayed)
        /\ candidate' = ApplyEventCore(candidate, journal[replayed + 1])
        /\ replayed' = replayed + 1
    BY <1>10 DEF Replay, JournalHeld, TypeOK, passVars
  <2>2. CatchesUp(candidate', reducer, journal, replayed + 1)
    BY <2>1, CatchesUpStep DEF TypeOK
  <2> QED BY <2>1, <2>2 DEF JournalHeld
<1>11. CASE TriggerInFlight \/ RequestResync \/ Finished \/ UNCHANGED vars
  BY <1>1, <1>11
  DEF TriggerInFlight, RequestResync, Finished, vars, passVars, replayVars
<1> QED
  BY <1>4, <1>5, <1>6, <1>7, <1>8, <1>9, <1>10, <1>11
  DEF Next, LocalStep, ReceiveStep, ArriveStep

LEMMA StepOwedCovered == TypeOK /\ OwedCovered /\ [Next]_vars => OwedCovered'
<1> SUFFICES ASSUME TypeOK, OwedCovered, [Next]_vars PROVE OwedCovered'
  OBVIOUS
<1>1. ASSUME UNCHANGED <<phase, owed, resync, rerun, coalesced>>,
             journal' = journal \/ phase # "draining"
      PROVE  OwedCovered'
  BY <1>1 DEF OwedCovered
<1>2. ASSUME phase' \in {"connecting", "waiting", "stopped"}
      PROVE  OwedCovered'
  BY <1>2 DEF OwedCovered
<1>3. ASSUME owed' = {}, phase' # "draining"
      PROVE  OwedCovered'
  BY <1>3 DEF OwedCovered
<1>4. ASSUME phase = "bootstrap", StartDraining
      PROVE  OwedCovered'
  BY <1>4 DEF OwedCovered, StartDraining
<1>5. CASE ServerStep
  BY <1>1, <1>5, ServerLeavesTask DEF triggerVars, passVars
<1>6. CASE \E part \in Parts : Answer(part)
  BY <1>1, <1>6 DEF Answer, triggerVars
<1>7. CASE DrainEvent
  <2>1. /\ journal \in Seq(Event) /\ journal # <<>> /\ journal' = Tail(journal)
        /\ phase = "draining" /\ phase' = phase
        /\ UNCHANGED <<resync, rerun, coalesced>>
        /\ owed' = IF IsStateEvent(Head(journal)) THEN owed \cup {"event"} ELSE owed
    BY <1>7 DEF DrainEvent, HandleLiveEvent, TypeOK, triggerVars
  <2>2. IsStateEvent(Head(journal)) => coalesced
    BY <2>1 DEF OwedCovered
  <2>3. \A i \in DOMAIN journal' : i + 1 \in DOMAIN journal /\ journal'[i] = journal[i + 1]
    BY <2>1
  <2> QED BY <2>1, <2>2, <2>3 DEF OwedCovered
<1>8. CASE BootstrapEnds
  BY <1>8 DEF BootstrapEnds, OwedCovered, triggerVars
<1>9. CASE BootstrapBroken \/ StreamEnds \/ Reverify \/ ConnectFails \/ Stop
  BY <1>2, <1>9 DEF BootstrapBroken, StreamEnds, Reverify, ConnectFails, Stop, Disconnect
<1>10. CASE Connect \/ FollowUp \/ PeriodicPass \/ TriggeredPass
  BY <1>3, <1>10 DEF Connect, FollowUp, PeriodicPass, TriggeredPass, RequestSnapshot
<1>11. CASE BootstrapSnapshot \/ BootstrapStreamEnds \/ BootstrapSnapshotFails
  BY <1>4, <1>11 DEF BootstrapSnapshot, BootstrapStreamEnds, BootstrapSnapshotFails
<1>12. CASE BufferEvent \/ Replay \/ Finished \/ UNCHANGED vars
  BY <1>1, <1>12 DEF BufferEvent, Replay, Finished, vars, triggerVars, passVars
<1>13. CASE FinishReplay
  BY <1>13 DEF FinishReplay, OwedCovered, triggerVars
<1>14. CASE LiveEvent
  BY <1>14 DEF LiveEvent, HandleLiveEvent, OwedCovered
<1>15. CASE JournalEvent
  BY <1>15 DEF JournalEvent, HandleLiveEvent, OwedCovered
<1>16. CASE TriggerInFlight
  BY <1>16 DEF TriggerInFlight, OwedCovered
<1>17. CASE SnapshotArrives \/ SnapshotFails
  BY <1>17 DEF SnapshotArrives, SnapshotFails, DrainReadyTriggers, OwedCovered
<1>18. CASE RequestResync
  BY <1>18 DEF RequestResync, OwedCovered, passVars
<1> QED
  BY <1>5, <1>6, <1>7, <1>8, <1>9, <1>10, <1>11, <1>12, <1>13, <1>14, <1>15, <1>16,
     <1>17, <1>18
  DEF Next, LocalStep, ReceiveStep, ArriveStep

LEMMA PassInvariance == Spec => []PassInv
<1>1. PassInv /\ [Next]_vars => PassInv'
  BY StepType, StepJournalHeld, StepOwedCovered DEF PassInv
<1> QED BY <1>1, InitPassInv, PTL DEF Spec

\* A snapshot request is still to leave after every state event and every
\* manual resync, however the triggers met the request in flight.
THEOREM AnotherSnapshotFollows == Spec => []SnapshotFollows
<1>1. PassInv => SnapshotFollows
  BY DEF PassInv, OwedCovered, SnapshotFollows
<1> QED BY <1>1, PassInvariance, PTL

\* What an event changes in the reducer the journal tells, once it is in it.
LEMMA ChangeIsJournaled ==
  ASSUME TypeOK, JournalEvent
  PROVE  ChangeJournaled
<1>1. PICK e : e = Head(stream)
  OBVIOUS
<1>2. /\ e \in Event /\ reducer \in StateRecord /\ journal \in Seq(Event)
      /\ reducer' = ApplyEvent(reducer, e)
  BY <1>1 DEF TypeOK, JournalEvent, HandleLiveEvent
<1>3. /\ \A s \in Sessions :
           /\ reducer'.sessions[s].status = StatusAfter(e, s, reducer.sessions[s].status)
           /\ reducer'.sessions[s].known = KnownAfter(e, s, reducer.sessions[s].known)
           /\ reducer'.sessions[s].parent = ParentAfter(e, s, reducer.sessions[s].parent)
      /\ \A r \in Requests : reducer'.owner[r] = OwnerAfter(e, r, reducer.owner[r])
  <2>1. PICK st, core : st = reducer /\ core = ApplyEventCore(st, e)
    OBVIOUS
  <2>2. /\ \A s \in Sessions :
             /\ core.sessions[s].status = StatusAfter(e, s, st.sessions[s].status)
             /\ core.sessions[s].known = KnownAfter(e, s, st.sessions[s].known)
             /\ core.sessions[s].parent = ParentAfter(e, s, st.sessions[s].parent)
        /\ \A r \in Requests : core.owner[r] = OwnerAfter(e, r, st.owner[r])
    BY <1>2, <2>1, CoreEffect
  <2>3. reducer'.sessions = core.sessions /\ reducer'.owner = core.owner
    BY <1>2, <2>1, EventFacts
  <2> QED BY <2>1, <2>2, <2>3
<1>4. ASSUME IsStateEvent(e)
      PROVE  \E i \in DOMAIN journal' : journal'[i] = e
  <2>1. journal' = Append(journal, e)
    BY <1>1, <1>4 DEF JournalEvent
  <2>2. Len(journal) + 1 \in DOMAIN journal' /\ journal'[Len(journal) + 1] = e
    BY <1>2, <2>1
  <2> QED BY <2>2
<1>5. ASSUME NEW s \in Sessions, reducer'.sessions[s].status # reducer.sessions[s].status
      PROVE  s \in JournaledStatus'
  <2>1. e.kind \in {"status", "deleted"} /\ e.session = s
    BY <1>3, <1>5 DEF StatusAfter, TellsStatus
  <2> QED BY <1>4, <2>1 DEF IsStateEvent, JournaledStatus
<1>6. ASSUME NEW s \in Sessions,
             \/ reducer'.sessions[s].known # reducer.sessions[s].known
             \/ reducer'.sessions[s].parent # reducer.sessions[s].parent
      PROVE  s \in JournaledMetadata'
  <2>1. TellsMetadata(e, s)
    BY <1>3, <1>6, Zenon DEF KnownAfter, ParentAfter
  <2> QED BY <1>4, <2>1 DEF IsStateEvent, JournaledMetadata, TellsMetadata
<1>7. ASSUME NEW r \in Requests, reducer'.owner[r] # reducer.owner[r]
      PROVE  r \in JournaledRequests' \/ reducer.owner[r] \in JournaledMetadata'
  <2>1. TellsRequest(e, r) \/ (e.kind = "deleted" /\ e.session = reducer.owner[r])
    BY <1>3, <1>7 DEF OwnerAfter
  <2>2. CASE TellsRequest(e, r)
    BY <1>4, <2>2 DEF IsStateEvent, JournaledRequests, TellsRequest
  <2>3. CASE e.kind = "deleted" /\ e.session = reducer.owner[r]
    <3>1. e.session \in Sessions
      BY <1>2, <2>3 DEF Event
    <3> QED BY <1>4, <2>3, <3>1 DEF IsStateEvent, JournaledMetadata
  <2> QED BY <2>1, <2>2, <2>3
<1> QED BY <1>5, <1>6, <1>7 DEF ChangeJournaled

\* While a snapshot is in flight the reducer changes by journaled events only.
LEMMA FlightJournaled ==
  ASSUME TypeOK, Next, phase = "reconciling", phase' = "reconciling"
  PROVE  ChangeJournaled
<1>1. ASSUME UNCHANGED reducer PROVE ChangeJournaled
  BY <1>1 DEF ChangeJournaled
<1>2. CASE ServerStep
  BY <1>1, <1>2, ServerLeavesTask
<1>3. CASE \E part \in Parts : Answer(part)
  BY <1>1, <1>3 DEF Answer
<1>4. CASE LocalStep
  BY <1>4 DEF LocalStep, DrainEvent, BootstrapEnds, BootstrapBroken, Replay, FinishReplay, FollowUp
<1>5. CASE ReceiveStep
  BY <1>5, ChangeIsJournaled DEF ReceiveStep, LiveEvent, StreamEnds, Disconnect
<1>6. CASE ArriveStep
  BY <1>6 DEF ArriveStep, Connect, BootstrapSnapshot, SnapshotArrives, Reverify
<1>7. CASE \/ ConnectFails \/ BufferEvent \/ BootstrapStreamEnds \/ BootstrapSnapshotFails
           \/ PeriodicPass \/ TriggeredPass \/ SnapshotFails \/ Finished
  BY <1>1, <1>7
  DEF ConnectFails, BufferEvent, BootstrapStreamEnds, BootstrapSnapshotFails,
      PeriodicPass, TriggeredPass, SnapshotFails, Finished, vars
<1>8. CASE TriggerInFlight \/ RequestResync \/ Stop
  BY <1>1, <1>8 DEF TriggerInFlight, RequestResync, Stop
<1> QED BY <1>2, <1>3, <1>4, <1>5, <1>6, <1>7, <1>8 DEF Next

\* The journal has all that the stream said while a snapshot was in flight, and
\* installing the snapshot takes back nothing of it.
THEOREM JournalOutlivesSnapshot == Spec => JournalWins
<1> DEFINE Kept ==
      /\ phase = "reconciling" /\ phase' = "reconciling" => ChangeJournaled
      /\ FinishReplay => JournalKept
<1>1. PassInv /\ [Next]_vars => [Kept]_vars
  <2> SUFFICES ASSUME PassInv, Next PROVE Kept
    OBVIOUS
  <2>5. phase = "reconciling" /\ phase' = "reconciling" => ChangeJournaled
    BY FlightJournaled DEF PassInv
  <2> SUFFICES ASSUME FinishReplay PROVE JournalKept
    BY <2>5
  <2>1. /\ replayed = Len(journal) /\ journal \in Seq(Event)
        /\ CatchesUp(candidate, reducer, journal, Len(journal))
        /\ candidate \in StateRecord
    BY DEF FinishReplay, PassInv, JournalHeld, TypeOK
  <2>2. reducer'.sessions = candidate.sessions /\ reducer'.owner = candidate.owner
    <3> DEFINE next == FinishReconcile(candidate, snapshotBusy, liveReady)
    <3>1. /\ candidate \in StateRecord /\ snapshotBusy \in SUBSET Sessions
          /\ liveReady \in SUBSET Sessions
      BY DEF PassInv, TypeOK
    <3>2. next.sessions = candidate.sessions /\ next.owner = candidate.owner
      BY <3>1, FinishFacts
    <3>3. reducer' = next
      BY DEF FinishReplay
    <3> QED BY <3>2, <3>3
  <2>3. DOMAIN journal = 1 .. Len(journal) /\ \A j \in DOMAIN journal : ~(j > Len(journal))
    BY <2>1
  <2>4. /\ \A x : SilentOnStatus(journal, Len(journal), x)
        /\ \A x : SilentOnMetadata(journal, Len(journal), x)
        /\ \A x : SilentOnRequest(journal, Len(journal), x)
        /\ \A x : ~DeletedAfter(journal, Len(journal), x)
    BY <2>3 DEF SilentOnStatus, SilentOnMetadata, SilentOnRequest, DeletedAfter
  <2> QED
    BY <2>1, <2>2, <2>3, <2>4
    DEF JournalKept, JournaledStatus, JournaledMetadata, JournaledRequests, CatchesUp,
        TellsStatus, TellsMetadata, TellsRequest
<1> QED BY <1>1, PassInvariance, PTL DEF Spec, JournalWins

-----------------------------------------------------------------------------
(* Readies answer what was reported.                                       *)

\* Whoever is armed or busy was reported busy since the last ready, and so
\* was whoever a replay may arm.
ArmedTold ==
  /\ reducer.armed \subseteq told
  /\ \A s \in Sessions : reducer.sessions[s].status \in Active => s \in told
  /\ phase = "replaying" =>
       candidate.armed \subseteq told /\ snapshotBusy \ liveReady \subseteq told

\* A live event emits only readies that were due and keeps the invariant.
LEMMA HandleTold ==
  ASSUME TypeOK, ArmedTold, NEW e \in Event, HandleLiveEvent(e)
  PROVE  /\ \A a \in attention' : a.kind = "ready" => a.root \in told
         /\ reducer'.armed \subseteq told'
         /\ \A s \in Sessions : reducer'.sessions[s].status \in Active => s \in told'
<1> DEFINE core == ApplyEventCore(reducer, e)
           ready == ReadyRoots(Reduced(reducer, e))
           busy == IF e.kind = "status" /\ e.status \in Active THEN {e.session} ELSE {}
<1>1. reducer \in StateRecord /\ told \in SUBSET Sessions
  BY DEF TypeOK
<1>2. /\ reducer' = ApplyEvent(reducer, e)
      /\ attention' = EventAttention(reducer, e)
      /\ told' = (told \cup busy)
                   \ {s \in Sessions : \E a \in attention' : a.kind = "ready" /\ a.root = s}
  BY DEF HandleLiveEvent, Emit
<1>3. \A s : (\E a \in attention' : a.kind = "ready" /\ a.root = s) <=> s \in ready
  BY <1>2, EventReadies
<1>4. told' = (told \cup busy) \ ready
  <2>1. ready \subseteq Sessions
    BY <1>1, EventFacts, ReducedArms, CoreType DEF StateRecord, BusyRoots
  <2> QED BY <1>2, <1>3, <2>1
<1>5. /\ core.armed \subseteq reducer.armed
      /\ Reduced(reducer, e).armed =
           {s \in core.armed : IsRoot(core.sessions, s)} \cup BusyRoots(core.sessions)
      /\ reducer'.sessions = core.sessions
      /\ reducer'.armed = Reduced(reducer, e).armed \ ready
      /\ ready \subseteq Reduced(reducer, e).armed
      /\ Reduced(reducer, e).sessions = core.sessions
  BY <1>1, <1>2, CoreArms, ReducedArms, EventFacts
<1>6. \A s \in ready : core.sessions[s].status \notin Active
  BY <1>5, ReadyIsIdle
<1>7. \A s \in Sessions : core.sessions[s].status = StatusAfter(e, s, reducer.sessions[s].status)
  BY <1>1, CoreEffect
<1>8. \A s \in Sessions : core.sessions[s].status \in Active => s \in told \cup busy
  <2> SUFFICES ASSUME NEW s \in Sessions, core.sessions[s].status \in Active
               PROVE  s \in told \cup busy
    OBVIOUS
  <2>1. CASE TellsStatus(e, s)
    <3>1. "idle" \notin Active
      BY DEF Active
    <3> QED BY <1>7, <2>1, <3>1 DEF StatusAfter, TellsStatus
  <2>2. CASE ~TellsStatus(e, s)
    BY <1>7, <2>2 DEF StatusAfter, ArmedTold
  <2> QED BY <2>1, <2>2
<1> HIDE DEF core, ready, busy
<1>9. \A s \in BusyRoots(core.sessions) : s \in Sessions /\ core.sessions[s].status \in Active
  BY DEF BusyRoots
<1>10. ready \subseteq told
  BY <1>5, <1>6, <1>9 DEF ArmedTold
<1>11. reducer'.armed \subseteq told'
  BY <1>4, <1>5, <1>8, <1>9 DEF ArmedTold
<1> QED BY <1>3, <1>4, <1>5, <1>6, <1>8, <1>10, <1>11

\* A candidate whose arms and whose busy sessions were reported, the latter
\* at the latest by this very step.
Reported(st, busy, live, reported) ==
  /\ st.armed \subseteq told
  /\ \A s \in busy \ live :
       s \in told \/ (s \in reported /\ st.sessions[s].status \in Active)
  /\ \A s \in Sessions : st.sessions[s].status \in Active => s \in told \cup reported

\* So does the end of a reconciliation.
LEMMA FinishTold ==
  ASSUME TypeOK, NEW st \in StateRecord,
         NEW busy \in SUBSET Sessions, NEW live \in SUBSET Sessions,
         NEW initial \in BOOLEAN, NEW reported \in SUBSET Sessions,
         Reported(st, busy, live, reported),
         reducer' = FinishReconcile(st, busy, live),
         Emit(ReconcileAttention(st, busy, live, initial), reported)
  PROVE  /\ \A a \in attention' : a.kind = "ready" => a.root \in told
         /\ reducer'.armed \subseteq told'
         /\ \A s \in Sessions : reducer'.sessions[s].status \in Active => s \in told'
<1> DEFINE ready == ReadyRoots(Settled(st, busy, live))
<1>1. /\ attention' = ReconcileAttention(st, busy, live, initial)
      /\ told' = (told \cup reported)
                   \ {s \in Sessions : \E a \in attention' : a.kind = "ready" /\ a.root = s}
  BY DEF Emit
<1>2. \A s : (\E a \in attention' : a.kind = "ready" /\ a.root = s) <=> ~initial /\ s \in ready
  BY <1>1, ReconcileReadies
<1>3. /\ Settled(st, busy, live).armed =
           {s \in st.armed : IsRoot(st.sessions, s)}
             \cup (busy \ live) \cup BusyRoots(st.sessions)
      /\ Settled(st, busy, live).sessions = st.sessions
      /\ reducer'.armed = Settled(st, busy, live).armed \ ready
      /\ ready \subseteq Settled(st, busy, live).armed
      /\ reducer'.sessions = st.sessions
  <2>1. reducer'.sessions = st.sessions
    BY FinishFacts
  <2>2. /\ Settled(st, busy, live).armed =
             {s \in st.armed : IsRoot(st.sessions, s)}
               \cup (busy \ live) \cup BusyRoots(st.sessions)
        /\ Settled(st, busy, live).sessions = st.sessions
        /\ FinishReconcile(st, busy, live).armed =
             Settled(st, busy, live).armed \ ready
        /\ ready \subseteq Settled(st, busy, live).armed
    BY SettledArms
  <2> HIDE DEF ready
  <2> QED BY <2>1, <2>2
<1>4. \A s \in ready : st.sessions[s].status \notin Active
  BY <1>3, ReadyIsIdle
<1> HIDE DEF ready
<1>5. \A s \in BusyRoots(st.sessions) : s \in Sessions /\ st.sessions[s].status \in Active
  BY DEF BusyRoots
<1>6. told' = IF initial THEN told \cup reported ELSE (told \cup reported) \ ready
  <2>1. told \cup reported \subseteq Sessions
    BY DEF TypeOK
  <2> QED BY <1>1, <1>2, <2>1
<1>7. ready \subseteq told
  BY <1>3, <1>4, <1>5 DEF Reported
<1>8. reducer'.armed \subseteq told'
  BY <1>3, <1>5, <1>6 DEF Reported
<1>9. \A s \in Sessions : reducer'.sessions[s].status \in Active => s \in told'
  BY <1>3, <1>4, <1>6 DEF Reported
<1>10. \A a \in attention' : a.kind = "ready" => a.root \in told
  BY <1>2, <1>7
<1> QED BY <1>8, <1>9, <1>10

\* What one step does: the readies it emits were due, and the invariant holds on.
ReadiesDue == \A a \in attention' : a.kind = "ready" => a.root \in told

LEMMA StepArmedTold == TypeOK /\ ArmedTold /\ [Next]_vars => ArmedTold' /\ [ReadiesDue]_vars
<1> SUFFICES ASSUME TypeOK, ArmedTold, [Next]_vars PROVE ArmedTold' /\ [ReadiesDue]_vars
  OBVIOUS
<1>0. TypeOK'
  BY StepType
<1>1. ASSUME Quiet, reducer' = reducer, candidate' = candidate, snapshotBusy' = snapshotBusy,
             liveReady' = liveReady, phase' = "replaying" => phase = "replaying"
      PROVE  ArmedTold' /\ [ReadiesDue]_vars
  BY <1>1 DEF Quiet, ArmedTold, ReadiesDue
<1>2. ASSUME Quiet, reducer' = reducer, phase' # "replaying"
      PROVE  ArmedTold' /\ [ReadiesDue]_vars
  BY <1>2 DEF Quiet, ArmedTold, ReadiesDue
<1>3. ASSUME NEW e \in Event, HandleLiveEvent(e), phase' # "replaying"
      PROVE  ArmedTold' /\ [ReadiesDue]_vars
  <2>1. /\ ReadiesDue
        /\ reducer'.armed \subseteq told'
        /\ \A s \in Sessions : reducer'.sessions[s].status \in Active => s \in told'
    BY <1>3, HandleTold DEF ReadiesDue
  <2> QED BY <1>3, <2>1 DEF ArmedTold
<1>4. CASE ServerStep
  <2>1. Quiet /\ UNCHANGED <<reducer, candidate, snapshotBusy, liveReady, phase>>
    BY <1>4, ServerLeavesTask DEF replayVars, passVars
  <2> QED BY <1>1, <2>1
<1>5. CASE \E part \in Parts : Answer(part)
  BY <1>1, <1>5 DEF Answer, replayVars
<1>6. CASE BootstrapEnds \/ BootstrapBroken \/ StreamEnds \/ Connect \/ Reverify
             \/ ConnectFails \/ BufferEvent \/ BootstrapStreamEnds \/ BootstrapSnapshotFails
             \/ SnapshotFails \/ Stop \/ FollowUp \/ PeriodicPass \/ TriggeredPass
             \/ TriggerInFlight
  BY <1>2, <1>6
  DEF BootstrapEnds, BootstrapBroken, StreamEnds, Connect, Reverify, ConnectFails,
      BufferEvent, BootstrapStreamEnds, BootstrapSnapshotFails, SnapshotFails, Stop,
      FollowUp, PeriodicPass, TriggeredPass, TriggerInFlight, StartDraining, Disconnect
<1>7. CASE RequestResync
  BY <1>1, <1>7 DEF RequestResync, replayVars, passVars
<1>8. CASE Finished \/ UNCHANGED vars
  BY <1>8 DEF Finished, vars, ArmedTold, replayVars, passVars
<1>9. CASE DrainEvent
  <2>1. Head(journal) \in Event /\ HandleLiveEvent(Head(journal)) /\ phase' # "replaying"
    BY <1>9 DEF DrainEvent, TypeOK
  <2> QED BY <1>3, <2>1
<1>10. CASE LiveEvent \/ JournalEvent
  <2>1. Head(stream) \in Event /\ HandleLiveEvent(Head(stream)) /\ phase' # "replaying"
    BY <1>10 DEF LiveEvent, JournalEvent, TypeOK
  <2> QED BY <1>3, <2>1
<1>11. CASE BootstrapSnapshot
  <2> DEFINE fresh == InstallSnapshot(reducer, Answered)
             reported == ReportedBusy(Answered)
  <2>1. /\ fresh \in StateRecord /\ fresh.armed = reducer.armed
        /\ \A s \in Sessions : fresh.sessions[s].status \in Active <=> s \in reported
        /\ reported \in SUBSET Sessions
    <3>1. reducer \in StateRecord /\ Answered \in Snapshot
      BY AnsweredType DEF TypeOK
    <3> QED BY <3>1, InstallFacts, InstallEffect DEF ReportedBusy, Snapshot
  <2>2. /\ reducer' = FinishReconcile(fresh, BusyRoots(fresh.sessions), {})
        /\ Emit(ReconcileAttention(fresh, BusyRoots(fresh.sessions), {}, ~initialized), reported)
        /\ (~initialized) \in BOOLEAN /\ phase' = "draining"
    BY <1>11 DEF BootstrapSnapshot, StartDraining, TypeOK
  <2> HIDE DEF fresh, reported
  <2>3. /\ BusyRoots(fresh.sessions) \in SUBSET Sessions /\ {} \in SUBSET Sessions
        /\ \A s \in BusyRoots(fresh.sessions) : fresh.sessions[s].status \in Active
    BY DEF BusyRoots
  <2>4. Reported(fresh, BusyRoots(fresh.sessions), {}, reported)
    BY <2>1, <2>3 DEF ArmedTold, Reported, BusyRoots
  <2>5. /\ ReadiesDue
        /\ reducer'.armed \subseteq told'
        /\ \A s \in Sessions : reducer'.sessions[s].status \in Active => s \in told'
    BY <2>1, <2>2, <2>3, <2>4, FinishTold DEF ReadiesDue
  <2> QED BY <2>2, <2>5 DEF ArmedTold
<1>12. CASE SnapshotArrives
  <2>1. /\ candidate' = InstallSnapshot(reducer, Answered) /\ reducer' = reducer
        /\ snapshotBusy' = BusyRoots(candidate'.sessions) /\ liveReady' = liveReady
        /\ told' = told \cup (ReportedBusy(Answered) \ liveReady)
        /\ attention' = {}
    BY <1>12 DEF SnapshotArrives
  <2>2. /\ candidate'.armed = reducer.armed
        /\ \A s \in Sessions :
             candidate'.sessions[s].status \in Active => s \in ReportedBusy(Answered)
    <3>1. reducer \in StateRecord /\ Answered \in Snapshot
      BY AnsweredType DEF TypeOK
    <3> QED BY <2>1, <3>1, InstallEffect DEF ReportedBusy
  <2>3. snapshotBusy' \subseteq ReportedBusy(Answered)
    BY <2>1, <2>2 DEF BusyRoots
  <2> QED BY <2>1, <2>2, <2>3 DEF ArmedTold, ReadiesDue
<1>13. CASE Replay
  <2>1. /\ journal[replayed + 1] \in Event /\ candidate \in StateRecord
        /\ candidate' = ApplyEventCore(candidate, journal[replayed + 1])
        /\ phase = "replaying" /\ reducer' = reducer /\ Quiet
        /\ snapshotBusy' = snapshotBusy /\ liveReady' = liveReady
    BY <1>13 DEF Replay, TypeOK, passVars
  <2>2. candidate'.armed \subseteq candidate.armed
    BY <2>1, CoreArms
  <2> QED BY <2>1, <2>2 DEF ArmedTold, Quiet, ReadiesDue
<1>14. CASE FinishReplay
  <2> DEFINE reported == {s \in Sessions : candidate.sessions[s].status \in Active}
  <2>1. /\ candidate \in StateRecord /\ snapshotBusy \in SUBSET Sessions
        /\ liveReady \in SUBSET Sessions /\ (~initialized) \in BOOLEAN
        /\ reducer' = FinishReconcile(candidate, snapshotBusy, liveReady)
        /\ Emit(ReconcileAttention(candidate, snapshotBusy, liveReady, ~initialized), reported)
        /\ phase = "replaying" /\ phase' = "live"
    BY <1>14 DEF FinishReplay, TypeOK
  <2>2. /\ candidate.armed \subseteq told
        /\ snapshotBusy \ liveReady \subseteq told
    BY <2>1 DEF ArmedTold
  <2>3. reported \in SUBSET Sessions /\ Reported(candidate, snapshotBusy, liveReady, reported)
    BY <2>2 DEF Reported
  <2> HIDE DEF reported
  <2>4. /\ \A a \in attention' : a.kind = "ready" => a.root \in told
        /\ reducer'.armed \subseteq told'
        /\ \A s \in Sessions : reducer'.sessions[s].status \in Active => s \in told'
    <3>1. /\ Emit(ReconcileAttention(candidate, snapshotBusy, liveReady, ~initialized), reported)
          /\ reducer' = FinishReconcile(candidate, snapshotBusy, liveReady)
      BY <2>1
    <3>2. /\ candidate \in StateRecord /\ snapshotBusy \in SUBSET Sessions
          /\ liveReady \in SUBSET Sessions /\ (~initialized) \in BOOLEAN
          /\ reported \in SUBSET Sessions /\ Reported(candidate, snapshotBusy, liveReady, reported)
      BY <2>1, <2>3
    <3> QED BY <3>1, <3>2, FinishTold, Zenon
  <2> QED BY <2>1, <2>4 DEF ArmedTold, ReadiesDue
<1> QED
  BY <1>4, <1>5, <1>6, <1>7, <1>8, <1>9, <1>10, <1>11, <1>12, <1>13, <1>14
  DEF Next, LocalStep, ReceiveStep, ArriveStep

LEMMA InitArmedTold == Init => ArmedTold
<1>1. \A s \in Sessions : InitState.sessions[s].status \notin Active
  BY DEF InitState, NoSession, Active
<1> QED BY <1>1, InitStateFacts DEF Init, ArmedTold

\* No ready goes out for a session that was not reported busy since the
\* last one.
THEOREM ReadiesAreEarned == Spec => ReadyOnlyAfterBusy
<1>1. Spec => [](TypeOK /\ ArmedTold)
  <2>1. TypeOK /\ ArmedTold /\ [Next]_vars => (TypeOK /\ ArmedTold)'
    BY StepType, StepArmedTold
  <2>2. Init => TypeOK /\ ArmedTold
    BY InitType, InitArmedTold
  <2> QED BY <2>1, <2>2, PTL DEF Spec
<1>2. TypeOK /\ ArmedTold /\ [Next]_vars => [ReadiesDue]_vars
  BY StepArmedTold
<1>3. Spec => [][ReadiesDue]_vars
  BY <1>1, <1>2, PTL DEF Spec
<1> QED BY <1>3 DEF ReadyOnlyAfterBusy, ReadiesDue

-----------------------------------------------------------------------------
(* Arms are not lost.                                                      *)

\* The sessions a server has ever held.
Born(held) == held.live \cup held.gone

\* What an event says of the metadata of a session was so when it was sent.
Truthful(held, e) ==
  /\ e.kind = "created" => e.session \in Born(held) /\ e.parent = held.parent[e.session]
  /\ e.kind = "deleted" => e.session \in held.gone

\* What a reducer knows of the metadata is what the server says.
Knows(held, st) ==
  \A s \in Sessions :
    st.sessions[s].known => s \in Born(held) /\ st.sessions[s].parent = held.parent[s]

\* After its first n events journal q still tells that s was created.
CreatedAfter(q, n, s) ==
  \E j \in DOMAIN q : j > n /\ q[j].kind = "created" /\ q[j].session = s

EventsTruthful ==
  /\ server.live \cap server.gone = {}
  /\ \A j \in DOMAIN stream : Truthful(server, stream[j])
  /\ \A j \in DOMAIN journal : Truthful(server, journal[j])

ReducerKnows ==
  /\ Knows(server, reducer)
  /\ reducer.armed \subseteq Born(server)
  /\ \A s \in reducer.armed \cap server.live : IsRoot(reducer.sessions, s)

\* Once a snapshot request has its sessions, they are no less than the
\* reducer knew when it left, and the journal tells of those it got to know
\* since.
SnapshotKnows ==
  InFlight /\ "sessions" \in snapshot.read =>
    /\ \A s \in snapshot.answer.listed :
         s \in Born(server) /\ snapshot.answer.parent[s] = server.parent[s]
    /\ \A s \in server.live :
         reducer.sessions[s].known =>
           \/ s \in snapshot.answer.listed
           \/ phase = "reconciling" /\ CreatedAfter(journal, 0, s)

\* A candidate keeps the arms and, in the end, the knowledge of the reducer
\* it will replace; the deleted sessions apart.
CandidateKnows ==
  phase = "replaying" =>
    /\ Knows(server, candidate)
    /\ reducer.armed \cap server.live \subseteq candidate.armed
    /\ candidate.armed \subseteq Born(server) /\ snapshotBusy \subseteq Born(server)
    /\ \A s \in snapshotBusy \cap server.live : IsRoot(candidate.sessions, s)
    /\ \A s \in server.live :
         reducer.sessions[s].known =>
           candidate.sessions[s].known \/ CreatedAfter(journal, replayed, s)

ArmsHeld == EventsTruthful /\ ReducerKnows /\ SnapshotKnows /\ CandidateKnows

\* What no step changes: a session born stays born with its parent, and one
\* that is gone stays gone.
Ages(held, next) ==
  /\ next.live \cap next.gone = {}
  /\ \A s \in Born(held) : s \in Born(next) /\ next.parent[s] = held.parent[s]
  /\ held.gone \subseteq next.gone
  /\ next.live \cap Born(held) \subseteq held.live

LEMMA TruthLasts ==
  ASSUME NEW held, NEW next, Ages(held, next), NEW e, Truthful(held, e)
  PROVE  Truthful(next, e)
BY DEF Ages, Truthful

\* An event that tells of a status tells of nothing else.
LEMMA StatusEventsKind ==
  ASSUME NEW s \in Sessions, NEW status \in Statuses, NEW e \in StatusEvents(s, status)
  PROVE  e.kind \in {"status", "message"}
<1>1. CASE Protocol = "v1"
  BY <1>1 DEF StatusEvents
<1>2. CASE Protocol # "v1"
  BY <1>2 DEF StatusEvents, AdaptV2Event
<1> QED BY <1>1, <1>2

\* The operations of the server let it age and send true events.
LEMMA ServerAges ==
  ASSUME TypeOK, EventsTruthful, ServerStep
  PROVE  /\ Ages(server, server')
         /\ \A j \in DOMAIN stream' : Truthful(server', stream'[j])
<1> DEFINE Goal == /\ Ages(server, server')
                   /\ \A j \in DOMAIN stream' : Truthful(server', stream'[j])
<1>0. /\ server \in ServerRecord /\ stream \in Seq(Event)
      /\ server.live \cap server.gone = {}
      /\ \A j \in DOMAIN stream : Truthful(server, stream[j])
  BY DEF TypeOK, EventsTruthful
<1>1. ASSUME NEW operation, NEW after, NEW e \in Event, Perform(operation, after, e),
             Ages(server, after), Truthful(after, e)
      PROVE  Goal
  <2>1. server' = after /\ (stream' = stream \/ stream' = Append(stream, e))
    BY <1>1 DEF Perform
  <2>2. \A j \in DOMAIN stream : Truthful(after, stream[j])
    BY <1>0, <1>1, TruthLasts
  <2>3. CASE stream' = stream
    BY <1>1, <2>1, <2>2, <2>3
  <2>4. CASE stream' = Append(stream, e)
    <3> SUFFICES ASSUME NEW j \in DOMAIN stream' PROVE Truthful(after, stream'[j])
      BY <1>1, <2>1
    <3>1. j \in DOMAIN stream \/ j = Len(stream) + 1
      BY <1>0, <2>4
    <3>2. CASE j \in DOMAIN stream
      <4>1. stream'[j] = stream[j]
        BY <1>0, <2>4, <3>2
      <4> QED BY <2>2, <3>2, <4>1
    <3>3. CASE j = Len(stream) + 1
      <4>1. stream'[j] = e
        BY <1>0, <2>4, <3>3
      <4> QED BY <1>1, <4>1
    <3> QED BY <3>1, <3>2, <3>3
  <2> QED BY <2>1, <2>3, <2>4
<1>2. ASSUME NEW after \in ServerRecord,
             after.live = server.live, after.gone = server.gone, after.parent = server.parent
      PROVE  Ages(server, after)
  BY <1>0, <1>2 DEF Ages, Born
<1> HIDE DEF Goal
<1>3. ASSUME NEW s \in Sessions, NEW p \in Sessions \cup {None}, Create(s, p) PROVE Goal
  <2> DEFINE after == [server EXCEPT !.live = @ \cup {s}, !.parent[s] = p, !.status[s] = "idle"]
             e == [kind |-> "created", session |-> s, parent |-> p]
  <2>1. Perform("create", after, e) /\ s \notin server.live \cup server.gone
    BY <1>3 DEF Create
  <2>2. /\ after.live = server.live \cup {s} /\ after.gone = server.gone
        /\ after.parent = [server.parent EXCEPT ![s] = p]
    BY <1>0 DEF ServerRecord
  <2>3. e \in Event /\ e.kind = "created" /\ e.session = s /\ e.parent = p
    BY DEF Event
  <2> HIDE DEF after, e
  <2>4. server.parent \in [Sessions -> Sessions \cup {None}]
        /\ server.live \subseteq Sessions /\ server.gone \subseteq Sessions
    BY <1>0 DEF ServerRecord
  <2>5. Ages(server, after) /\ Truthful(after, e)
    BY <1>0, <2>1, <2>2, <2>3, <2>4 DEF Ages, Truthful, Born
  <2> QED BY <1>1, <2>1, <2>3, <2>5
<1>4. ASSUME NEW s \in Sessions, NEW status \in Statuses, SetStatus(s, status) PROVE Goal
  <2> DEFINE after == [server EXCEPT !.status[s] = status]
  <2>1. PICK e \in StatusEvents(s, status) : Perform("status", after, e)
    BY <1>4 DEF SetStatus
  <2>2. e \in Event /\ Truthful(after, e)
    BY StatusEventsType, StatusEventsKind DEF Truthful
  <2>3. Ages(server, after)
    BY <1>0, <1>2 DEF ServerRecord
  <2> QED BY <1>1, <2>1, <2>2, <2>3
<1>5. ASSUME NEW s \in Sessions, Retry(s) PROVE Goal
  <2> DEFINE after == [server EXCEPT !.status[s] = "retry"]
  <2>1. PICK e \in StatusEvents(s, "retry") : Perform("retry", after, e)
    BY <1>5 DEF Retry
  <2>2. e \in Event /\ Truthful(after, e)
    BY StatusEventsType, StatusEventsKind DEF Truthful, Statuses
  <2>3. Ages(server, after)
    BY <1>0, <1>2 DEF ServerRecord, Statuses
  <2> QED BY <1>1, <2>1, <2>2, <2>3
<1>6. ASSUME NEW s \in Sessions, Fail(s) PROVE Goal
  <2> DEFINE after == [server EXCEPT !.status[s] = "idle"]
             e == [kind |-> "failed", session |-> s]
  <2>1. Perform("fail", after, e)
    BY <1>6 DEF Fail
  <2>2. e \in Event /\ Truthful(after, e)
    BY DEF Truthful, Event
  <2>3. Ages(server, after)
    BY <1>0, <1>2 DEF ServerRecord, Statuses
  <2> QED BY <1>1, <2>1, <2>2, <2>3
<1>7. ASSUME NEW s \in Sessions, Delete(s) PROVE Goal
  <2> DEFINE after ==
       [server EXCEPT
          !.live = @ \ {s}, !.gone = @ \cup {s},
          !.aborting = IF server.status[s] \in Active THEN @ \cup {s} ELSE @,
          !.status[s] = "idle",
          !.owner = [r \in Requests |->
             IF server.owner[r] = s THEN None ELSE server.owner[r]]]
             e == [kind |-> "deleted", session |-> s]
  <2>1. Perform("delete", after, e) /\ s \in server.live
    BY <1>7 DEF Delete
  <2>2. /\ after.live = server.live \ {s} /\ after.gone = server.gone \cup {s}
        /\ after.parent = server.parent
    BY <1>0 DEF ServerRecord
  <2>3. e \in Event /\ e.kind = "deleted" /\ e.session = s
    BY DEF Event
  <2> HIDE DEF after, e
  <2>4. Ages(server, after) /\ Truthful(after, e)
    BY <1>0, <2>1, <2>2, <2>3 DEF Ages, Truthful, Born
  <2> QED BY <1>1, <2>1, <2>3, <2>4
<1>8. ASSUME NEW s \in Sessions, Abort(s) PROVE Goal
  <2> DEFINE after == [server EXCEPT !.aborting = @ \ {s}]
  <2>1. PICK e \in StatusEvents(s, "idle") : Perform("delete", after, e)
    BY <1>8 DEF Abort
  <2>2. e \in Event /\ Truthful(after, e)
    BY StatusEventsType, StatusEventsKind DEF Truthful, Statuses
  <2>3. Ages(server, after)
    BY <1>0, <1>2 DEF ServerRecord
  <2> QED BY <1>1, <2>1, <2>2, <2>3
<1>9. ASSUME NEW r \in Requests, NEW s \in Sessions, Ask(r, s) PROVE Goal
  <2> DEFINE after == [server EXCEPT !.owner[r] = s, !.asked = @ \cup {r}]
             e == [kind |-> "asked", request |-> r, session |-> s]
  <2>1. Perform("ask", after, e)
    BY <1>9 DEF Ask
  <2>2. e \in Event /\ Truthful(after, e)
    BY DEF Truthful, Event
  <2>3. Ages(server, after)
    <3>1. after \in ServerRecord
      BY <1>0 DEF ServerRecord
    <3>2. /\ after.live = server.live /\ after.gone = server.gone
          /\ after.parent = server.parent
      BY <1>0 DEF ServerRecord
    <3> HIDE DEF after
    <3> QED BY <1>2, <3>1, <3>2
  <2> QED BY <1>1, <2>1, <2>2, <2>3
<1>10. ASSUME NEW r \in Requests, Reply(r) PROVE Goal
  <2> DEFINE after == [server EXCEPT !.owner[r] = None]
             e == [kind |-> "replied", request |-> r]
  <2>1. Perform("ask", after, e)
    BY <1>10 DEF Reply
  <2>2. e \in Event /\ Truthful(after, e)
    BY DEF Truthful, Event
  <2>3. Ages(server, after)
    <3>1. after \in ServerRecord
      BY <1>0 DEF ServerRecord
    <3>2. /\ after.live = server.live /\ after.gone = server.gone
          /\ after.parent = server.parent
      BY <1>0 DEF ServerRecord
    <3> HIDE DEF after
    <3> QED BY <1>2, <3>1, <3>2
  <2> QED BY <1>1, <2>1, <2>2, <2>3
<1>11. ASSUME Chatter PROVE Goal
  <2>1. [kind |-> "message"] \in Event /\ Truthful(server, [kind |-> "message"])
    BY DEF Event, Truthful
  <2> QED BY <1>0, <1>1, <1>2, <1>11, <2>1 DEF Chatter
<1>12. ASSUME BreakStream PROVE Goal
  <2>1. PICK n \in 0 .. Len(stream) : stream' = SubSeq(stream, 1, n) /\ server' = server
    BY <1>12 DEF BreakStream
  <2>2. \A j \in DOMAIN stream' : j \in DOMAIN stream /\ stream'[j] = stream[j]
    BY <1>0, <2>1
  <2> QED BY <1>0, <1>2, <2>1, <2>2 DEF Goal
<1> QED
  BY <1>3, <1>4, <1>5, <1>6, <1>7, <1>8, <1>9, <1>10, <1>11, <1>12 DEF ServerStep, Goal

\* Knowledge and truth outlast what the server does.
LEMMA KnowledgeLasts ==
  ASSUME NEW held, NEW next, Ages(held, next), NEW st, Knows(held, st)
  PROVE  Knows(next, st)
BY DEF Ages, Knows

\* A true event adds to the knowledge; it takes away only what is gone.
LEMMA CoreKnows ==
  ASSUME NEW held, held.live \cap held.gone = {}, NEW st \in StateRecord, NEW e \in Event,
         Truthful(held, e), Knows(held, st), NEW core, core = ApplyEventCore(st, e)
  PROVE  /\ Knows(held, core)
         /\ \A s \in Sessions :
              core.sessions[s].known =>
                st.sessions[s].known \/ (e.kind = "created" /\ e.session = s)
         /\ \A s \in Sessions \cap held.live :
              /\ st.sessions[s].known \/ (e.kind = "created" /\ e.session = s) =>
                   core.sessions[s].known
              /\ IsRoot(st.sessions, s) => IsRoot(core.sessions, s)
              /\ s \in st.armed => s \in core.armed
<1>1. \A s \in Sessions :
        /\ core.sessions[s].known = KnownAfter(e, s, st.sessions[s].known)
        /\ core.sessions[s].parent = ParentAfter(e, s, st.sessions[s].parent)
  BY CoreEffect
<1>2. \A s \in Sessions : st.sessions[s].known \in BOOLEAN
  BY DEF StateRecord, SessionRecord
<1>3. ASSUME NEW s \in Sessions, core.sessions[s].known
      PROVE  /\ st.sessions[s].known \/ (e.kind = "created" /\ e.session = s)
             /\ s \in Born(held) /\ core.sessions[s].parent = held.parent[s]
  <2>1. CASE TellsMetadata(e, s)
    <3>1. e.kind = "created" /\ e.session = s
      BY <1>1, <1>3, <2>1 DEF KnownAfter, TellsMetadata
    <3> QED BY <1>1, <2>1, <3>1 DEF ParentAfter, Truthful
  <2>2. CASE ~TellsMetadata(e, s)
    BY <1>1, <1>3, <2>2 DEF KnownAfter, ParentAfter, Knows
  <2> QED BY <2>1, <2>2
<1>4. ASSUME NEW s \in Sessions, s \in held.live
      PROVE  /\ st.sessions[s].known \/ (e.kind = "created" /\ e.session = s) =>
                  core.sessions[s].known
             /\ IsRoot(st.sessions, s) => IsRoot(core.sessions, s)
             /\ s \in st.armed => s \in core.armed
  <2>1. ~(e.kind = "deleted" /\ e.session = s)
    BY <1>4 DEF Truthful
  <2>2. st.sessions[s].known \/ (e.kind = "created" /\ e.session = s) => core.sessions[s].known
    BY <1>1, <2>1 DEF KnownAfter, TellsMetadata
  <2>3. s \in st.armed => s \in core.armed
    BY <2>1, CoreArms
  <2>4. IsRoot(st.sessions, s) => IsRoot(core.sessions, s)
    <3>1. SUFFICES ASSUME IsRoot(st.sessions, s) PROVE core.sessions[s].parent = None
      BY <2>2 DEF IsRoot
    <3>2. held.parent[s] = None
      BY <3>1 DEF IsRoot, Knows
    <3> QED BY <1>3, <2>2, <3>1, <3>2 DEF IsRoot
  <2> QED BY <2>2, <2>3, <2>4
<1>5. Knows(held, core)
  BY <1>3 DEF Knows
<1>6. \A s \in Sessions :
        core.sessions[s].known =>
          st.sessions[s].known \/ (e.kind = "created" /\ e.session = s)
  BY <1>3
<1> QED BY <1>4, <1>5, <1>6

\* An arm that disappears in a step of the task had its ready, or else.
ArmAnswered(s) ==
  \/ \E a \in attention' : a.kind = "ready" /\ a.root = s
  \/ s \notin server.live
  \/ ~initialized

\* A live event.
LEMMA HandleHolds ==
  ASSUME TypeOK, EventsTruthful, ReducerKnows, NEW e \in Event, Truthful(server, e),
         HandleLiveEvent(e), server' = server
  PROVE  /\ ReducerKnows'
         /\ \A s \in reducer.armed \ reducer'.armed : ArmAnswered(s)
         /\ \A s \in Sessions :
              reducer'.sessions[s].known =>
                reducer.sessions[s].known \/ (e.kind = "created" /\ e.session = s)
<1> DEFINE core == ApplyEventCore(reducer, e)
           reduced == Reduced(reducer, e)
<1>1. /\ reducer \in StateRecord /\ core \in StateRecord
      /\ server.live \subseteq Sessions /\ server.live \cap server.gone = {}
      /\ reducer.armed \subseteq Sessions
  BY CoreType DEF TypeOK, EventsTruthful, ServerRecord, StateRecord
<1>2. /\ core.armed \subseteq reducer.armed
      /\ reduced.armed = {s \in core.armed : IsRoot(core.sessions, s)} \cup BusyRoots(core.sessions)
      /\ reduced.sessions = core.sessions
      /\ reducer'.sessions = core.sessions
      /\ reducer'.armed = reduced.armed \ ReadyRoots(reduced)
  BY <1>1, CoreArms, ReducedArms, EventFacts DEF HandleLiveEvent
<1>3. \A s : s \in ReadyRoots(reduced) => \E a \in attention' : a.kind = "ready" /\ a.root = s
  BY EventReadies DEF HandleLiveEvent, Emit
<1>4. /\ Knows(server, core)
      /\ \A s \in Sessions :
           core.sessions[s].known =>
             reducer.sessions[s].known \/ (e.kind = "created" /\ e.session = s)
      /\ \A s \in Sessions \cap server.live :
           /\ IsRoot(reducer.sessions, s) => IsRoot(core.sessions, s)
           /\ s \in reducer.armed => s \in core.armed
  BY <1>1, CoreKnows DEF ReducerKnows
<1> HIDE DEF core, reduced
<1>5. \A s \in BusyRoots(core.sessions) :
        s \in Born(server) /\ IsRoot(core.sessions, s)
  BY <1>4 DEF BusyRoots, IsRoot, Knows
<1>6. ReducerKnows'
  <2>1. Knows(server', reducer')
    BY <1>2, <1>4 DEF Knows
  <2>2. reducer'.armed \subseteq Born(server')
    BY <1>2, <1>5 DEF ReducerKnows
  <2>3. \A s \in reducer'.armed \cap server'.live : IsRoot(reducer'.sessions, s)
    BY <1>2, <1>5
  <2> QED BY <2>1, <2>2, <2>3 DEF ReducerKnows
<1>7. ASSUME NEW s \in reducer.armed \ reducer'.armed, s \in server.live
      PROVE  s \in ReadyRoots(reduced)
  <2>1. IsRoot(core.sessions, s) /\ s \in core.armed
    BY <1>1, <1>4, <1>7 DEF ReducerKnows
  <2> QED BY <1>2, <1>7, <2>1
<1> QED BY <1>2, <1>3, <1>4, <1>6, <1>7 DEF ArmAnswered

\* A candidate that may take the place of the reducer.
Trusted(st, busy) ==
  /\ Knows(server, st)
  /\ st.armed \subseteq Born(server) /\ busy \subseteq Born(server)
  /\ \A s \in busy \cap server.live : IsRoot(st.sessions, s)
  /\ reducer.armed \cap server.live \subseteq st.armed
  /\ \A s \in server.live : reducer.sessions[s].known => st.sessions[s].known

\* The end of a reconciliation.
LEMMA FinishHolds ==
  ASSUME TypeOK, ReducerKnows, NEW st \in StateRecord, NEW busy \in SUBSET Sessions,
         NEW live \in SUBSET Sessions, Trusted(st, busy), NEW reported,
         NEW initial \in BOOLEAN, initialized => ~initial,
         reducer' = FinishReconcile(st, busy, live), server' = server,
         Emit(ReconcileAttention(st, busy, live, initial), reported)
  PROVE  /\ ReducerKnows'
         /\ \A s \in reducer.armed \ reducer'.armed : ArmAnswered(s)
<1> DEFINE settled == Settled(st, busy, live)
<1>1. /\ settled.armed = {s \in st.armed : IsRoot(st.sessions, s)}
                           \cup (busy \ live) \cup BusyRoots(st.sessions)
      /\ settled.sessions = st.sessions
      /\ FinishReconcile(st, busy, live).armed = settled.armed \ ReadyRoots(settled)
      /\ ReadyRoots(settled) \subseteq settled.armed
  BY SettledArms
<1>2. reducer'.armed = settled.armed \ ReadyRoots(settled) /\ reducer'.sessions = st.sessions
  <2>1. reducer'.sessions = st.sessions
    BY FinishFacts
  <2> HIDE DEF settled
  <2> QED BY <1>1, <2>1
<1>3. \A s : s \in ReadyRoots(settled) /\ initialized =>
               \E a \in attention' : a.kind = "ready" /\ a.root = s
  <2>1. \A s : (\E a \in attention' : a.kind = "ready" /\ a.root = s)
                <=> ~initial /\ s \in ReadyRoots(settled)
    BY ReconcileReadies DEF Emit
  <2> QED BY <2>1
<1> HIDE DEF settled
<1>4. \A s \in BusyRoots(st.sessions) : s \in Born(server) /\ IsRoot(st.sessions, s)
  BY DEF BusyRoots, IsRoot, Trusted, Knows
<1>5. ReducerKnows'
  <2>1. Knows(server', reducer')
    BY <1>2 DEF Knows, Trusted
  <2>2. reducer'.armed \subseteq Born(server')
    BY <1>1, <1>2, <1>4 DEF Trusted
  <2>3. \A s \in reducer'.armed \cap server'.live : IsRoot(reducer'.sessions, s)
    BY <1>1, <1>2, <1>4 DEF Trusted
  <2> QED BY <2>1, <2>2, <2>3 DEF ReducerKnows
<1>6. ASSUME NEW s \in reducer.armed \ reducer'.armed, s \in server.live
      PROVE  s \in ReadyRoots(settled)
  <2>1. s \in Sessions /\ s \in st.armed /\ IsRoot(reducer.sessions, s)
    BY <1>6 DEF Trusted, ReducerKnows, TypeOK, StateRecord
  <2>2. IsRoot(st.sessions, s)
    BY <1>6, <2>1 DEF IsRoot, Trusted, ReducerKnows, Knows
  <2> QED BY <1>1, <1>2, <1>6, <2>1, <2>2
<1> QED BY <1>3, <1>5, <1>6 DEF ArmAnswered

\* An operation of the server.
LEMMA ServerHolds == ASSUME TypeOK, ArmsHeld, ServerStep PROVE ArmsHeld'
<1>1. /\ Ages(server, server')
      /\ \A j \in DOMAIN stream' : Truthful(server', stream'[j])
  BY ServerAges DEF ArmsHeld
<1>2. UNCHANGED <<phase, reducer, snapshot, journal, candidate, snapshotBusy, replayed>>
  BY ServerLeavesTask DEF replayVars, passVars
<1>3. /\ reducer \in StateRecord /\ candidate \in StateRecord
      /\ server \in ServerRecord /\ server' \in ServerRecord
  BY ServerStepType DEF TypeOK
<1>4. EventsTruthful'
  <2>1. \A j \in DOMAIN journal : Truthful(server', journal[j])
    BY <1>1, TruthLasts DEF ArmsHeld, EventsTruthful
  <2> QED BY <1>1, <1>2, <2>1 DEF EventsTruthful, Ages
<1>5. ReducerKnows'
  <2>1. Knows(server', reducer')
    BY <1>1, <1>2, KnowledgeLasts DEF ArmsHeld, ReducerKnows
  <2> QED BY <1>1, <1>2, <2>1 DEF ArmsHeld, ReducerKnows, Ages
<1>6. \A s \in server'.live : reducer.sessions[s].known => s \in server.live
  BY <1>1, <1>3 DEF ArmsHeld, ReducerKnows, Knows, Ages, ServerRecord
<1>7. SnapshotKnows'
  BY <1>1, <1>2, <1>6 DEF ArmsHeld, SnapshotKnows, InFlight, Ages
<1>8. CandidateKnows'
  <2>1. phase = "replaying" => Knows(server', candidate')
    BY <1>1, <1>2, KnowledgeLasts DEF ArmsHeld, CandidateKnows
  <2>2. phase = "replaying" =>
          /\ candidate.armed \subseteq Born(server') /\ snapshotBusy \subseteq Born(server')
          /\ \A s \in snapshotBusy \cap server'.live : IsRoot(candidate.sessions, s)
          /\ reducer.armed \cap server'.live \subseteq candidate.armed
    BY <1>1 DEF ArmsHeld, CandidateKnows, ReducerKnows, Ages
  <2> QED BY <1>2, <1>6, <2>1, <2>2 DEF ArmsHeld, CandidateKnows
<1> QED BY <1>4, <1>5, <1>7, <1>8 DEF ArmsHeld

\* An answer of the server.
LEMMA AnswerHolds == ASSUME TypeOK, ArmsHeld, NEW part \in Parts, Answer(part) PROVE ArmsHeld'
<1>1. UNCHANGED <<server, stream, phase, reducer, journal, candidate, snapshotBusy, replayed>>
  BY DEF Answer, serverVars, replayVars
<1>2. EventsTruthful' /\ ReducerKnows' /\ CandidateKnows'
  BY <1>1 DEF ArmsHeld, EventsTruthful, ReducerKnows, CandidateKnows
<1>3. /\ snapshot \in [read : SUBSET Parts, answer : Snapshot]
      /\ snapshot'.read = snapshot.read \cup {part}
  BY DEF Answer, TypeOK
<1>4. CASE part = "sessions"
  <2>1. /\ snapshot'.answer.listed = server.live
        /\ snapshot'.answer.parent = server.parent
    BY <1>3, <1>4 DEF Answer, Snapshot
  <2>2. SnapshotKnows'
    BY <1>1, <2>1 DEF SnapshotKnows, Born
  <2> QED BY <1>2, <2>2 DEF ArmsHeld
<1>5. CASE part # "sessions"
  <2>1. /\ snapshot'.answer.listed = snapshot.answer.listed
        /\ snapshot'.answer.parent = snapshot.answer.parent
    <3>1. snapshot.answer \in Snapshot
      BY <1>3
    <3>2. CASE part = "statuses"
      BY <3>1, <3>2 DEF Answer, Snapshot
    <3>3. CASE part = "permissions"
      BY <3>1, <3>3 DEF Answer, Snapshot
    <3>4. CASE part = "questions"
      BY <3>1, <3>4 DEF Answer, Snapshot
    <3> QED BY <1>5, <3>2, <3>3, <3>4 DEF Parts
  <2>2. "sessions" \in snapshot'.read => "sessions" \in snapshot.read
    BY <1>3, <1>5
  <2>3. SnapshotKnows'
    BY <1>1, <2>1, <2>2 DEF ArmsHeld, SnapshotKnows, InFlight
  <2> QED BY <1>2, <2>3 DEF ArmsHeld
<1> QED BY <1>4, <1>5

\* The task moves events from the stream to the journal, or drops them.
LEMMA EventsMoved ==
  ASSUME TypeOK, EventsTruthful, server' = server,
         \/ stream' = stream \/ stream' = <<>>
         \/ stream # <<>> /\ stream' = Tail(stream),
         \/ journal' = journal \/ journal' = <<>>
         \/ journal # <<>> /\ journal' = Tail(journal)
         \/ stream # <<>> /\ journal' = Append(journal, Head(stream))
  PROVE  EventsTruthful'
<1>1. stream \in Seq(Event) /\ journal \in Seq(Event)
  BY DEF TypeOK
<1>2. \A j \in DOMAIN stream' : Truthful(server, stream'[j])
  <2>1. CASE stream # <<>> /\ stream' = Tail(stream)
    <3>1. \A j \in DOMAIN stream' : j + 1 \in DOMAIN stream /\ stream'[j] = stream[j + 1]
      BY <1>1, <2>1
    <3> QED BY <3>1 DEF EventsTruthful
  <2>2. CASE stream' = stream \/ stream' = <<>>
    BY <2>2 DEF EventsTruthful
  <2> QED BY <2>1, <2>2
<1>3. \A j \in DOMAIN journal' : Truthful(server, journal'[j])
  <2>1. CASE journal # <<>> /\ journal' = Tail(journal)
    <3>1. \A j \in DOMAIN journal' : j + 1 \in DOMAIN journal /\ journal'[j] = journal[j + 1]
      BY <1>1, <2>1
    <3> QED BY <3>1 DEF EventsTruthful
  <2>2. CASE journal' = journal \/ journal' = <<>>
    BY <2>2 DEF EventsTruthful
  <2>3. CASE stream # <<>> /\ journal' = Append(journal, Head(stream))
    <3>1. Truthful(server, Head(stream))
      BY <1>1, <2>3 DEF EventsTruthful
    <3>2. \A j \in DOMAIN journal' :
            \/ j \in DOMAIN journal /\ journal'[j] = journal[j]
            \/ journal'[j] = Head(stream)
      BY <1>1, <2>3
    <3> QED BY <3>1, <3>2 DEF EventsTruthful
  <2> QED BY <2>1, <2>2, <2>3
<1> QED BY <1>2, <1>3 DEF EventsTruthful

\* The snapshot as handed over keeps the sessions of the answer.
LEMMA AnsweredSessions ==
  ASSUME TypeOK
  PROVE  /\ Answered.listed = snapshot.answer.listed
         /\ Answered.parent = snapshot.answer.parent
BY DEF Answered, TypeOK, Snapshot

\* A complete snapshot makes a candidate that may replace the reducer, once
\* what the journal tells has been replayed.
LEMMA FreshHolds ==
  ASSUME TypeOK, ArmsHeld, InFlight, Complete,
         NEW fresh, fresh = InstallSnapshot(reducer, Answered)
  PROVE  /\ fresh \in StateRecord
         /\ Knows(server, fresh)
         /\ fresh.armed = reducer.armed
         /\ BusyRoots(fresh.sessions) \subseteq Born(server)
         /\ \A s \in BusyRoots(fresh.sessions) : IsRoot(fresh.sessions, s)
         /\ \A s \in server.live :
              reducer.sessions[s].known =>
                \/ fresh.sessions[s].known
                \/ phase = "reconciling" /\ CreatedAfter(journal, 0, s)
<1>1. reducer \in StateRecord /\ Answered \in Snapshot /\ server.live \subseteq Sessions
  BY AnsweredType DEF TypeOK, ServerRecord
<1>2. /\ fresh \in StateRecord /\ fresh.armed = reducer.armed
      /\ \A s \in Sessions :
           /\ fresh.sessions[s].known <=> s \in snapshot.answer.listed
           /\ s \in snapshot.answer.listed =>
                fresh.sessions[s].parent = snapshot.answer.parent[s]
  BY <1>1, InstallFacts, InstallEffect, AnsweredSessions
<1>3. "sessions" \in snapshot.read
  BY DEF Complete, Parts
<1>4. Knows(server, fresh)
  BY <1>2, <1>3 DEF ArmsHeld, SnapshotKnows, Knows
<1>5. \A s \in BusyRoots(fresh.sessions) : s \in Born(server) /\ IsRoot(fresh.sessions, s)
  BY <1>4 DEF BusyRoots, IsRoot, Knows
<1>6. \A s \in server.live :
        reducer.sessions[s].known =>
          \/ fresh.sessions[s].known
          \/ phase = "reconciling" /\ CreatedAfter(journal, 0, s)
  BY <1>1, <1>2, <1>3 DEF ArmsHeld, SnapshotKnows
<1> QED BY <1>2, <1>4, <1>5, <1>6

\* What one step does to the arms.
ArmsAnswered == \A s \in reducer.armed \ reducer'.armed : ArmAnswered(s)

LEMMA StepArmsHeld == TypeOK /\ ArmsHeld /\ [Next]_vars => ArmsHeld' /\ [ArmsAnswered]_vars
<1> SUFFICES ASSUME TypeOK, ArmsHeld, [Next]_vars PROVE ArmsHeld' /\ [ArmsAnswered]_vars
  OBVIOUS
<1>0. EventsTruthful /\ ReducerKnows /\ SnapshotKnows /\ CandidateKnows
  BY DEF ArmsHeld
<1>1. ASSUME server' = server, reducer' = reducer PROVE ReducerKnows' /\ ArmsAnswered
  BY <1>0, <1>1 DEF ReducerKnows, ArmsAnswered
<1>2. ASSUME EventsTruthful', server' = server, reducer' = reducer,
             phase' # "replaying", snapshot'.read = {} \/ phase' \notin {"bootstrap", "reconciling"}
      PROVE  ArmsHeld' /\ [ArmsAnswered]_vars
  BY <1>1, <1>2 DEF ArmsHeld, SnapshotKnows, CandidateKnows, InFlight
<1>3. CASE ServerStep
  <2>1. reducer' = reducer
    BY <1>3, ServerLeavesTask
  <2> QED BY <1>3, <2>1, ServerHolds DEF ArmsAnswered
<1>4. CASE \E part \in Parts : Answer(part)
  <2>1. reducer' = reducer
    BY <1>4 DEF Answer
  <2> QED BY <1>4, <2>1, AnswerHolds DEF ArmsAnswered
<1>5. CASE BootstrapEnds \/ BootstrapBroken \/ StreamEnds \/ Connect \/ Reverify
             \/ ConnectFails \/ BootstrapStreamEnds \/ BootstrapSnapshotFails
             \/ SnapshotFails \/ Stop \/ FollowUp \/ PeriodicPass \/ TriggeredPass
  <2>1. /\ server' = server /\ reducer' = reducer
        /\ stream' = stream \/ stream' = <<>>
        /\ journal' = journal \/ journal' = <<>>
        /\ phase' # "replaying"
        /\ snapshot' = NoAnswers \/ phase' \notin {"bootstrap", "reconciling"}
    BY <1>5
    DEF BootstrapEnds, BootstrapBroken, StreamEnds, Connect, Reverify, ConnectFails,
        BootstrapStreamEnds, BootstrapSnapshotFails, SnapshotFails, Stop, FollowUp,
        PeriodicPass, TriggeredPass, StartDraining, Disconnect, DropPass, RequestSnapshot,
        serverVars, passVars
  <2>2. EventsTruthful'
    BY <1>0, <2>1, EventsMoved
  <2> QED BY <1>2, <2>1, <2>2 DEF NoAnswers
<1>6. CASE TriggerInFlight \/ RequestResync \/ Finished \/ UNCHANGED vars
  <2>1. UNCHANGED <<server, stream, phase, reducer, snapshot, journal, candidate,
                    snapshotBusy, replayed>>
    BY <1>6
    DEF TriggerInFlight, RequestResync, Finished, vars, serverVars, passVars, replayVars
  <2> QED
    BY <1>0, <1>1, <2>1
    DEF ArmsHeld, EventsTruthful, SnapshotKnows, CandidateKnows, InFlight, CreatedAfter
<1>7. CASE BufferEvent
  <2>1. /\ UNCHANGED <<server, phase, reducer, snapshot>> /\ phase = "bootstrap"
        /\ stream # <<>> /\ stream' = Tail(stream) /\ journal' = Append(journal, Head(stream))
    BY <1>7 DEF BufferEvent
  <2>2. EventsTruthful'
    BY <1>0, <2>1, EventsMoved
  <2> QED
    BY <1>0, <1>1, <2>1, <2>2 DEF ArmsHeld, SnapshotKnows, CandidateKnows, InFlight
<1>8. ASSUME NEW e \in Event, Truthful(server, e), HandleLiveEvent(e), EventsTruthful',
             server' = server, phase' = phase, phase \in {"draining", "live"}
      PROVE  ArmsHeld' /\ [ArmsAnswered]_vars
  <2>1. ReducerKnows' /\ ArmsAnswered
    BY <1>0, <1>8, HandleHolds DEF ArmsAnswered
  <2> QED BY <1>8, <2>1 DEF ArmsHeld, SnapshotKnows, CandidateKnows, InFlight
<1>9. CASE DrainEvent
  <2>1. /\ phase = "draining" /\ phase' = phase /\ server' = server /\ stream' = stream
        /\ journal # <<>> /\ journal' = Tail(journal) /\ HandleLiveEvent(Head(journal))
    BY <1>9 DEF DrainEvent, serverVars
  <2>2. Head(journal) \in Event /\ Truthful(server, Head(journal))
    BY <1>0, <2>1 DEF TypeOK, EventsTruthful
  <2>3. EventsTruthful'
    BY <1>0, <2>1, EventsMoved
  <2> QED BY <1>8, <2>1, <2>2, <2>3
<1>10. CASE LiveEvent \/ JournalEvent
  <2> DEFINE e == Head(stream)
  <2>1. /\ server' = server /\ phase' = phase
        /\ stream # <<>> /\ stream' = Tail(stream) /\ HandleLiveEvent(e)
        /\ journal' = journal \/ journal' = Append(journal, e)
    BY <1>10 DEF LiveEvent, JournalEvent, passVars
  <2>2. e \in Event /\ Truthful(server, e)
    BY <1>0, <2>1 DEF TypeOK, EventsTruthful
  <2>3. EventsTruthful'
    BY <1>0, <2>1, EventsMoved
  <2> HIDE DEF e
  <2>4. CASE LiveEvent
    <3>1. phase = "live"
      BY <2>4 DEF LiveEvent
    <3> QED BY <1>8, <2>1, <2>2, <2>3, <3>1
  <2>5. CASE JournalEvent
    <3>1. /\ phase = "reconciling" /\ snapshot' = snapshot
          /\ journal' = IF IsStateEvent(e) THEN Append(journal, e) ELSE journal
      BY <2>5 DEF JournalEvent, e
    <3>2. /\ ReducerKnows' /\ ArmsAnswered
          /\ \A s \in Sessions :
               reducer'.sessions[s].known =>
                 reducer.sessions[s].known \/ (e.kind = "created" /\ e.session = s)
      BY <1>0, <2>1, <2>2, HandleHolds DEF ArmsAnswered
    <3>3. journal \in Seq(Event) /\ server.live \subseteq Sessions
      BY DEF TypeOK, ServerRecord
    <3>4. e.kind = "created" => journal' = Append(journal, e)
      BY <3>1 DEF IsStateEvent
    <3>5. \A s : CreatedAfter(journal, 0, s) => CreatedAfter(journal', 0, s)
      BY <3>1, <3>3, <2>2 DEF CreatedAfter
    <3>6. \A s : e.kind = "created" /\ e.session = s => CreatedAfter(journal', 0, s)
      <4> SUFFICES ASSUME e.kind = "created" PROVE CreatedAfter(journal', 0, e.session)
        OBVIOUS
      <4>1. /\ Len(journal) + 1 \in DOMAIN journal' /\ Len(journal) + 1 > 0
            /\ journal'[Len(journal) + 1] = e
        BY <2>2, <3>3, <3>4
      <4> QED BY <4>1 DEF CreatedAfter
    <3>7. SnapshotKnows'
      <4> SUFFICES ASSUME "sessions" \in snapshot.read PROVE SnapshotKnows'
        BY <3>1 DEF SnapshotKnows
      <4>1. /\ \A s \in snapshot.answer.listed :
                 s \in Born(server) /\ snapshot.answer.parent[s] = server.parent[s]
            /\ \A s \in server.live :
                 reducer.sessions[s].known =>
                   s \in snapshot.answer.listed \/ CreatedAfter(journal, 0, s)
        BY <1>0, <3>1 DEF SnapshotKnows, InFlight
      <4>2. \A s \in server.live :
              reducer'.sessions[s].known =>
                s \in snapshot.answer.listed \/ CreatedAfter(journal', 0, s)
        BY <3>2, <3>3, <3>5, <3>6, <4>1
      <4> QED BY <2>1, <3>1, <4>1, <4>2 DEF SnapshotKnows, Born
    <3> QED BY <2>1, <2>3, <3>1, <3>2, <3>7 DEF ArmsHeld, CandidateKnows
  <2> QED BY <1>10, <2>4, <2>5
<1>11. CASE BootstrapSnapshot
  <2> DEFINE fresh == InstallSnapshot(reducer, Answered)
             busy == BusyRoots(fresh.sessions)
             initial == ~initialized
  <2>1. /\ phase = "bootstrap" /\ phase' = "draining" /\ Complete
        /\ UNCHANGED <<server, stream, journal>>
        /\ reducer' = FinishReconcile(fresh, busy, {})
        /\ Emit(ReconcileAttention(fresh, busy, {}, initial), ReportedBusy(Answered))
    BY <1>11 DEF BootstrapSnapshot, StartDraining, serverVars
  <2>2. InFlight
    BY <2>1 DEF InFlight
  <2>3. /\ fresh \in StateRecord
        /\ Knows(server, fresh)
        /\ fresh.armed = reducer.armed
        /\ busy \subseteq Born(server)
        /\ \A s \in busy : IsRoot(fresh.sessions, s)
        /\ \A s \in server.live :
             reducer.sessions[s].known =>
               \/ fresh.sessions[s].known
               \/ phase = "reconciling" /\ CreatedAfter(journal, 0, s)
    BY <2>1, <2>2, FreshHolds
  <2>4. busy \in SUBSET Sessions /\ {} \in SUBSET Sessions
    BY DEF BusyRoots
  <2>5. initial \in BOOLEAN /\ (initialized => ~initial)
    BY DEF TypeOK
  <2> HIDE DEF fresh, busy, initial
  <2>6. Trusted(fresh, busy)
    BY <1>0, <2>1, <2>3 DEF Trusted, ReducerKnows
  <2>7. ReducerKnows' /\ ArmsAnswered
    BY <1>0, <2>1, <2>3, <2>4, <2>5, <2>6, FinishHolds DEF ArmsAnswered
  <2>8. EventsTruthful'
    BY <1>0, <2>1, EventsMoved
  <2> QED BY <2>1, <2>7, <2>8 DEF ArmsHeld, SnapshotKnows, CandidateKnows, InFlight
<1>12. CASE SnapshotArrives
  <2>1. /\ phase = "reconciling" /\ phase' = "replaying" /\ Complete
        /\ UNCHANGED <<server, stream, journal, reducer>>
        /\ candidate' = InstallSnapshot(reducer, Answered)
        /\ snapshotBusy' = BusyRoots(candidate'.sessions)
        /\ replayed' = 0
    BY <1>12 DEF SnapshotArrives, serverVars
  <2>2. InFlight
    BY <2>1 DEF InFlight
  <2>3. /\ Knows(server, candidate')
        /\ candidate'.armed = reducer.armed
        /\ snapshotBusy' \subseteq Born(server)
        /\ \A s \in snapshotBusy' : IsRoot(candidate'.sessions, s)
        /\ \A s \in server.live :
             reducer.sessions[s].known =>
               candidate'.sessions[s].known \/ CreatedAfter(journal, 0, s)
    BY <2>1, <2>2, FreshHolds
  <2>4. CandidateKnows'
    BY <1>0, <2>1, <2>3 DEF CandidateKnows, ReducerKnows, Born
  <2>5. EventsTruthful'
    BY <1>0, <2>1, EventsMoved
  <2> QED BY <1>1, <2>1, <2>4, <2>5 DEF ArmsHeld, SnapshotKnows, InFlight
<1>13. CASE Replay
  <2> DEFINE e == journal[replayed + 1]
  <2>1. /\ phase = "replaying" /\ phase' = phase /\ replayed < Len(journal)
        /\ UNCHANGED <<server, stream, journal, reducer, snapshotBusy>>
        /\ candidate' = ApplyEventCore(candidate, e) /\ replayed' = replayed + 1
    BY <1>13 DEF Replay, serverVars, passVars
  <2>2. /\ journal \in Seq(Event) /\ replayed \in Nat /\ candidate \in StateRecord
        /\ server.live \subseteq Sessions
    BY DEF TypeOK, ServerRecord
  <2>3. replayed + 1 \in DOMAIN journal
    BY <2>1, <2>2
  <2>4. e \in Event /\ Truthful(server, e)
    BY <1>0, <2>2, <2>3 DEF EventsTruthful
  <2>5. \A s : CreatedAfter(journal, replayed, s) =>
          (e.kind = "created" /\ e.session = s) \/ CreatedAfter(journal, replayed + 1, s)
    <3> SUFFICES ASSUME NEW s, NEW j \in DOMAIN journal, j > replayed,
                        journal[j].kind = "created", journal[j].session = s
                 PROVE  \/ e.kind = "created" /\ e.session = s
                        \/ CreatedAfter(journal, replayed + 1, s)
      BY DEF CreatedAfter
    <3>1. j = replayed + 1 \/ j > replayed + 1
      BY <2>2
    <3> QED BY <3>1 DEF CreatedAfter
  <2> HIDE DEF e
  <2>6. /\ Knows(server, candidate) /\ reducer.armed \cap server.live \subseteq candidate.armed
        /\ candidate.armed \subseteq Born(server) /\ snapshotBusy \subseteq Born(server)
        /\ \A s \in snapshotBusy \cap server.live : IsRoot(candidate.sessions, s)
        /\ \A s \in server.live :
             reducer.sessions[s].known =>
               candidate.sessions[s].known \/ CreatedAfter(journal, replayed, s)
    BY <1>0, <2>1 DEF CandidateKnows
  <2>7. /\ Knows(server, candidate')
        /\ \A s \in Sessions \cap server.live :
             /\ candidate.sessions[s].known \/ (e.kind = "created" /\ e.session = s) =>
                  candidate'.sessions[s].known
             /\ IsRoot(candidate.sessions, s) => IsRoot(candidate'.sessions, s)
             /\ s \in candidate.armed => s \in candidate'.armed
        /\ candidate'.armed \subseteq candidate.armed
    <3>1. server.live \cap server.gone = {}
      BY <1>0 DEF EventsTruthful
    <3> QED BY <2>1, <2>2, <2>4, <2>6, <3>1, CoreKnows, CoreArms
  <2>8. CandidateKnows'
    <3>1. \A s \in server.live :
            reducer.sessions[s].known =>
              candidate'.sessions[s].known \/ CreatedAfter(journal, replayed + 1, s)
      BY <2>2, <2>5, <2>6, <2>7
    <3>2. /\ reducer.armed \cap server.live \subseteq candidate'.armed
          /\ candidate'.armed \subseteq Born(server)
          /\ \A s \in snapshotBusy \cap server.live : IsRoot(candidate'.sessions, s)
      BY <2>2, <2>6, <2>7
    <3> QED BY <2>1, <2>6, <2>7, <3>1, <3>2 DEF CandidateKnows, Born
  <2>9. EventsTruthful'
    BY <1>0, <2>1, EventsMoved
  <2> QED BY <1>1, <2>1, <2>8, <2>9 DEF ArmsHeld, SnapshotKnows, InFlight
<1>14. CASE FinishReplay
  <2> DEFINE reported == {s \in Sessions : candidate.sessions[s].status \in Active}
             initial == ~initialized
  <2>1. /\ phase = "replaying" /\ phase' = "live" /\ replayed = Len(journal)
        /\ UNCHANGED <<server, stream>> /\ journal' = <<>>
        /\ reducer' = FinishReconcile(candidate, snapshotBusy, liveReady)
        /\ Emit(ReconcileAttention(candidate, snapshotBusy, liveReady, initial), reported)
    BY <1>14 DEF FinishReplay, serverVars
  <2>2. /\ candidate \in StateRecord /\ snapshotBusy \in SUBSET Sessions
        /\ liveReady \in SUBSET Sessions /\ journal \in Seq(Event)
        /\ initial \in BOOLEAN /\ (initialized => ~initial)
    BY DEF TypeOK
  <2>3. \A s : ~CreatedAfter(journal, replayed, s)
    BY <2>1, <2>2 DEF CreatedAfter
  <2> HIDE DEF reported, initial
  <2>4. Trusted(candidate, snapshotBusy)
    BY <1>0, <2>1, <2>3 DEF CandidateKnows, Trusted
  <2>5. ReducerKnows' /\ ArmsAnswered
    BY <1>0, <2>1, <2>2, <2>4, FinishHolds DEF ArmsAnswered
  <2>6. EventsTruthful'
    BY <1>0, <2>1, EventsMoved
  <2> QED BY <2>1, <2>5, <2>6 DEF ArmsHeld, SnapshotKnows, CandidateKnows, InFlight
<1> QED
  BY <1>3, <1>4, <1>5, <1>6, <1>7, <1>9, <1>10, <1>11, <1>12, <1>13, <1>14
  DEF Next, LocalStep, ReceiveStep, ArriveStep

LEMMA InitArmsHeld == Init => ArmsHeld
<1> SUFFICES ASSUME Init PROVE ArmsHeld
  OBVIOUS
<1>1. \A s \in Sessions : InitState.sessions[s].known = FALSE
  BY DEF InitState, NoSession
<1>2. InitState.armed = {}
  BY InitStateFacts
<1>3. server.live \cap server.gone = {}
  BY ConnectionAssumption DEF Init
<1> QED
  BY <1>1, <1>2, <1>3
  DEF Init, ArmsHeld, EventsTruthful, ReducerKnows, Knows, SnapshotKnows, CandidateKnows,
      InFlight

\* Whatever events, torn snapshots and replays do, an arm ends with its
\* ready: only the deletion of the session, or the snapshot that came first,
\* takes it away silently.
THEOREM ArmsAreNotLost == Spec => NoArmLost
<1>1. Spec => [](TypeOK /\ ArmsHeld)
  <2>1. TypeOK /\ ArmsHeld /\ [Next]_vars => (TypeOK /\ ArmsHeld)'
    BY StepType, StepArmsHeld
  <2>2. Init => TypeOK /\ ArmsHeld
    BY InitType, InitArmsHeld
  <2> QED BY <2>1, <2>2, PTL DEF Spec
<1>2. TypeOK /\ ArmsHeld /\ [Next]_vars => [ArmsAnswered]_vars
  BY StepArmsHeld
<1>3. Spec => [][ArmsAnswered]_vars
  BY <1>1, <1>2, PTL DEF Spec
<1> QED BY <1>3 DEF NoArmLost, ArmsAnswered, ArmAnswered
=============================================================================
