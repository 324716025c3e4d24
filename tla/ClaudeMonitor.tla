---------------------------- MODULE ClaudeMonitor ----------------------------
(***************************************************************************)
(* The Claude side of the monitor, run_claude of src/src/monitor.rs, with  *)
(* the bounded channel it writes to and the dashboard that reads it.       *)
(*                                                                         *)
(* The loop scans the markers of the live sessions one by one, yielding    *)
(* after each, hands a complete scan or the failure of one to the tracker  *)
(* (ClaudeTracker), and sends the events one by one, waiting for room.     *)
(* The dashboard (DashboardRows) applies them in order, while its user     *)
(* dismisses and restores what asks for attention.                         *)
(*                                                                         *)
(* The processes and their markers are not code of the repository.  A      *)
(* marker may outlive its process, and a process of another session may    *)
(* take the process ID and find the marker there.                          *)
(***************************************************************************)
EXTENDS DashboardRows

CONSTANTS InitialMarker, \* the markers of the processes Beacon finds
          QueueCapacity, \* the capacity of the event channel
          MaxChanges,    \* bound: changes of the processes and markers
          MaxFailures    \* bound: reads and scans that fail

VARIABLES
  births,   \* how often each process ID came into use: its process's start time
  alive,    \* the process IDs of live Claude processes
  tty,      \* the process IDs of processes with a terminal
  marker,   \* the session and status its marker holds
  used,     \* how much of each bound is used up
  shutdown, \* the shutdown token is cancelled, or the receiver is closed
  pc,       \* where the loop is
  todo,     \* the process IDs whose markers the scan has not come to
  observed, \* the sessions the scan has read so far
  sessions, \* the map of the tracker
  outbox,   \* the events of the scan that are still to be sent
  channel,  \* the events that are sent and not received
  rows,     \* the rows of the dashboard
  worked,   \* history: retained sessions that worked and were not announced since
  lapses,   \* history: complete scans in a row without the process, up to two
  put       \* history: rows whose attention is dismissed

worldVars == <<births, alive, tty, marker>>
loopVars == <<pc, todo, observed, sessions, outbox>>
historyVars == <<worked, lapses, put>>
vars == <<worldVars, used, shutdown, loopVars, channel, rows, historyVars>>

Markers == [sid : SessionIds, status : Statuses]

ASSUME MonitorAssumption ==
  /\ InitialMarker \in [Pids -> Markers \cup {None}]
  /\ None \notin Markers
  /\ QueueCapacity \in Nat \ {0} /\ MaxStarts >= 1

\* A step that may fail fails.
Fails ==
  /\ used.failures < MaxFailures
  /\ used' = [used EXCEPT !.failures = @ + 1]

-----------------------------------------------------------------------------
(* The processes and their markers.                                        *)

\* Once Beacon stops, nothing looks at the world any more.
WorldStep ==
  /\ ~shutdown
  /\ used.changes < MaxChanges
  /\ used' = [used EXCEPT !.changes = @ + 1]
  /\ UNCHANGED <<shutdown, loopVars, channel, rows, historyVars>>

Start(p) ==
  /\ p \notin alive /\ births[p] < MaxStarts
  /\ alive' = alive \cup {p} /\ tty' = tty \cup {p}
  /\ births' = [births EXCEPT ![p] = @ + 1]
  /\ WorldStep
  /\ UNCHANGED marker

\* The marker is removed, or left behind.
Exit(p) ==
  /\ p \in alive
  /\ alive' = alive \ {p} /\ tty' = tty \ {p}
  /\ marker' \in {marker, [marker EXCEPT ![p] = None]}
  /\ WorldStep
  /\ UNCHANGED births

WriteMarker(p, m) ==
  /\ p \in alive /\ marker[p] # m
  /\ marker' = [marker EXCEPT ![p] = m]
  /\ WorldStep
  /\ UNCHANGED <<births, alive, tty>>

LoseTerminal(p) ==
  /\ p \in alive \cap tty
  /\ tty' = tty \ {p}
  /\ WorldStep
  /\ UNCHANGED <<births, alive, marker>>

Shutdown ==
  /\ ~shutdown
  /\ shutdown' = TRUE
  /\ UNCHANGED <<worldVars, used, loopVars, channel, rows, historyVars>>

-----------------------------------------------------------------------------
(* The loop, run_claude, and a scan, claude::scan.                         *)

LoopStep == UNCHANGED <<worldVars, shutdown, rows, put>>

\* The poll interval elapses, or a manual resync is requested.
Tick ==
  /\ pc = "wait"
  /\ pc' = "scan" /\ todo' = Pids /\ observed' = {}
  /\ LoopStep
  /\ UNCHANGED <<used, sessions, outbox, channel, worked, lapses>>

\* What read_marker makes of the marker of a live process: the process is the
\* same before and after the marker is read.
Sight(p) ==
  {[key |-> [pid |-> p, start |-> births[p]], sid |-> marker[p].sid,
    tty |-> p \in tty, status |-> marker[p].status] :
     q \in {q \in alive \cap {p} : marker[q] # None}}

\* The marker is read, or cannot be: it is torn, or changes as it is read.
ReadMarker(p) ==
  /\ pc = "scan" /\ p \in todo /\ ~shutdown
  /\ todo' = todo \ {p}
  /\ \/ observed' = observed \cup Sight(p) /\ UNCHANGED used
     \/ Sight(p) # {} /\ Fails /\ UNCHANGED observed
  /\ LoopStep
  /\ UNCHANGED <<pc, sessions, outbox, channel, worked, lapses>>

Identity(o) == <<o.key, o.sid>>

Announced(events) ==
  {Identity(events[n].of) : n \in {m \in DOMAIN events : events[m].kind = "ready"}}

\* The scan is complete, and the tracker makes its events of it.
Scanned ==
  /\ pc = "scan" /\ todo = {} /\ ~shutdown
  /\ pc' = "send" /\ observed' = {}
  /\ sessions' = AfterSuccess(sessions, observed)
  /\ outbox' \in SuccessEvents(sessions, observed)
  /\ worked' = ((worked \cup {Identity(o) : o \in {w \in observed : w.status \in Working}})
                  \ Announced(outbox'))
                 \cap {Identity(sessions'[k].observed) : k \in DOMAIN sessions'}
  /\ lapses' = [p \in Pids |-> IF \E o \in observed : o.key.pid = p THEN 0
                               ELSE IF lapses[p] < 2 THEN lapses[p] + 1 ELSE 2]
  /\ LoopStep
  /\ UNCHANGED <<used, todo, channel>>

\* The directory cannot be read, or holds too much.
ScanFails ==
  /\ pc = "scan"
  /\ Fails
  /\ pc' = "send" /\ todo' = {} /\ observed' = {}
  /\ sessions' = AfterFailure(sessions)
  /\ outbox' \in FailureEvents(sessions)
  /\ LoopStep
  /\ UNCHANGED <<channel, worked, lapses>>

\* EventSink::send waits for room in the channel.
Send ==
  /\ pc = "send" /\ outbox # <<>> /\ ~shutdown
  /\ Len(channel) < QueueCapacity
  /\ channel' = Append(channel, Head(outbox))
  /\ outbox' = Tail(outbox)
  /\ LoopStep
  /\ UNCHANGED <<used, pc, todo, observed, sessions, worked, lapses>>

Sent ==
  /\ pc = "send" /\ outbox = <<>>
  /\ pc' = "wait"
  /\ LoopStep
  /\ UNCHANGED <<used, todo, observed, sessions, outbox, channel, worked, lapses>>

\* A cancelled loop ends wherever it waits; what it has not sent is dropped.
Stop ==
  /\ shutdown /\ pc # "stopped"
  /\ pc' = "stopped"
  /\ todo' = {} /\ observed' = {} /\ outbox' = <<>>
  /\ LoopStep
  /\ UNCHANGED <<used, sessions, channel, worked, lapses>>

-----------------------------------------------------------------------------
(* The dashboard and its user.                                             *)

ViewStep ==
  UNCHANGED <<worldVars, used, shutdown, loopVars, worked, lapses>>

\* After this event the attention of a row is another one, or none.
EndsDismissal(e) ==
  \/ e.kind \in {"removed", "ready"}
  \/ e.kind = "projection" /\ (e.of.status # "idle" \/ ~e.of.tty)

Receive ==
  /\ channel # <<>>
  /\ channel' = Tail(channel)
  /\ LET e == Head(channel)
     IN  /\ rows' = Show(rows, e)
         /\ put' = IF EndsDismissal(e) THEN put \ {e.of.key} ELSE put
  /\ ViewStep

\* dismiss_selected.
Dismiss(k) ==
  /\ Occurrence(rows[k]) # None
  /\ rows' = [rows EXCEPT ![k].dismissed = Occurrence(rows[k])]
  /\ put' = put \cup {k}
  /\ ViewStep /\ UNCHANGED channel

\* restore_selected.
Restore(k) ==
  /\ IsDismissed(rows[k])
  /\ rows' = [rows EXCEPT ![k].dismissed = None]
  /\ put' = put \ {k}
  /\ ViewStep /\ UNCHANGED channel

-----------------------------------------------------------------------------

Init ==
  /\ alive = {p \in Pids : InitialMarker[p] # None} /\ tty = alive
  /\ births = [p \in Pids |-> IF p \in alive THEN 1 ELSE 0]
  /\ marker = InitialMarker
  /\ used = [changes |-> 0, failures |-> 0]
  /\ shutdown = FALSE
  /\ pc = "wait" /\ todo = {} /\ observed = {}
  /\ sessions = [k \in {} |-> None]
  /\ outbox = <<>> /\ channel = <<>>
  /\ rows = [k \in {} |-> None]
  /\ worked = {} /\ lapses = [p \in Pids |-> 0] /\ put = {}

Change(p) ==
  Start(p) \/ Exit(p) \/ LoseTerminal(p) \/ \E m \in Markers : WriteMarker(p, m)

Loop == Tick \/ Scanned \/ Send \/ Sent \/ Stop \/ \E p \in Pids : ReadMarker(p)

\* The loop has returned.
Rest == pc = "stopped" /\ UNCHANGED vars

Next ==
  \/ Shutdown \/ \E p \in Pids : Change(p)
  \/ Loop \/ ScanFails
  \/ Receive
  \/ \E k \in DOMAIN rows : Dismiss(k) \/ Restore(k)
  \/ Rest

Spec == Init /\ [][Next]_vars

\* The poll interval elapses, the loop runs and the dashboard reads on.
FairSpec == Spec /\ WF_vars(Loop) /\ WF_vars(Receive)

-----------------------------------------------------------------------------
(* Properties.                                                             *)

\* The dashboard never shows two sessions of one process ID, not even between
\* two events of one scan: "PID reuse must remove the old PID/starttime
\* identity before adding its successor".
RowsOnePerProcess ==
  \A j \in DOMAIN rows, k \in DOMAIN rows : j.pid = k.pid => j = k

\* Does the row show the session as observed?
Shows(row, o, stale) ==
  /\ row.sid = o.sid /\ row.stale = stale
  /\ row.busy = (o.status \in Working) /\ row.ready = (o.status = "idle")

\* Once every event is received the rows are what the tracker retains: the
\* differences it reports add up to the whole.
RowsFollow ==
  outbox = <<>> /\ channel = <<>> /\ pc # "stopped" =>
    /\ DOMAIN rows = {k \in DOMAIN sessions : sessions[k].observed.tty}
    /\ \A k \in DOMAIN rows : Shows(rows[k], sessions[k].observed, sessions[k].stale)

\* A session that worked and is idle now has been announced, whatever it was
\* in between, and however many scans failed or missed it meanwhile.
NothingOwed ==
  \A k \in DOMAIN sessions :
    sessions[k].observed.status = "idle" => Identity(sessions[k].observed) \notin worked

\* An attention the user dismissed stays dismissed until the session goes on,
\* is announced anew or goes: neither staleness nor events that were already
\* on their way bring it back.
DismissalHolds == \A k \in put : k \in DOMAIN rows /\ IsDismissed(rows[k])

\* Ready is announced only of the very session that was seen working, and only
\* once for its work.
ReadyEarned ==
  [][Announced(outbox') \subseteq Announced(outbox) \cup worked]_vars

\* A session leaves the map only if another one has its process ID or its
\* process, or two complete scans in a row were without it: failed scans
\* take no part.
RemovedWithCause ==
  [][\A k \in DOMAIN sessions :
       \/ k \in DOMAIN sessions' /\ sessions'[k].observed.sid = sessions[k].observed.sid
       \/ \E o \in observed :
            o.key.pid = k.pid /\ Identity(o) # Identity(sessions[k].observed)
       \/ lapses'[k.pid] = 2]_vars

\* When the processes rest the dashboard comes to show those that have a
\* terminal and a marker, as their markers say, and nothing else.
DashboardConverges ==
  <>[](\/ shutdown
       \/ /\ DOMAIN rows = {o.key : o \in UNION {Sight(p) : p \in tty}}
          /\ \A o \in UNION {Sight(p) : p \in tty} : Shows(rows[o.key], o, FALSE))
=============================================================================
