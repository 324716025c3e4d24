# A verification development for OpenCode Beacon

Beacon watches the OpenCode servers and the Claude sessions of one user and tells, as a
stream of events and as a terminal dashboard, what each of them is doing and when one of
them wants attention; a key brings the terminal of a session to the front. This directory
holds TLA+ modules that model it, the TLC configurations that check them on small
instances, and TLAPS proofs of what matters most.

Run everything from this directory:

    tlc -workers 2 -config connection_v1.cfg MCServerConnection.tla
    tlapm ServerConnection_proofs.tla

## The system

| Part | Source | State it keeps | What it does | What is hard about it |
|---|---|---|---|---|
| Session reducer | `src/src/state.rs`, `model.rs` | session records, request indexes, seen requests, armed roots | folds events and snapshots into the state of one server; derives attention (question, permission, ready) | the same facts arrive by stream, snapshot and replay |
| Connection task | `src/src/monitor.rs` (`run_server`, `monitor_connection`) | the reducer, the journal, triggers, the snapshot request in flight | bootstrap, live events, reconciliation, reconnection | events and snapshots are not ordered with each other; triggers overlap requests |
| Discovery loop | `src/src/monitor.rs` (`run_discovery_with`, `discover_once`) | the map of active servers, the gate's baseline, the settling timer, generations | finds, replaces and removes servers; starts, stops and verifies tasks | partial failure, replaced endpoints, a task waiting for a verification that is older than its disconnect |
| Procfs and registration readers | `src/src/discovery.rs` | none | read the listener table, processes and registrations; probe their health | tables and files change while they are read |
| HTTP clients | `src/src/client.rs` | SSE buffer | snapshots, pagination, event decoding for two protocols | torn snapshots, split frames |
| Claude tracker | `src/src/claude.rs` | retained sessions with misses, staleness, arms | folds scans of marker files | pid reuse, failed scans |
| Dashboard model | `src/src/dashboard.rs` | rows, occurrences, connected set, sticky attachments, selection | folds the events into rows; resolves which terminal shows which session | frozen times, claims of several terminals, samples that come late |
| Attachment sampler | `src/src/attachment.rs` | targets, likely terminals with misses | correlates terminal processes with servers | processes that change while they are read |
| Memory sampler | `src/src/memory.rs` | cgroup scopes with their history | samples memory, by scope | scopes shared by instances, processes that move |
| Terminal focus | `src/src/focus.rs`, `kwin_focus.js` | one activation attempt | raises the right terminal window | one-use tokens, stale targets |
| Konsole plugin, Kitty extension | `src/konsole-plugin`, `src/kitty-extension` | live in the terminals' processes | acquire a token, select a tab | not Beacon's process |
| Command line | `src/src/main.rs` | terminal modes | wires it all up | restoring the terminal |

The discovery loop starts one connection task per server and writes, as the tasks do, to
one bounded channel of events. A task whose connection breaks requests a discovery pass and
waits for its completion; a manual resync reaches the loop and all tasks through watches.
The Claude side polls the markers of live sessions in a loop of its own and writes to the
same channel. The consumer of the channel (dashboard or `watch`) feeds the dashboard model
and the two samplers, which know nothing of the tasks; the dashboard applies what the
samplers find, and while Enter's attempt to focus a terminal is under way it waits for that
attempt and for signals only.

## The modules

The first group is the monitor.

| Module | Models | State and actions |
|---|---|---|
| `ServerState` | the reducer of `state.rs` | pure operators: `ApplyEvent` (`apply_event_with_updates`), `InstallSnapshot`, `FinishReconcile` and `ReconcileAttention` (the three parts of `reconcile_replayed_with_updates`), and the attention each gives |
| `ServerConnection` | `run_server` and `monitor_connection` with a nondeterministic server | `phase` is the place in the code; `journal` is `EventJournal` (or the bootstrap buffer), `coalesced` the armed timer, `rerun` the flag of `reconcile_in_flight`, `candidate` the reducer being rebuilt. One action per branch of each `select!`; `AdaptV2Event` and `StatusEvents` are the translation of v2 events |
| `MCServerConnection`, `MCBusyPeriods` | small instances, and an observer that counts busy periods | |
| `Discovery` | `run_discovery_with`, `discover_once`, the probes, and the tasks as far as discovery sees them | `pc` is the place in the loop or pass, `gate` the loop's locals, `scan` what the pass has read, `server` the map's entries with the state of their tasks, `queued` the fill of the channel |
| `MCDiscovery` | small instances | |

The second group is what the monitor and the samplers read. Each module of it has a reader
that takes one look after the other at something that changes between any two of them.

| Module | Models | State and actions |
|---|---|---|
| `ProcessTable` | Linux (external): processes that start, fork, execute, end, whose IDs and sockets are used again | `procs` is the table, `seen` every table since the reader began |
| `ProcfsScan` | the procfs backend of `discovery.rs` | listeners, owners of sockets, likely programs, the way up to a launcher, credentials: one read per action |
| `ChangingFile` | a file another program replaces, rewrites, removes or makes unsafe (external) | |
| `RegistrationFile` | `read_registration`, `discover_registration` | look, open, look, read twice, look again |
| `ClaudeMarker` | `ClaudeDiscovery::read_marker`, over `ProcessTable` and `ChangingFile` | the same, with the process looked at before and after |
| `AttachmentSampler` | `attachment.rs`: the scan read by read, `observe`, misses, focus targets | `targets` and `retained` are the sampler's maps, `reader` the scan in progress, `found` and `focused` what it returned |
| `MemorySampler` | `memory.rs`: resolution of a scope read by read, validation, values and their age, purge | `scopes`, `instances`, `views` |
| `TuiArguments` | `classify_argv` | one argument per step |
| `Ordering` | the sorting of a list by a key of its elements | a pure operator, defined by what the result is |
| `EventStream` | `decode_next_frame` and the stream around it | `buffer` and `from` (`search_from`) |
| `SessionPages` | the paged listing of `OpenCodeV2Client::snapshot` with the request for the active sessions beside it | `fetch` is the listing, `updated` the server's sessions |
| `MCReaders` | one instance of each; a behavior is about one of them, `part` says which | |

The third group is the user's side.

| Module | Models | State and actions |
|---|---|---|
| `ClaudeTracker` | the tracker of `claude.rs` | pure operators: `AfterSuccess` and `SuccessEvents` (the two results of `apply_success`), `AfterFailure` and `FailureEvents` (those of `apply_failure`) |
| `DashboardRows` | the Claude rows of `dashboard.rs` | pure operators: `Show` (`apply_at`), `UpdateRow` (`apply_claude_projection`), `ReadyRow` (`apply_claude_ready`), `Occurrence` |
| `ClaudeMonitor` | `run_claude` and `scan`, composed with both of them | `pc` is the place in the loop, `todo` and `observed` the scan, `sessions` the tracker's map, `outbox` the events the loop is sending, `channel` those sent, `rows` the dashboard. One action per read, per event sent and received, per key the user presses |
| `TuiResolution` | which terminal shows which root session: the four rounds of claims (explicit, sticky, working, unique) and the directories they rest on | pure operators |
| `DashboardModel` | `DashboardModel` of `dashboard.rs`: the rows of OpenCode servers | pure operators from one dashboard to the next, one per event, sample and key |
| `Dashboard` | the loop that applies them in any order the monitor, the samplers and the user allow | `m` is the dashboard, `monitor` where each server's task is |
| `FocusPromise` | the abstract specification of Enter: the right terminal, one token, a truthful report | |
| `FocusAttempt` | `focus_client` and everything it calls | two programs (`Steps`) that `pc` goes through; one action per command, with its failures and time limits |
| `DashboardCommand` | `run_dashboard` and `TerminalGuard` around the attempts | `stage`, the terminal modes `active`, the monitor, signals |
| `MCClaudeMonitor`, `MCDashboard` | small instances | |

`ServerState_proofs`, `ServerConnection_proofs`, `Discovery_proofs`, `ClaudeMonitor_proofs`,
`Dashboard_proofs`, `DashboardCommand_proofs` (with the attempts it makes), `Pieces_proofs`
(streams, pages and arguments) and `MCReaders_proofs` (the other readers, and all of them
together) hold the proofs.

Sessions, requests, processes and instances are model values or numbers, the text of titles,
statuses, tables and errors is left out, and time appears as "may have elapsed" or, where
elapsed times are the subject (`Dashboard`), as a clock. What is left out on purpose:

* Diagnostics, transitions, projections and titles: they carry no control. Diagnostics also
  take room in the channel; the loop and the tasks wait for room in the model wherever they
  send an event that matters, and a diagnostic before it only lengthens that wait.
* The byte limit of the journal: it bounds the same loop as the number of events does.
* In `Discovery`, the registration files are listed and then fingerprinted; `ReadTable` does
  both at once.
* In `ClaudeMonitor`, the reading of one marker is one step, which gives a session of one
  live process or nothing; `ClaudeMarker` takes that step apart and shows that this is what
  comes of it.
* Of the rows: names, memory columns, the scroll offset, the layout. Of memory: its history,
  peak and slope, which decide nothing.
* Frames of the event stream that are not UTF-8 or whose data is no event in JSON: they end
  the stream with an error (`client.rs:561-563`), which for the connection is a stream that
  breaks. In `EventStream` all data is an event.
* In `AttachmentSampler`, the reads that give one focus target are one step, and so are those
  that look at its process again before the target is believed; all other reads are steps.
* In `DashboardCommand`, a terminal mode entered by a sequence of which only a part was written
  (`main.rs:210-213`): the guard does not record it, and `TerminalRestored` is about what the
  guard records.
* The delays: a reconnect delay, the coalescing and settling timers and the ticks may elapse
  at any time after they are armed.

The server of `ServerConnection` (operations, answers, a stream that may break and lose its
tail), the instances of `Discovery` (appear, sicken, recover, depart, rotate their
credentials), the processes and markers of `ClaudeMonitor` (a marker may outlive its process
and be found by the next one of its ID), `ProcessTable`, `ChangingFile`, the server of
`SessionPages` and the facts of `FocusPromise` (a window closes, a process is replaced) are
not code of the repository; they are modelled from what the code handles, and marked
external in the map.

## What is checked

Connection task (`MCServerConnection`):

* `TypeOK`: types, and the journal within its capacity.
* `ArmsSettled`: between two steps every busy root is armed and no armed root is already
  effectively idle. `NoArmLost`: an arm goes away only by its ready, the deletion of the
  session, or the first snapshot. `ReadyOnlyAfterBusy`: a ready names a session that was
  reported busy since its previous ready. Together: a ready is neither lost nor invented.
* `IndexCoherent`: request indexes and session records agree, in the reducer and in the
  candidate being replayed.
* `RequestsAnnouncedOnce`: a pending request has been announced exactly once in the life of
  the task, whatever stream, snapshots, replay and reconnections delivered it.
* `JournalWins`: a snapshot takes back nothing of what the stream said while it was in
  flight. Whatever changes in the reducer meanwhile is in the journal
  (`ChangeJournaled`), also when the journal is full, and what is in the journal comes out of
  the replay as the stream left it (`JournalKept`).
* `SnapshotFollows`: after every state event and every manual resync a snapshot request is
  still to leave.
* `ServedConverges`: when the server rests and the stream holds, the reducer ends up saying
  what the server holds: by the coalesced triggers alone if no request fails, and with the
  periodic tick if some do.

Discovery (`MCDiscovery`):

* `OutputUnambiguous`: at each endpoint at most one server is found and not removed, and no
  task outlives the removal of its server; the events name endpoints only, so the consumer
  depends on it.
* `ReconnectsVerified`: a task reconnects only if a pass completed after its disconnect
  found its server.
* `SteadyNeverRemoved`: failed scans and gates, requested passes and servers that are not in
  its way never take away a server that is undisturbed.
* `MonitorConverges`: when the instances rest, the monitor follows exactly those there are,
  with their present credentials, without any help of the full interval. `ReadConverges`
  says the same of a reader that may stop, provided that it does not.
* `ShutdownCompletes`: a shutdown ends the loop and all tasks, though the channel is full and
  nobody reads it.

Claude sessions (`MCClaudeMonitor`), with the dashboard as consumer:

* `RowsOnePerProcess`: between any two events the dashboard shows at most one session for a
  process ID.
* `RowsFollow`: when all events are received, the rows are what the tracker retains; the
  tracker reports differences only, so each of them counts.
* `ReadyEarned`, `NothingOwed`: a ready is announced only of the very session that was seen
  working, once for its work, and none is lost over unknown statuses, misses and failures.
* `RemovedWithCause`: a session is removed only for another one in its place, or after two
  complete scans in a row without it.
* `DismissalHolds`: what the user dismissed comes back only with a change of the session or
  a new ready, whatever events were on their way.
* `DashboardConverges`: when the processes rest, the rows come to be what their markers say.

Dashboard (`MCDashboard`):

* `NothingHidden`: every terminal of the last sample has exactly one row and every root that
  works has one, whatever claims collide.
* `ExplicitHonoured`: a session named on the command line outranks all other evidence.
  `PairSticks`: an accepted pair stays together through idleness and new neighbours, until
  somebody claims one of the two explicitly.
* `DismissalLasts`: what the user dismissed, and nothing else, is dismissed.
* `FocusCurrent`: what a row would focus is what the last sample says, and only for a server
  that is connected. `NoGhostRows`: a sample taken before a server was removed brings
  nothing of it back.
* `V1CountersFreeze`: the elapsed time of a v1 row counts only the time its server was
  connected and had projected.

Enter (`DashboardCommand`):

* `KeepsPromise`: every attempt implements `FocusPromise`. This is a refinement: the abstract
  specification has the facts of a target come and go, lets an activation, a selection or a
  raise happen only when all facts of that very target were seen since somebody else was last
  waited for, hands a token out once at most, and allows no report of what was not done.
* `LeavesNothing`: however an attempt ends, it has tried to remove the script file and the
  socket it made; what stays is what could not be removed (the code ignores such errors), and a
  socket that could not be secured after it was bound, which nobody removes (see below). A KWin
  script stays loaded only if the user is told of an error or the attempt was dropped.
* `TerminalRestored`: no terminal mode outlives the loop but one that could not be left, and
  no task of the monitor outlives the command.
* `NeverStuck`: a signal ends the command whatever it waits for, and every attempt ends.

Readers (`MCReaders`):

* `Correlated`: a terminal is attached only to a server it was connected to during this scan,
  and a focus target never leads to the terminal of another process while its own runs.
  `DetachedLate`: it is detached by the second successful scan in a row without it.
* `MemoryOwn`: memory told as fresh belongs to the instance. During the sample its process was
  in a group of the path that is told; the group whose identity is told and the one whose values
  are told are that one, unless all processes had left it meanwhile, so that its directory could
  be removed and made again. More cannot be promised: the reads of one sample are not atomic
  (`docs/src/project/limitations.md:183-185`). And no scope is retained that no instance is in.
* `ScanSound`: a password goes with the socket of the process it was read from, a process is
  excluded only below a launcher, and in a quiet world exactly the local listeners of likely
  processes are found that no launcher is above. The walk up is of 256 processes at most
  (`MAX_ANCESTRY_DEPTH`, here `MaxAncestryDepth`); a process that has more on its way to init
  is found, whatever is above it.
* `FilesWhole`: a registration or marker is accepted only whole, of one edition, from a safe
  file and (marker) of the process it is named for; and refused only for a reason.
* `PiecesFaithful`: the events of a stream do not depend on how it is cut into chunks; a
  paged listing has each session once and misses none that nothing happened to, and ends; the
  arguments of a terminal mean what a reference definition says.

| Run | Instance | Distinct states |
|---|---|---|
| `connection_v1` | a busy root and its child, one permission request; 2 operations (busy, idle, ask, reply, delete) and events that do not matter, 1 break, 1 resync | 1.1 million |
| `connection_v2` | protocol v2, two sessions, a journal of one event, failed executions and retries, some of which do not matter; 2 operations, 1 break, 1 failed snapshot; fairness with and without the periodic tick | 0.1 million |
| `connection_ready_root`, `connection_ready_once` | 2 operations; each violates its property | |
| `discovery_replace` | two listeners at one endpoint, which may be slow; 2 changes, 2 failures of a setup or a backend | 3.9 million |
| `discovery_converges` | listener and service at one endpoint; 1 change, 1 failed scan or gate, 1 request | 0.7 million |
| `discovery_departs` | one listener; 1 change, 1 break, 1 failed scan; a reader that may stop | 0.5 million |
| `claude` | two process IDs, each used twice at most, one busy session at the start, two session IDs, all statuses; 3 changes, 1 failed read or scan; all fairness | 0.7 million |
| `dashboard` | a v1 server and a v2 server, three sessions, two terminals, six samples; 7 events and samples, 2 times | 0.08 million |
| `dashboard_frozen` | the same; violates its property | |
| `focus` | both terminal programs, 2 presses of Enter, 1 change, 2 failing terminal operations, 2 datagrams, any removal fails or not | 1.4 million |
| `readers` | eight parts, each small: three or four processes, a walk up of three, 2 changes of the table, 3 edits of a file, every text of six bytes, three sessions in pages of one, every sequence of five arguments | 1.7 million |

Why the bounds are enough. A journal of two entries fills; two or three operations suffice
for an event to be late, early and replayed with respect to a snapshot that is torn between
them; one break reaches reconnection with a reducer that is not empty; a second one only
repeats it. One channel place makes every sender wait. Two instances at one endpoint give
replacement in both directions; a third adds no new relation, for endpoints are compared
in pairs. Two failures fail a whole pass; one break is what `ReconnectsVerified` needs. In
`claude`, one failed read or scan with a real miss makes the two misses; three
changes take a session through work, uncertainty and idleness, or end it, start another one
on its marker and let that go on. In `dashboard`, seven events find and connect a server,
project, attach, break, sample and project again; two terminals and two roots in one
directory make every claim ambiguous, and a third of either adds no kind of rivalry. In
`focus` the facts change to any other set of facts, so that one change per attempt is any
sequence of changes between two looks. In `readers` two changes let a process end and its ID
be used again; of the process tables one is a chain of four, so that with a walk of three there are
ways up shorter than, as long as and longer than it; three edits make a file be replaced, rewritten halfway and completed; six
bytes hold a frame, a CRLF blank line and the start of the next one.

The length of the settling sequence is a constant (3 in the code). `MonitorConverges` needs
it to be no shorter than what the failures take away: in `discovery_departs`, with one
settling pass, which fails, a server that has disappeared would keep its single miss until
the full interval; there two settling passes meet one failure. In `discovery_converges` the
other server at the endpoint replaces the one that disappears without waiting for misses, and one
is enough. Nothing can be slow there: a server that listens and becomes healthy only after the
last settling pass changes no fingerprint, and waits for the full interval.

### Where code and documentation part

* `connection_ready_root` (`ReadyNamesRoot`): the roots a snapshot reports as busy are armed
  after the arms of deleted sessions have been pruned (`state.rs:162-168`). If the journal
  holds the deletion and the idle status of the aborted execution, a ready goes out for a
  session the reducer does not know. `docs/src/project/requirements.md:171` speaks of "the
  known root's own status".
* `connection_ready_once` (`ReadyPerBusyPeriod`): two snapshots show a busy period and its
  end, and give its ready; the busy event of the same period arrives late, arms the root
  again, and the idle event behind it gives a second ready. `README.md:347` says that ready
  arms "remain deduplicated across SSE/snapshot overlap".
* `dashboard_frozen` (`CountersFreeze`): a sample of the terminals rebuilds the rows of every
  v2 server, of one that is disconnected too, and takes the frozen elapsed time for the end of
  the disconnection (`dashboard.rs:1363`); the row then counts disconnected time.
  `README.md:106` says "Disconnected counters freeze and exclude disconnected time". The rows
  of v1 servers, which samples do not rebuild, keep to it (`V1CountersFreeze`).

A fourth is not a run of its own but the exception in `LeavesNothing` (`"secure" \in slips`):
`bind_in` gives up without removing anything when the mode of the socket cannot be set, or the
socket not be looked at, after it was bound (`focus.rs:846`). The value whose `Drop` unlinks it
does not exist yet, and the file stays in the runtime directory;
`docs/src/project/requirements.md:361` says "close and unlink the socket on every path".

The two of the connection need a stream that lags behind the snapshot connection; neither loses
attention.

### Fairness

`LocalStep` is code that waits for nothing; `ArriveStep` and `Answer` say that the server
answers and discovery verifies; the coalescing timer elapses. Receiving events is strongly
fair: `reconcile_in_flight` polls the stream first and the live loop's `select!` picks at
random, so that events that wait are not passed over for ever. The periodic tick, which the
code has, is a premise of `ServedConverges` where requests fail, and of nothing else. In
`Discovery` the loop, the tasks and the timers run and the gate is looked at again and again;
whoever waits for room in the channel is served strongly fairly, as tokio's channel queues its
senders. The full interval is not assumed to come. The reader of the channel is fair in
`FairSpec`, and not in `UnreadSpec`. In `ClaudeMonitor` the poll interval elapses, the loop
goes on while it can, and the dashboard reads. In `DashboardCommand` the command goes on, a
signal that came is taken, and an external command of an attempt answers or times out, as
each has a time limit in the code. Nothing is assumed of the server, the processes, the
instances, failures or the user.

## What is proved

All theorems hold for every value of the constants, that is any number of sessions,
requests, instances, operations, keys, changes and failures.

`ServerState_proofs` states what each operator of the reducer preserves: types, coherence of
the indexes, that seen requests only grow, and that `ApplyEvent` and `FinishReconcile` leave
the arms settled. `ServerConnection_proofs` builds on them:

* `TypeCorrect`: `Spec => []TypeOK`.
* `IndexesStayCoherent`, `AnnouncedOnce`, `ArmsStaySettled`. None of them is inductive. The
  invariant behind them says of the reducer and of the candidate alike that indexes and
  records agree, and that a request is seen exactly if it was announced: the candidate of a
  replay carries the seen requests over, and the requests of events applied meanwhile are in
  the journal and, by then, seen in the reducer as well. The arms are settled by every
  operator that replaces the reducer and are untouched in between.
* `AnotherSnapshotFollows`: `Spec => []SnapshotFollows`. The reasons for a further snapshot are
  covered from the moment the stream is open (`OwedCovered`): during the bootstrap by the buffered
  events, later by the timer, the flag that another request is due, or a resync not yet noticed.
* `JournalOutlivesSnapshot`: `Spec => JournalWins`, from `JournalHeld`: while a snapshot is in
  flight or replayed the reducer holds what the journal says, for a journal of any length, and the
  candidate what the part of it says that has been replayed. `FlightJournaled` adds that no step
  changes the reducer while a snapshot is in flight without appending to the journal.
* `ReadiesAreEarned`, `ArmsAreNotLost`: `Spec => ReadyOnlyAfterBusy` and `Spec => NoArmLost`. The
  first needs that whoever is armed or active, and whoever a replay may arm, was reported busy
  since its last ready (`ArmedTold`). The second needs `ArmsHeld`: what events and snapshots say of
  the metadata of a session was so when they were sent, and of a live session the reducer knows,
  the snapshot has it or the journal still tells that it was created; so the candidate does not
  prune an arm of a session that exists. Together they are the claim that a ready is neither lost
  nor invented.

`Discovery_proofs`:

* `TypeCorrect`: `Spec => []TypeOK`.
* `OutputStaysUnambiguous`. The invariant `MapCoherent` says where in a pass the map and the
  announcements agree: everywhere but for the one server whose task is being awaited, and
  during a shutdown. Admission compares endpoints with the map only, and is right because it
  comes when nothing is being awaited.
* `ReconnectsAreVerified`. `VerifiedCoherent` says that a task that waits and holds a
  completion newer than its disconnect was found by the latest pass; a completion is
  published to the map only, so this needs `MapCoherent` too.
* `SteadyStay`: `Spec => SteadyNeverRemoved`. A pass judges a server by what the scan read, at
  another time than it acts on it. `SteadyCoherent` carries this over: of a server that was
  undisturbed all the time the scan has the row, the credentials and no rival (`ScannedWhole`), it
  has no misses and is not among those to be stopped (`Undisturbed`). `MergeKeeps` says that the
  merge of the two reports finds it, unless its own backend failed, and nothing in its place.

`ClaudeMonitor_proofs`:

* `RemovalsHaveCause`: `Spec => RemovedWithCause`. The property is about one step, but needs
  the invariant `IInv`: an entry never has more misses than complete scans in a row were
  without its process (`MissesCounted`), and is kept under the key it was observed with.
* `OneRowPerProcess`, `RowsAreTheMap`, `WorkIsAnnounced`: the invariants `RowsOnePerProcess`,
  `RowsFollow` and `NothingOwed`; `AnnouncementsAreEarned` and `DismissalsHold`: the action
  property `ReadyEarned` and the invariant `DismissalHolds`. All rest on `MonitorInv`
  (`EventsKeepStep`): for each key the last of the events on their way, in the outbox or in the
  channel, says what the map says, or there is none and the row says so already (`Settled`); and a
  session is shown only after the row of any other session of its process ID is removed, for
  every prefix of these events (`OneAtATime`). Neither property is inductive, because the rows
  lag behind the map by whatever is in the channel. That `SuccessEvents` gives such events for
  any two scans is most of the work; the events are treated as functions from positions, which
  needs no induction over the sequence.

`Dashboard_proofs`. The invariant `IInv` (`RowsAreSound`) has a part for each thing that may go
wrong: what the dashboard is made of (`Formed`), what it knows of the servers (`Follows`), how
terminals and roots share the rows (`Resolved`), the times of the rows (`Clocked`), the selection
(`Chosen`) and the dismissals (`DismissalLasts`). Each operation of `DashboardModel` has a lemma on
its `Outcome`: the next dashboard is `Good`, its rows have turned only as they may, and pairs
stick. From it:

* `NothingIsHidden`, `CommandLineWins`, `FocusIsOfTheSample`, `RowsAreOfTheLiving`,
  `DismissalsLast`: the invariants `NothingHidden`, `ExplicitHonoured`, `FocusCurrent`,
  `NoGhostRows`, `DismissalLasts`, for any projections, samples and claims. What the four rounds
  of claims decide is derived from `Rounds` itself, round by round.
* `PairsStick`, `SelectionKeeps`, `CountersStandStill`: the action properties `PairSticks`,
  `SelectionFollows` (the selection stays on its row through every reordering; no run
  repeats this one) and `V1CountersFreeze`.

`DashboardCommand_proofs`:

* `AttemptKeepsPromise`: `AttemptSpec => KeepsPromise`, the refinement of `FocusPromise`. The
  invariant `IInv` says, place by place in the two programs, whether the token was asked for
  and spent (`TokenInTime`), which facts were seen since the last wait (`KnownInTime`) and
  what was done (`DoneInTime`). Each step of the attempt is shown to be one step of the
  promise or a stutter.
* `AttemptLeavesNothing`: `AttemptSpec => []LeavesNothing`, from the same invariant, which says that
  of what lies around each thing is guarded, or its removal failed, or it is a socket that could
  not be secured; an attempt that is over guards nothing.
* `CommandKeepsPromise`, `CommandLeavesNothing`: every step of the command is a step of the
  attempt or leaves it alone, so the theorems of the attempt carry over to a command that
  makes any number of them and drops them on signals.
* `TerminalStaysRestored`: `Spec => []TerminalRestored`.

`Pieces_proofs`, for what arrives in pieces or is gone through once. Each of the three
invariants relates what was done so far to the whole:

* `AnyArgumentsRead`: `ArgumentsSpec => []ArgumentsRead`, for arguments of any length.
  `ArgumentsInv`: the index is never at a value, and what was understood is what the options
  and words before it mean. Of a row of options that take values every other one is a value;
  that a step of one or two arguments keeps to this parity is what carries it.
* `AnyListingFetched`: `PagesSpec => []SessionsFetched`, for any number of sessions, any page
  size and any number of changes. `PagesInv`: all cursors that were followed differ, so that the
  pages are bounded by the times there are; at a server that is not at fault each is older than
  the one before; and a session that nothing happened to since the first request is listed
  already or older than the cursor.
* `AnyStreamFaithful`: `StreamSpec => []FramesFaithful`, for texts of any length and any limit.
  `StreamInv`: what is consumed ends with a blank line, or with the first byte of the CRLF that
  makes it one, since the decoder cuts a frame as soon as the blank line has begun; no frame ends
  in what `search_from` passes over; and the events yielded are the blocks of the text up to
  there, a block being counted by its rank in the text.

The sequences that these modules take for the sorted ones are chosen by what they are
(`InOrder`); that they exist, and that there is one only, is shown from the rank of an element.

`MCReaders_proofs`:

* `FilesStayWhole`: `Spec => []FilesWhole`. The invariant is `IInv`: stamps only grow, so that
  a file that still bears the stamp it was first seen with is as it was then (`FilesOrdered`,
  `ReadingInv`); start times only grow, so that a process that still has the key it was first
  seen with has been there all the time (`MarkerSide`). The theorem is about any number of
  edits and changes; the world of the marker is the one process ID it is named for.
* `SamplerCorrelates`, `SamplerDetachesLate`: `SamplerSpec => []Correlated` and
  `SamplerSpec => DetachedLate`, where `SamplerSpec` is the sampler over any table of processes
  that may start, fork, execute, end and have their IDs used again. A key, once sighted, belongs
  to one process for good: whoever has the ID later is younger. So the reads between two sightings
  of a key were of its process (`AttachmentInv`). `AttachmentsCorrelate` and
  `AttachmentsDetachLate` say that the sampler among the readers is such a one, which gives the
  properties the run checks.
* `SampledMemoryIsOwn`: `MemorySpec => []MemoryOwn`, for any groups and any processes that move
  between them, and `MemoryStaysOwn` for the instance of the run. A group that has been seen with
  its directory has it still, or was left by everybody meanwhile (`There`, `Deserted`); the sampler
  reads the identity of the directory on both sides of the values, and the process on both sides
  of that. `MemoryInv` says at each read which of these is known.
* `ScansStaySound`: `ScanSpec => []ScanSound`, for a scan over any table of processes in which every
  parent is older than its children (`TreeTurns`; Linux guarantees it, and the scan relies on it).
  What a scan reads of a process is true of some moment of the scan (`Sighted`), and of one process
  when the stat before and after it is the same. The climb to a launcher is verified only at
  its end, process by process, while the table changes: `ChainSound` says that there is one
  table of this scan in which the launcher was one and stood above all processes of the chain that
  are still as they were read. `QuietSound` adds what is known while nothing has changed, which
  gives the exact result: nothing is missed, and nothing eligible is excluded. For the limit of the
  walk, ways up are compared: there is only one way up from a process (`OneWay`), so that a walk
  that ends at init was not too long (`NotFar`), and one that is cut off was (`LongWay`). `ScansSound` says
  that the procfs part of the readers is such a scan.
* `PiecesStayFaithful`: `Spec => []PiecesFaithful`: the streams, listings and arguments of the
  run are among those of `Pieces_proofs`, and no other reader disturbs them.

The refinement of `FocusPromise` is stated with an explicit `INSTANCE ... WITH` and checked by
`focus` as the property `KeepsPromise`.

Assumptions are those of the modules (`ConnectionAssumption`, `DiscoveryAssumption`,
`MonitorAssumption`, `DashboardAssumption`, `ModelAssumption`, `ResolutionAssumption`,
`SamplerAssumption`, `MemoryAssumption`, `ScanAssumption`, `FileAssumption`, `StreamAssumption`,
`PagesAssumption`, `ArgumentsAssumption`, `FocusAssumption`, `CommandAssumption` and those of the
modules they extend): shapes of the constants, that `None` is none of the named things, that no
argument is of two kinds, and that the sets of sessions, servers and terminals are finite where
rows are counted or chosen from. `AttachmentAssumption` and `GroupAssumption` say that the
instance `MCReaders` makes of the samplers names processes and groups that are in its tables,
`ScanProcessAssumption` that `None` is no process of the procfs tables, `OrderAssumption` that the
orders it begins listings with are of its sessions; the general theorems (`SamplerSpec`,
`MemorySpec`, `ScanSpec`, `PagesSpec`) do without them. TLC evaluates all of them.

Every invariant and every action property that a passing run checks is a theorem. `TypeOK` is
proved of `ServerConnection` and of `Discovery`; the other modules state the types their proofs
need in their invariants. Only model-checked is the liveness, which is out of the
prover's reach: `ServedConverges`, `MonitorConverges`, `ReadConverges`, `ShutdownCompletes`,
`DashboardConverges` and `NeverStuck`.

## What is not modelled

* The Konsole plugin and the Kitty extension: they run in the terminals' processes, in C++
  over Qt's objects and in Python. `FocusAttempt` has what they do as external commands that
  are accepted, refused or time out, and answers that may be anything.
* Of the readers: the paths at which registrations are looked for, the reading of a
  registration for the fingerprint of the gate (the same reading as `RegistrationFile`) and the
  making of a client from it.
* Of the command line: the commands `raw`, `watch` and `--once`, which print what comes;
  parsing of options, output, packaging and scripts.
* HTTP itself and JSON, the text of procfs, layout and keys: input and output without a state
  of their own.
* Two hazards no property covers, because the code promises nothing there: a pass in which
  both backends failed has consumed the trigger of a disconnect, so that the task waits until
  something else starts a pass (`monitor.rs:712`, bounded by the full interval); and a server
  whose client cannot be made keeps its place in the map (`monitor.rs:1010`).
