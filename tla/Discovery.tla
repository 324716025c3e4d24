------------------------------ MODULE Discovery ------------------------------
(***************************************************************************)
(* The discovery loop of the monitor, run_discovery_with and discover_once *)
(* of src/src/monitor.rs, with the tasks it starts and stops, one for each *)
(* server (run_server), and the bounded channel all of them write to.      *)
(*                                                                         *)
(* A pass scans the listeners of procfs and the registrations of managed   *)
(* services, each of which may fail, replaces, counts the misses, admits   *)
(* and removes servers, and tells every task which generation of passes    *)
(* has completed and whether it found the task's server.  A task whose     *)
(* connection breaks asks for a pass and waits to be verified by it.       *)
(* Between two passes a gate compares cheap fingerprints of the tables.    *)
(*                                                                         *)
(* An instance is an InstanceKey: a listening socket, or a registration,   *)
(* of one process.  What happens to the instances (the section "The        *)
(* instances") and who reads the channel is not code of the repository.    *)
(* What a task does while it is connected is the module ServerConnection.  *)
(***************************************************************************)
EXTENDS Naturals

CONSTANTS Instances,    \* instance keys
          Managed,      \* those found through a registration
          EndpointOf,   \* the endpoint of each instance
          InitialWorld, \* the instances that are there when Beacon starts
          Slow,         \* may an instance listen without being healthy?
          Faults,       \* which steps may fail
          None,         \* no instance, no fingerprint
          Settlings,    \* the length of SETTLING_DELAYS (3)
          QueueCapacity,\* the capacity of the event channel
          MaxChanges,   \* bound: changes of the instances
          MaxFailures,  \* bound: steps that fail
          MaxBreaks,    \* bound: broken connections to healthy servers
          MaxRequests   \* bound: ticks of the full interval and manual resyncs

VARIABLES
  world,       \* what became of each instance
  secret,      \* which credentials its registration holds
  used,        \* how much of each bound is used up
  queued,      \* events in the channel
  shutdown,    \* the shutdown token is cancelled, or the receiver is closed
  resync,      \* a manual resync not yet noticed
  trigger,     \* a requested discovery not yet noticed
  pc,          \* where the discovery loop is
  todo,        \* the servers the present part of the pass is still to handle
  stopping,    \* the server whose task is being awaited
  gate,        \* the locals of run_discovery_with that decide about passes
  generation,  \* the number of the latest pass begun
  completed,   \* completed_generation
  scan,        \* what the pass has read of each backend
  active,      \* the keys of the map `active'
  server,      \* the entry of each active server, and the state of its task
  published,   \* history: found and not removed, as the channel tells it
  steady,      \* history: undisturbed since they were found
  confirmed    \* history: found by the latest pass, completed since the disconnect

worldVars   == <<world, secret>>
passVars    == <<pc, todo, stopping, generation, completed, scan, active>>
historyVars == <<published, steady, confirmed>>
vars == <<worldVars, used, queued, shutdown, resync, trigger, passVars, gate, server,
          historyVars>>

Backends == {"procfs", "managed"}

\* backend_for.
Backend(i) == IF i \in Managed THEN "managed" ELSE "procfs"

Conditions == {"absent", "slow", "up", "gone"}

ASSUME DiscoveryAssumption ==
  /\ Managed \subseteq Instances
  /\ InitialWorld \in [Instances -> Conditions]
  /\ Slow \in BOOLEAN
  /\ Settlings \in Nat \ {0} /\ QueueCapacity \in Nat \ {0}
  /\ None \notin Instances

SameEndpoint(i, j) == EndpointOf[i] = EndpointOf[j]

\* The rows of the listener table, or the registrations, and their fingerprint.
Listening == {i \in Instances : world[i] \in {"slow", "up"}}

Table(b) == {<<i, secret[i]>> : i \in {j \in Listening : Backend(j) = b}}

Fingerprint == [b \in Backends |-> Table(b)]

EmptyFingerprint == [b \in Backends |-> {}]

\* The entry of a server that is not active.
NoServer ==
  [misses |-> 0, secret |-> FALSE, cancelled |-> FALSE, task |-> "none",
   generation |-> 0, verified |-> FALSE, seen |-> 0]

NoScan ==
  [state |-> [b \in Backends |-> "waiting"], rows |-> EmptyFingerprint,
   found |-> [b \in Backends |-> {}], secret |-> [i \in Instances |-> FALSE]]

Alive(i) == server[i].task \in {"starting", "running", "reporting", "waiting"}

\* Which instances at the endpoint of i keep it from being reported.
Rivals(i) ==
  {j \in Instances \ {i} : SameEndpoint(i, j) /\ (i \in Managed => j \in Managed)}

\* A step that may fail fails.
Fails(what) ==
  /\ what \in Faults
  /\ used.failures < MaxFailures
  /\ used' = [used EXCEPT !.failures = @ + 1]

\* EventSink::send: it waits for room in the channel.
Send == queued < QueueCapacity /\ queued' = queued + 1

-----------------------------------------------------------------------------
(* The instances, the reader of the channel and the user.                  *)

\* Instance i changes, and neither it nor the servers in its way are
\* undisturbed any more.
Disturb(i, condition, credentials) ==
  /\ used.changes < MaxChanges
  /\ used' = [used EXCEPT !.changes = @ + 1]
  /\ world' = [world EXCEPT ![i] = condition]
  /\ secret' = [secret EXCEPT ![i] = credentials]
  /\ steady' = {j \in steady \ {i} : i \notin Rivals(j)}
  /\ UNCHANGED <<queued, shutdown, resync, trigger, passVars, gate, server, published,
                 confirmed>>

Appear(i) ==
  /\ world[i] = "absent"
  /\ \/ Disturb(i, "up", secret[i])
     \/ Slow /\ Disturb(i, "slow", secret[i])

Recover(i) == world[i] = "slow" /\ Disturb(i, "up", secret[i])

Sicken(i) == Slow /\ world[i] = "up" /\ Disturb(i, "slow", secret[i])

\* The socket is closed or the process is gone: the key never comes back.
Depart(i) == i \in Listening /\ Disturb(i, "gone", secret[i])

\* The registration of a managed service is rewritten with new credentials.
Rotate(i) ==
  /\ i \in Managed \cap Listening
  /\ ~secret[i]
  /\ Disturb(i, world[i], TRUE)

Receive ==
  /\ queued > 0
  /\ queued' = queued - 1
  /\ UNCHANGED <<worldVars, used, shutdown, resync, trigger, passVars, gate, server,
                 historyVars>>

\* MonitorControl::request_resync: both watches change.
RequestResync ==
  /\ used.requests < MaxRequests
  /\ used' = [used EXCEPT !.requests = @ + 1]
  /\ resync' = TRUE /\ trigger' = TRUE
  /\ UNCHANGED <<worldVars, queued, shutdown, passVars, gate, server, historyVars>>

Shutdown ==
  /\ ~shutdown
  /\ shutdown' = TRUE
  /\ UNCHANGED <<worldVars, used, queued, resync, trigger, passVars, gate, server,
                 historyVars>>

WorldStep ==
  \/ \E i \in Instances : Appear(i) \/ Recover(i) \/ Sicken(i) \/ Depart(i) \/ Rotate(i)
  \/ Receive \/ RequestResync \/ Shutdown

-----------------------------------------------------------------------------
(* The task of a server, run_server.                                       *)

TaskStep(i, from, to) ==
  /\ server[i].task = from
  /\ server' = [server EXCEPT ![i].task = to]
  /\ UNCHANGED <<worldVars, shutdown, resync, passVars, gate, published, steady>>

\* The client is made, or cannot be made: the task ends, its entry stays.
TaskStarts(i) ==
  /\ \/ TaskStep(i, "starting", "running") /\ UNCHANGED used
     \/ TaskStep(i, "starting", "ended") /\ Fails("setup")
  /\ UNCHANGED <<queued, trigger, confirmed>>

\* An event of the connection goes out.  The cancellation is checked before
\* the event is sent, not while it is.
TaskEmits(i) ==
  /\ TaskStep(i, "running", "running")
  /\ Send
  /\ UNCHANGED <<used, trigger, confirmed>>

\* record_disconnect: the generation completed so far is noted, then a pass
\* is requested.  A server that is not up disconnects sooner or later; a task
\* that is cancelled as it sends takes this for a broken connection.
TaskDisconnects(i) ==
  /\ server[i].task = "running"
  /\ IF world[i] = "up" /\ ~server[i].cancelled
     THEN used.breaks < MaxBreaks /\ used' = [used EXCEPT !.breaks = @ + 1]
     ELSE UNCHANGED used
  /\ server' = [server EXCEPT ![i].task = "reporting", ![i].seen = server[i].generation]
  /\ trigger' = TRUE
  /\ confirmed' = confirmed \ {i}
  /\ UNCHANGED <<worldVars, queued, shutdown, resync, passVars, gate, published, steady>>

TaskReports(i) ==
  /\ TaskStep(i, "reporting", "waiting")
  /\ Send
  /\ UNCHANGED <<used, trigger, confirmed>>

\* Mutant of TaskReconnects: any verification will do, an old one too.
TaskReconnectsAnyGeneration(i) ==
  /\ server[i].verified
  /\ TaskStep(i, "waiting", "running")
  /\ UNCHANGED <<used, queued, trigger, confirmed>>

\* wait_to_reconnect: the latest completion verifies this instance and is
\* newer than the disconnect.  The delay may elapse at any time.
TaskReconnects(i) ==
  /\ server[i].verified /\ server[i].generation > server[i].seen
  /\ TaskStep(i, "waiting", "running")
  /\ UNCHANGED <<used, queued, trigger, confirmed>>

\* Every wait of the task ends with its cancellation or the shutdown.
TaskEnds(i) ==
  /\ server[i].cancelled \/ shutdown
  /\ Alive(i)
  /\ TaskStep(i, server[i].task, "ended")
  /\ UNCHANGED <<used, queued, trigger, confirmed>>

-----------------------------------------------------------------------------
(* The loop, run_discovery_with.                                           *)

Selecting == pc = "select" /\ ~gate.pending /\ ~shutdown

\* A trigger is noticed: a pass is pending.
Pend(newGate) ==
  /\ gate' = [newGate EXCEPT !.pending = TRUE]
  /\ UNCHANGED <<worldVars, queued, shutdown, passVars, server, historyVars>>

\* A gate that finds the tables unchanged does nothing.
GateTick ==
  /\ Selecting
  /\ Fingerprint # gate.baseline
  /\ Pend([gate EXCEPT !.changed = TRUE])
  /\ UNCHANGED <<used, resync, trigger>>

GateFails ==
  /\ Selecting
  /\ Fails("gate")
  /\ Pend(gate)
  /\ UNCHANGED <<resync, trigger>>

FullTick ==
  /\ Selecting
  /\ used.requests < MaxRequests
  /\ used' = [used EXCEPT !.requests = @ + 1]
  /\ Pend(gate)
  /\ UNCHANGED <<resync, trigger>>

ResyncChanged ==
  /\ Selecting /\ resync
  /\ resync' = FALSE
  /\ Pend(gate)
  /\ UNCHANGED <<used, trigger>>

TriggerChanged ==
  /\ Selecting /\ trigger
  /\ trigger' = FALSE
  /\ Pend(gate)
  /\ UNCHANGED <<used, resync>>

\* The settling timer's index reaches Settlings when no timer is left.
SettlingDue(g) ==
  /\ g.settling < Settlings
  /\ gate' = [g EXCEPT !.continuation = g.settling + 1, !.settling = Settlings,
                       !.pending = TRUE]

SettlingElapsed ==
  /\ Selecting
  /\ SettlingDue(gate)
  /\ UNCHANGED <<worldVars, used, queued, shutdown, resync, trigger, passVars, server,
                 historyVars>>

\* A pass begins with what became ready meanwhile: the watches are marked as
\* seen, the gate and the settling timer may be due or not.
BeginPass ==
  /\ pc = "select" /\ gate.pending
  /\ resync' = FALSE /\ trigger' = FALSE
  /\ \E changed \in BOOLEAN :
       /\ changed => Fingerprint # gate.baseline
       /\ LET ticked == [gate EXCEPT !.changed = @ \/ changed]
          IN  gate' = ticked \/ SettlingDue(ticked)
  /\ generation' = generation + 1
  /\ pc' = "scan"
  /\ scan' = NoScan
  /\ UNCHANGED <<worldVars, used, queued, shutdown, todo, stopping, completed, active, server,
                 historyVars>>

\* Mutant of Settle: the settling sequence ends with its first pass.
SettleOnce(fingerprint) ==
  LET changed == /\ fingerprint # None
                 /\ IF gate.baseline = None THEN fingerprint # EmptyFingerprint
                    ELSE fingerprint # gate.baseline
  IN  gate' =
        [pending |-> FALSE, changed |-> FALSE, continuation |-> Settlings,
         baseline |-> IF fingerprint = None THEN gate.baseline ELSE fingerprint,
         settling |-> IF changed \/ gate.changed THEN 0 ELSE gate.settling]

\* What a pass leaves behind: its fingerprint is the new baseline, and a
\* change of it starts the settling sequence, which otherwise goes on.
\* A pass that failed has no fingerprint.
Settle(fingerprint) ==
  LET changed == /\ fingerprint # None
                 /\ IF gate.baseline = None THEN fingerprint # EmptyFingerprint
                    ELSE fingerprint # gate.baseline
  IN  gate' =
        [pending |-> FALSE, changed |-> FALSE, continuation |-> Settlings,
         baseline |-> IF fingerprint = None THEN gate.baseline ELSE fingerprint,
         settling |-> IF changed \/ gate.changed THEN 0
                      ELSE IF gate.continuation < Settlings THEN gate.continuation
                      ELSE gate.settling]

-----------------------------------------------------------------------------
(* A pass, discover_once: the scans of the two backends run side by side.  *)

\* A part of the pass that touches neither tasks nor channel.
ScanStep ==
  /\ pc = "scan" /\ ~shutdown
  /\ UNCHANGED <<worldVars, queued, shutdown, resync, trigger, stopping, generation, active,
                 historyVars>>

ReadTable(b) ==
  /\ scan.state[b] = "waiting"
  /\ scan' = [scan EXCEPT !.state[b] = "read", !.rows[b] = Table(b)]
  /\ ScanStep
  /\ UNCHANGED <<used, pc, todo, completed, gate, server>>

\* retain_unique_endpoints: of several candidates at one endpoint, none.
Unique(candidates) ==
  {i \in candidates : \A j \in candidates : SameEndpoint(i, j) => i = j}

\* The rows that turn out to be healthy servers.
Healthy(b) == {i \in Instances : world[i] = "up" /\ \E row \in scan.rows[b] : row[1] = i}

\* What the probes found is reported, with the credentials that were used.
Report(b, found) ==
  /\ scan.state[b] = "read"
  /\ scan' = [scan EXCEPT !.state[b] = "probed", !.found[b] = found,
                          !.secret = [i \in Instances |->
                             IF Backend(i) = b THEN secret[i] ELSE scan.secret[i]]]
  /\ ScanStep
  /\ UNCHANGED <<used, pc, todo, completed, gate, server>>

ProbeListeners == Report("procfs", Unique(Healthy("procfs")))

ProbeRegistrations == Report("managed", Unique(Healthy("managed")))

\* The backends run side by side.
Probe(b) == (b = "procfs" /\ ProbeListeners) \/ (b = "managed" /\ ProbeRegistrations)

ScanFails(b) ==
  /\ scan.state[b] \in {"waiting", "read"}
  /\ Fails(b)
  /\ scan' = [scan EXCEPT !.state[b] = "failed", !.rows[b] = {}]
  /\ ScanStep
  /\ UNCHANGED <<pc, todo, completed, gate, server>>

\* Mutant of Incomplete: a failed scan counts as one that found nothing.
IncompleteNever == {}

\* incomplete_backends.
Incomplete == {b \in Backends : scan.state[b] = "failed"}

\* merge_backend_reports: a managed service hides a listener at its endpoint.
Merged(listeners, services) ==
  services \cup {i \in listeners : \A j \in services : ~SameEndpoint(i, j)}

Found == Merged(scan.found["procfs"], scan.found["managed"])

\* Mutant of Replaced: changed credentials do not count.
ReplacedByOwner ==
  {i \in active : \E j \in Found :
     /\ i # j /\ SameEndpoint(i, j)
     /\ j \in Managed \/ Backend(i) \notin Incomplete}

\* The servers whose credentials changed, or whose endpoint has a new owner.
Replaced ==
  {i \in active : \E j \in Found :
     \/ i = j /\ scan.secret[j] # server[i].secret
     \/ /\ i # j /\ SameEndpoint(i, j)
        /\ j \in Managed \/ Backend(i) \notin Incomplete}

PassFails ==
  /\ Incomplete = Backends
  /\ Settle(None)
  /\ pc' = "select"
  /\ ScanStep
  /\ UNCHANGED <<used, todo, completed, scan, server>>

Merge ==
  /\ \A b \in Backends : scan.state[b] \in {"probed", "failed"}
  /\ Incomplete # Backends
  /\ pc' = "replace"
  /\ todo' = Replaced
  /\ ScanStep
  /\ UNCHANGED <<used, completed, scan, gate, server>>

\* Mutant of StopServer: the task is cancelled but not awaited.
StopServerDetached(i) ==
  /\ \/ pc \in {"replace", "remove"} /\ i \in todo
     \/ pc = "drain" /\ i \in active
  /\ stopping = None
  /\ ~shutdown => queued < QueueCapacity
  /\ queued' = IF shutdown THEN queued ELSE queued + 1
  /\ active' = active \ {i} /\ todo' = todo \ {i}
  /\ server' = [server EXCEPT ![i].cancelled = TRUE]
  /\ published' = published \ {i} /\ steady' = steady \ {i}
  /\ UNCHANGED <<worldVars, used, shutdown, resync, trigger, pc, stopping, generation,
                 completed, scan, gate, confirmed>>

\* ActiveServer::stop: the entry leaves the map, its task is cancelled and
\* from here on awaited.
StopServer(i) ==
  /\ \/ pc \in {"replace", "remove"} /\ i \in todo
     \/ pc = "drain" /\ i \in active
  /\ stopping = None
  /\ stopping' = i
  /\ active' = active \ {i} /\ todo' = todo \ {i}
  /\ server' = [server EXCEPT ![i].cancelled = TRUE]
  /\ UNCHANGED <<worldVars, used, queued, shutdown, resync, trigger, pc, generation,
                 completed, scan, gate, historyVars>>

\* Mutant of Joined: the removal is announced during a shutdown too.
JoinedAnnounces ==
  /\ stopping # None /\ server[stopping].task = "ended"
  /\ stopping' = None
  /\ server' = [server EXCEPT ![stopping] = NoServer]
  /\ Send
  /\ published' = published \ {stopping} /\ steady' = steady \ {stopping}
  /\ pc' = IF shutdown THEN "drain" ELSE pc
  /\ UNCHANGED <<worldVars, used, shutdown, resync, trigger, todo, generation, completed,
                 scan, active, gate, confirmed>>

\* The task has ended: its server is removed, unless the monitor stops.
Joined ==
  /\ stopping # None /\ server[stopping].task = "ended"
  /\ stopping' = None
  /\ server' = [server EXCEPT ![stopping] = NoServer]
  /\ IF shutdown
     THEN /\ pc' = "drain"
          /\ UNCHANGED <<queued, historyVars>>
     ELSE /\ Send
          /\ published' = published \ {stopping} /\ steady' = steady \ {stopping}
          /\ UNCHANGED <<pc, confirmed>>
  /\ UNCHANGED <<worldVars, used, shutdown, resync, trigger, todo, generation, completed,
                 scan, active, gate>>

\* The servers are replaced; now the misses are counted.  A managed service
\* that is missing is removed at once.
CountMisses ==
  /\ pc = "replace" /\ todo = {} /\ stopping = None /\ ~shutdown
  /\ server' = [i \in Instances |->
       IF i \notin active \/ (i \notin Found /\ Backend(i) \in Incomplete) THEN server[i]
       ELSE [server[i] EXCEPT !.misses =
               IF i \in Found THEN 0
               ELSE IF i \in Managed THEN 2
               ELSE IF @ = 255 THEN 255 ELSE @ + 1]]
  /\ pc' = "admit" /\ todo' = Found
  /\ UNCHANGED <<worldVars, used, queued, shutdown, resync, trigger, stopping, generation,
                 completed, scan, active, gate, historyVars>>

\* Mutant of EndpointActive: only the key is looked up.
KeyActive(i) == i \in active

EndpointActive(i) == \E j \in active : SameEndpoint(i, j)

\* An instance found at an endpoint that is active, its own or another's, is
\* passed over.
PassOver(i) ==
  /\ pc = "admit" /\ i \in todo /\ ~shutdown
  /\ EndpointActive(i)
  /\ todo' = todo \ {i}
  /\ UNCHANGED <<worldVars, used, queued, shutdown, resync, trigger, pc, stopping, generation,
                 completed, scan, active, gate, server, historyVars>>

\* Any other is announced, and its task started.
Admit(i) ==
  /\ pc = "admit" /\ i \in todo /\ ~shutdown
  /\ ~EndpointActive(i)
  /\ todo' = todo \ {i}
  /\ Send
  /\ active' = active \cup {i}
  /\ server' = [server EXCEPT ![i] =
       [NoServer EXCEPT !.secret = scan.secret[i], !.task = "starting",
                        !.generation = completed]]
  /\ published' = published \cup {i}
  /\ steady' =
       IF /\ world[i] = "up" /\ secret[i] = scan.secret[i]
          /\ Rivals(i) \cap Listening = {}
       THEN steady \cup {i} ELSE steady
  /\ UNCHANGED <<worldVars, used, shutdown, resync, trigger, pc, stopping, generation,
                 completed, scan, gate, confirmed>>

Admitted ==
  /\ pc = "admit" /\ todo = {} /\ ~shutdown
  /\ pc' = "remove"
  /\ todo' = {i \in active : server[i].misses >= 2}
  /\ UNCHANGED <<worldVars, used, queued, shutdown, resync, trigger, stopping, generation,
                 completed, scan, active, gate, server, historyVars>>

\* publish_discovery_completion, and the bookkeeping of the loop after it.
Publish ==
  /\ pc = "remove" /\ todo = {} /\ stopping = None /\ ~shutdown
  /\ server' = [i \in Instances |->
       IF i \in active
       THEN [server[i] EXCEPT !.generation = generation, !.verified = i \in Found]
       ELSE server[i]]
  /\ completed' = generation
  /\ confirmed' = Found \cap active
  /\ Settle(scan.rows)
  /\ pc' = "select"
  /\ scan' = NoScan
  /\ UNCHANGED <<worldVars, used, queued, shutdown, resync, trigger, todo, stopping,
                 generation, active, published, steady>>

\* The shutdown ends the loop wherever it waits; the tasks are stopped.
Break ==
  /\ shutdown
  /\ pc \notin {"drain", "stopped"} /\ stopping = None
  /\ pc' = "drain" /\ todo' = {}
  /\ UNCHANGED <<worldVars, used, queued, shutdown, resync, trigger, stopping, generation,
                 completed, scan, active, gate, server, historyVars>>

Drained ==
  /\ pc = "drain" /\ active = {} /\ stopping = None
  /\ pc' = "stopped" /\ todo' = {}
  /\ UNCHANGED <<worldVars, used, queued, shutdown, resync, trigger, stopping, generation,
                 completed, scan, active, gate, server, historyVars>>

\* A monitor that stopped stays stopped; one with nothing to do waits.
Rest ==
  /\ pc = "stopped" \/ Selecting
  /\ UNCHANGED vars

-----------------------------------------------------------------------------

Init ==
  /\ world = InitialWorld
  /\ secret = [i \in Instances |-> FALSE]
  /\ used = [changes |-> 0, failures |-> 0, breaks |-> 0, requests |-> 0]
  /\ queued = 0
  /\ shutdown = FALSE /\ resync = FALSE /\ trigger = FALSE
  /\ pc = "select" /\ todo = {} /\ stopping = None
  /\ gate = [pending |-> TRUE, changed |-> FALSE, continuation |-> Settlings,
             baseline |-> None, settling |-> Settlings]
  /\ generation = 0 /\ completed = 0
  /\ scan = NoScan
  /\ active = {}
  /\ server = [i \in Instances |-> NoServer]
  /\ published = {} /\ steady = {} /\ confirmed = {}

TaskAction(i) ==
  \/ TaskStarts(i) \/ TaskEmits(i) \/ TaskDisconnects(i)
  \/ TaskReports(i) \/ TaskReconnects(i) \/ TaskEnds(i)

Noticed == GateTick \/ ResyncChanged \/ TriggerChanged \/ SettlingElapsed

\* The steps of a pass that wait for nothing but themselves and the tasks.
PassStep ==
  \/ BeginPass \/ PassFails \/ Merge \/ CountMisses \/ Admitted \/ Publish
  \/ Break \/ Drained
  \/ \E b \in Backends : ReadTable(b) \/ Probe(b)
  \/ \E i \in Instances : StopServer(i) \/ PassOver(i)

\* Those that wait for room in the channel.
SendStep == Joined \/ \E i \in Instances : Admit(i)

Next ==
  \/ WorldStep
  \/ \E i \in Instances : TaskAction(i)
  \/ Noticed \/ GateFails \/ FullTick
  \/ PassStep \/ SendStep
  \/ \E b \in Backends : ScanFails(b)
  \/ Rest

Spec == Init /\ [][Next]_vars

\* The loop and the tasks run, the timers elapse and the gate is looked at
\* again and again; the full interval is left out, for it is long.  The
\* channel grants its room in order, hence strong fairness for whoever waits
\* for it.
LoopFairness ==
  /\ WF_vars(PassStep) /\ SF_vars(SendStep)
  /\ WF_vars(GateTick) /\ WF_vars(ResyncChanged) /\ WF_vars(TriggerChanged)
  /\ WF_vars(SettlingElapsed)
  /\ \A i \in Instances :
       /\ WF_vars(TaskStarts(i)) /\ WF_vars(TaskReconnects(i)) /\ WF_vars(TaskEnds(i))
       /\ WF_vars(world[i] # "up" /\ TaskDisconnects(i))
       /\ SF_vars(TaskReports(i))

\* With a reader that keeps reading.
FairSpec == Spec /\ LoopFairness /\ WF_vars(Receive)

\* With a reader that may stop.
UnreadSpec == Spec /\ LoopFairness

-----------------------------------------------------------------------------
(* Properties.                                                             *)

\* Every variable holds what the code's declarations allow.
TypeOK ==
  /\ world \in [Instances -> Conditions] /\ secret \in [Instances -> BOOLEAN]
  /\ queued \in 0 .. QueueCapacity
  /\ shutdown \in BOOLEAN /\ resync \in BOOLEAN /\ trigger \in BOOLEAN
  /\ pc \in {"select", "scan", "replace", "admit", "remove", "drain", "stopped"}
  /\ todo \in SUBSET Instances /\ stopping \in Instances \cup {None}
  /\ gate \in [pending : BOOLEAN, changed : BOOLEAN,
               continuation : 0 .. Settlings, settling : 0 .. Settlings,
               baseline : {None} \cup [Backends -> SUBSET (Instances \X BOOLEAN)]]
  /\ generation \in Nat /\ completed \in 0 .. generation
  /\ scan \in [state : [Backends -> {"waiting", "read", "probed", "failed"}],
               rows : [Backends -> SUBSET (Instances \X BOOLEAN)],
               found : [Backends -> SUBSET Instances], secret : [Instances -> BOOLEAN]]
  /\ active \in SUBSET Instances
  /\ server \in [Instances ->
       [misses : 0 .. 255, secret : BOOLEAN, cancelled : BOOLEAN,
        task : {"none", "starting", "running", "reporting", "waiting", "ended"},
        generation : Nat, verified : BOOLEAN, seen : Nat]]
  /\ published \in SUBSET Instances /\ steady \in SUBSET Instances
  /\ confirmed \in SUBSET Instances

\* Events name endpoints: at each endpoint at most one server is found and
\* not yet removed, and no task outlives the removal of its server.
OutputUnambiguous ==
  /\ \A i \in published, j \in published : SameEndpoint(i, j) => i = j
  /\ \A i \in Instances : Alive(i) => i \in published

\* A server that nothing happened to since it was found is not removed:
\* neither a scan or a gate that fails, nor a pass that is requested, nor what
\* the servers do that are not in its way takes it away.
SteadyNeverRemoved ==
  [][\A i \in published \ published' : i \notin steady]_vars

\* A task connects again only if the latest completed pass found its server
\* and was completed after the connection broke.
ReconnectsVerified ==
  [][\A i \in Instances :
       server[i].task = "waiting" /\ server'[i].task = "running" => i \in confirmed]_vars

\* What there is to be found, once no instance changes any more.
Expected ==
  LET up(b) == Unique({i \in Instances : world[i] = "up" /\ Backend(i) = b})
  IN  Merged(up("procfs"), up("managed"))

\* Without any help of the full interval the monitor comes to follow, each
\* with its present credentials, exactly the servers there are.
MonitorConverges ==
  <>[](\/ shutdown
       \/ /\ active = Expected
          /\ \A i \in active : server[i].task = "running" /\ server[i].secret = secret[i])

\* So it does with a reader that may stop, provided that it reads on.
ReadConverges == WF_vars(Receive) => MonitorConverges

\* A shutdown ends every task and the loop, even if nobody reads the channel.
ShutdownCompletes ==
  shutdown ~> pc = "stopped" /\ \A i \in Instances : ~Alive(i)
=============================================================================
