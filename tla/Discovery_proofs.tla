--------------------------- MODULE Discovery_proofs ---------------------------
(***************************************************************************)
(* Proofs about Discovery, for every set of instances and every bound: its *)
(* type invariant, that the output of the monitor is unambiguous, that a   *)
(* task connects again only to a verified server, and that a server to     *)
(* which nothing happens is not removed.                                   *)
(***************************************************************************)
EXTENDS Discovery, TLAPS

\* The parts of the type invariant that a change of one server disturbs.
ServerRecords ==
  [misses : 0 .. 255, secret : BOOLEAN, cancelled : BOOLEAN,
   task : {"none", "starting", "running", "reporting", "waiting", "ended"},
   generation : Nat, verified : BOOLEAN, seen : Nat]

LEMMA EmptyValues ==
  /\ NoServer \in ServerRecords
  /\ EmptyFingerprint \in [Backends -> SUBSET (Instances \X BOOLEAN)]
  /\ NoScan \in [state : [Backends -> {"waiting", "read", "probed", "failed"}],
                 rows : [Backends -> SUBSET (Instances \X BOOLEAN)],
                 found : [Backends -> SUBSET Instances], secret : [Instances -> BOOLEAN]]
BY DEF NoServer, ServerRecords, EmptyFingerprint, NoScan

LEMMA TableType ==
  ASSUME TypeOK, NEW b \in Backends
  PROVE  Table(b) \in SUBSET (Instances \X BOOLEAN)
BY DEF TypeOK, Table, Listening

LEMMA SendType == ASSUME TypeOK, Send PROVE queued' \in 0 .. QueueCapacity
BY DiscoveryAssumption DEF TypeOK, Send

\* What the world does.
LEMMA WorldType == ASSUME TypeOK, WorldStep PROVE TypeOK'
<1>1. ASSUME NEW i \in Instances, NEW c \in Conditions, NEW s \in BOOLEAN, Disturb(i, c, s)
      PROVE  TypeOK'
  BY <1>1 DEF TypeOK, Disturb, passVars
<1>2. ASSUME NEW i \in Instances,
             Appear(i) \/ Recover(i) \/ Sicken(i) \/ Depart(i) \/ Rotate(i)
      PROVE  TypeOK'
  <2>1. secret[i] \in BOOLEAN /\ world[i] \in Conditions
    BY DEF TypeOK
  <2>2. /\ Appear(i) => Disturb(i, "up", secret[i]) \/ Disturb(i, "slow", secret[i])
        /\ Recover(i) => Disturb(i, "up", secret[i])
        /\ Sicken(i) => Disturb(i, "slow", secret[i])
        /\ Depart(i) => Disturb(i, "gone", secret[i])
        /\ Rotate(i) => Disturb(i, world[i], TRUE)
    BY DEF Appear, Recover, Sicken, Depart, Rotate
  <2>3. {"up", "slow", "gone"} \subseteq Conditions
    BY DEF Conditions
  <2> QED BY <1>1, <1>2, <2>1, <2>2, <2>3
<1>3. CASE Receive
  BY <1>3, DiscoveryAssumption DEF TypeOK, Receive, worldVars, passVars, historyVars
<1>4. CASE RequestResync
  BY <1>4 DEF TypeOK, RequestResync, worldVars, passVars, historyVars
<1>5. CASE Shutdown
  BY <1>5 DEF TypeOK, Shutdown, worldVars, passVars, historyVars
<1> QED BY <1>2, <1>3, <1>4, <1>5 DEF WorldStep

LEMMA ServerType ==
  ASSUME TypeOK, NEW i \in Instances, NEW r \in ServerRecords, server' = [server EXCEPT ![i] = r]
  PROVE  server' \in [Instances -> ServerRecords]
<1>1. server \in [Instances -> ServerRecords]
  BY DEF TypeOK, ServerRecords
<1> QED BY <1>1

\* What a task does to its own entry.
LEMMA TaskStepType ==
  ASSUME TypeOK, NEW i \in Instances, NEW from, NEW to, TaskStep(i, from, to),
         to \in {"none", "starting", "running", "reporting", "waiting", "ended"},
         queued' \in 0 .. QueueCapacity, trigger' \in BOOLEAN,
         confirmed' \in SUBSET Instances
  PROVE  TypeOK'
<1> DEFINE r == [server[i] EXCEPT !.task = to]
<1>1. server[i] \in ServerRecords
  BY DEF TypeOK, ServerRecords
<1>2. r \in ServerRecords
  BY <1>1 DEF ServerRecords
<1>3. server' = [server EXCEPT ![i] = r]
  BY DEF TaskStep
<1>4. server' \in [Instances -> ServerRecords]
  BY <1>2, <1>3, ServerType
<1> QED BY <1>4 DEF TypeOK, TaskStep, worldVars, passVars, ServerRecords

LEMMA TaskType == ASSUME TypeOK, NEW i \in Instances, TaskAction(i) PROVE TypeOK'
<1>1. CASE TaskStarts(i)
  BY <1>1, TaskStepType DEF TaskStarts, TypeOK
<1>2. CASE TaskEmits(i)
  BY <1>2, TaskStepType, SendType DEF TaskEmits, TypeOK
<1>3. CASE TaskDisconnects(i)
  <2> DEFINE r == [server[i] EXCEPT !.task = "reporting", !.seen = server[i].generation]
  <2>1. server[i] \in ServerRecords
    BY DEF TypeOK, ServerRecords
  <2>2. r \in ServerRecords
    BY <2>1 DEF ServerRecords
  <2>3. server' = [server EXCEPT ![i] = r]
    BY <1>3 DEF TaskDisconnects
  <2>4. server' \in [Instances -> ServerRecords]
    BY <2>2, <2>3, ServerType
  <2> QED BY <1>3, <2>4 DEF TypeOK, TaskDisconnects, worldVars, passVars, ServerRecords
<1>4. CASE TaskReports(i)
  BY <1>4, TaskStepType, SendType DEF TaskReports, TypeOK
<1>5. CASE TaskReconnects(i)
  BY <1>5, TaskStepType DEF TaskReconnects, TypeOK
<1>6. CASE TaskEnds(i)
  BY <1>6, TaskStepType DEF TaskEnds, TypeOK
<1> QED BY <1>1, <1>2, <1>3, <1>4, <1>5, <1>6 DEF TaskAction

GateRecord ==
  [pending : BOOLEAN, changed : BOOLEAN,
   continuation : 0 .. Settlings, settling : 0 .. Settlings,
   baseline : {None} \cup [Backends -> SUBSET (Instances \X BOOLEAN)]]

LEMMA SettlingType == ASSUME NEW g \in GateRecord, SettlingDue(g) PROVE gate' \in GateRecord
<1>1. /\ g.settling + 1 \in 0 .. Settlings
      /\ Settlings \in 0 .. Settlings
  BY DiscoveryAssumption DEF GateRecord, SettlingDue
<1>2. [g EXCEPT !.continuation = g.settling + 1, !.settling = Settlings, !.pending = TRUE]
        \in GateRecord
  BY <1>1 DEF GateRecord
<1> QED BY <1>2 DEF SettlingDue

LEMMA SettleType ==
  ASSUME gate \in GateRecord,
         NEW print \in {None} \cup [Backends -> SUBSET (Instances \X BOOLEAN)],
         Settle(print)
  PROVE  gate' \in GateRecord
BY DiscoveryAssumption DEF GateRecord, Settle

\* Noticing a trigger, and beginning a pass.
LEMMA LoopType ==
  ASSUME TypeOK, Noticed \/ GateFails \/ FullTick \/ BeginPass
  PROVE  TypeOK'
<1>0. gate \in GateRecord
  BY DEF TypeOK, GateRecord
<1>1. ASSUME NEW g \in GateRecord, Pend(g), resync' \in BOOLEAN, trigger' \in BOOLEAN
      PROVE  TypeOK'
  <2>1. gate' \in GateRecord
    BY <1>1 DEF Pend, GateRecord
  <2> QED BY <1>1, <2>1 DEF TypeOK, Pend, GateRecord, worldVars, passVars, historyVars
<1>2. CASE GateTick
  <2>1. [gate EXCEPT !.changed = TRUE] \in GateRecord
    BY <1>0 DEF GateRecord
  <2> QED BY <1>1, <1>2, <2>1 DEF GateTick, TypeOK
<1>3. CASE GateFails
  BY <1>0, <1>1, <1>3 DEF GateFails, TypeOK
<1>4. CASE FullTick
  BY <1>0, <1>1, <1>4 DEF FullTick, TypeOK
<1>5. CASE ResyncChanged
  BY <1>0, <1>1, <1>5 DEF ResyncChanged, TypeOK
<1>6. CASE TriggerChanged
  BY <1>0, <1>1, <1>6 DEF TriggerChanged, TypeOK
<1>7. CASE SettlingElapsed
  <2>1. gate' \in GateRecord
    BY <1>0, <1>7, SettlingType DEF SettlingElapsed
  <2> QED BY <1>7, <2>1
        DEF SettlingElapsed, TypeOK, GateRecord, worldVars, passVars, historyVars
<1>8. CASE BeginPass
  <2>1. PICK changed \in BOOLEAN :
          LET ticked == [gate EXCEPT !.changed = @ \/ changed]
          IN  gate' = ticked \/ SettlingDue(ticked)
    BY <1>8 DEF BeginPass
  <2>2. [gate EXCEPT !.changed = @ \/ changed] \in GateRecord
    BY <1>0 DEF GateRecord
  <2>3. gate' \in GateRecord
    BY <2>1, <2>2, SettlingType
  <2>4. generation' \in Nat /\ completed' \in 0 .. generation'
    BY <1>8 DEF BeginPass, TypeOK
  <2> QED BY <1>8, <2>3, <2>4, EmptyValues
        DEF BeginPass, TypeOK, GateRecord, worldVars, historyVars
<1> QED BY <1>2, <1>3, <1>4, <1>5, <1>6, <1>7, <1>8 DEF Noticed

ScanRecord ==
  [state : [Backends -> {"waiting", "read", "probed", "failed"}],
   rows : [Backends -> SUBSET (Instances \X BOOLEAN)],
   found : [Backends -> SUBSET Instances], secret : [Instances -> BOOLEAN]]

\* The scans of the backends.
LEMMA ScanType ==
  ASSUME TypeOK, NEW b \in Backends, ReadTable(b) \/ Probe(b) \/ ScanFails(b)
  PROVE  TypeOK'
<1>0. scan \in ScanRecord
  BY DEF TypeOK, ScanRecord
<1>1. ASSUME ScanStep, scan' \in ScanRecord, UNCHANGED <<pc, todo, completed, gate, server>>
      PROVE  TypeOK'
  BY <1>1 DEF TypeOK, ScanStep, ScanRecord, worldVars, historyVars
<1>2. CASE ReadTable(b)
  <2>1. Table(b) \in SUBSET (Instances \X BOOLEAN)
    BY TableType
  <2>2. [scan EXCEPT !.state[b] = "read", !.rows[b] = Table(b)] \in ScanRecord
    BY <1>0, <2>1 DEF ScanRecord
  <2> QED BY <1>1, <1>2, <2>2 DEF ReadTable
<1>3. CASE Probe(b)
  <2> DEFINE secrets == [i \in Instances |->
                           IF Backend(i) = b THEN secret[i] ELSE scan.secret[i]]
  <2>1. Unique(Healthy(b)) \in SUBSET Instances
    BY DEF Unique, Healthy
  <2>2. secrets \in [Instances -> BOOLEAN]
    BY <1>0 DEF ScanRecord, TypeOK
  <2>3. Report(b, Unique(Healthy(b)))
    BY <1>3 DEF Probe, ProbeListeners, ProbeRegistrations
  <2>4. scan' = [scan EXCEPT !.state[b] = "probed", !.found[b] = Unique(Healthy(b)),
                             !.secret = secrets]
    BY <2>3 DEF Report
  <2> HIDE DEF secrets
  <2>5. scan' \in ScanRecord
    BY <1>0, <2>1, <2>2, <2>4 DEF ScanRecord
  <2> QED BY <1>1, <2>3, <2>5 DEF Report
<1>4. CASE ScanFails(b)
  <2>1. [scan EXCEPT !.state[b] = "failed", !.rows[b] = {}] \in ScanRecord
    BY <1>0 DEF ScanRecord
  <2> QED BY <1>1, <1>4, <2>1 DEF ScanFails
<1> QED BY <1>2, <1>3, <1>4

LEMMA FoundType == ASSUME TypeOK PROVE Found \in SUBSET Instances
BY DEF TypeOK, Found, Merged, Backends

\* The parts of a pass that change neither a task nor the map.
LEMMA PassType ==
  ASSUME TypeOK, PassFails \/ Merge \/ Admitted \/ Break \/ Drained
  PROVE  TypeOK'
<1>1. CASE PassFails
  <2>1. gate' \in GateRecord
    BY <1>1, SettleType DEF PassFails, TypeOK, GateRecord
  <2> QED BY <1>1, <2>1 DEF TypeOK, PassFails, ScanStep, GateRecord, worldVars, historyVars
<1>2. CASE Merge
  <2>1. todo' \in SUBSET Instances
    BY <1>2 DEF TypeOK, Merge, Replaced
  <2> QED BY <1>2, <2>1 DEF TypeOK, Merge, ScanStep, worldVars, historyVars
<1>3. CASE Admitted
  <2>1. todo' \in SUBSET Instances
    BY <1>3 DEF TypeOK, Admitted
  <2> QED BY <1>3, <2>1 DEF TypeOK, Admitted, worldVars, historyVars
<1>4. CASE Break
  BY <1>4 DEF TypeOK, Break, worldVars, historyVars
<1>5. CASE Drained
  BY <1>5 DEF TypeOK, Drained, worldVars, historyVars
<1> QED BY <1>1, <1>2, <1>3, <1>4, <1>5

\* A pass changes the entry of one server.
LEMMA EntryType ==
  ASSUME TypeOK, NEW i \in Instances, StopServer(i) \/ PassOver(i) \/ Admit(i)
  PROVE  TypeOK'
<1>1. CASE StopServer(i)
  <2>0. server[i] \in ServerRecords
    BY DEF TypeOK, ServerRecords
  <2>1. [server[i] EXCEPT !.cancelled = TRUE] \in ServerRecords
    BY <2>0 DEF ServerRecords
  <2>2. server' = [server EXCEPT ![i] = [server[i] EXCEPT !.cancelled = TRUE]]
    BY <1>1 DEF StopServer
  <2>3. server' \in [Instances -> ServerRecords]
    BY <2>1, <2>2, ServerType
  <2> QED BY <1>1, <2>3 DEF TypeOK, StopServer, ServerRecords, worldVars, historyVars
<1>2. CASE PassOver(i)
  BY <1>2 DEF TypeOK, PassOver, worldVars, historyVars
<1>3. CASE Admit(i)
  <2> DEFINE r == [NoServer EXCEPT !.secret = scan.secret[i], !.task = "starting",
                                   !.generation = completed]
  <2>1. scan.secret[i] \in BOOLEAN /\ completed \in Nat
    BY DEF TypeOK
  <2>2. r \in ServerRecords
    BY <2>1, EmptyValues DEF ServerRecords
  <2>3. server' = [server EXCEPT ![i] = r]
    BY <1>3 DEF Admit
  <2>4. server' \in [Instances -> ServerRecords]
    BY <2>2, <2>3, ServerType
  <2>5. /\ queued' \in 0 .. QueueCapacity
        /\ active' \in SUBSET Instances /\ todo' \in SUBSET Instances
        /\ published' \in SUBSET Instances /\ steady' \in SUBSET Instances
    BY <1>3, SendType DEF Admit, TypeOK
  <2> QED BY <1>3, <2>4, <2>5 DEF TypeOK, Admit, ServerRecords, worldVars
<1> QED BY <1>1, <1>2, <1>3

LEMMA JoinedType == ASSUME TypeOK, Joined PROVE TypeOK'
<1>1. stopping \in Instances
  BY DEF Joined, TypeOK
<1>2. server' \in [Instances -> ServerRecords]
  BY <1>1, EmptyValues, ServerType DEF Joined
<1>3. /\ queued' \in 0 .. QueueCapacity
      /\ published' \in SUBSET Instances /\ steady' \in SUBSET Instances
      /\ confirmed' \in SUBSET Instances
      /\ pc' \in {pc, "drain"}
  BY SendType DEF Joined, TypeOK, historyVars
<1> QED BY <1>2, <1>3 DEF TypeOK, Joined, ServerRecords, worldVars

LEMMA VerifiedType ==
  ASSUME NEW r \in ServerRecords, NEW g \in Nat, NEW v \in BOOLEAN
  PROVE  [r EXCEPT !.generation = g, !.verified = v] \in ServerRecords
BY DEF ServerRecords

\* A pass changes the entries of all servers.
LEMMA EntriesType == ASSUME TypeOK, CountMisses \/ Publish PROVE TypeOK'
<1>0. \A i \in Instances : server[i] \in ServerRecords
  BY DEF TypeOK, ServerRecords
<1>1. CASE CountMisses
  <2> DEFINE n(i) == IF i \in Found THEN 0
                     ELSE IF i \in Managed THEN 2
                     ELSE IF server[i].misses = 255 THEN 255 ELSE server[i].misses + 1
             e(i) == IF i \notin active \/ (i \notin Found /\ Backend(i) \in Incomplete)
                     THEN server[i] ELSE [server[i] EXCEPT !.misses = n(i)]
  <2>1. ASSUME NEW i \in Instances PROVE n(i) \in 0 .. 255
    BY <1>0 DEF ServerRecords
  <2> HIDE DEF n
  <2>2. ASSUME NEW i \in Instances PROVE e(i) \in ServerRecords
    <3>1. [server[i] EXCEPT !.misses = n(i)] \in ServerRecords
      BY <1>0, <2>1 DEF ServerRecords
    <3> QED BY <1>0, <3>1
  <2>3. server' = [i \in Instances |-> e(i)]
    BY <1>1 DEF CountMisses, n
  <2> HIDE DEF e
  <2>4. server' \in [Instances -> ServerRecords]
    BY <2>2, <2>3
  <2> QED BY <1>1, <2>4, FoundType
        DEF TypeOK, CountMisses, ServerRecords, worldVars, historyVars
<1>2. CASE Publish
  <2> DEFINE e(i) == IF i \in active
                     THEN [server[i] EXCEPT !.generation = generation,
                                            !.verified = i \in Found]
                     ELSE server[i]
  <2>1. ASSUME NEW i \in Instances PROVE e(i) \in ServerRecords
    <3>1. (i \in Found) \in BOOLEAN
      OBVIOUS
    <3>2. generation \in Nat
      BY DEF TypeOK
    <3>3. [server[i] EXCEPT !.generation = generation, !.verified = i \in Found]
            \in ServerRecords
      BY <1>0, <3>1, <3>2, VerifiedType
    <3> QED BY <1>0, <3>3
  <2>2. server' = [i \in Instances |-> e(i)]
    BY <1>2 DEF Publish
  <2> HIDE DEF e
  <2>3. server' \in [Instances -> ServerRecords]
    BY <2>1, <2>2
  <2>4. scan.rows \in [Backends -> SUBSET (Instances \X BOOLEAN)]
    BY DEF TypeOK
  <2>5. gate' \in GateRecord
    <3>1. gate \in GateRecord
      BY DEF TypeOK, GateRecord
    <3>2. Settle(scan.rows)
      BY <1>2 DEF Publish
    <3> QED BY <2>4, <3>1, <3>2, SettleType
  <2>6. completed' \in 0 .. generation' /\ generation' \in Nat
    <3>1. completed' = generation /\ generation' = generation
      BY <1>2 DEF Publish
    <3>2. generation \in Nat
      BY DEF TypeOK
    <3> QED BY <3>1, <3>2
  <2>7. confirmed' \in SUBSET Instances
    BY <1>2 DEF TypeOK, Publish
  <2> QED BY <1>2, <2>3, <2>5, <2>6, <2>7, EmptyValues
        DEF TypeOK, Publish, ServerRecords, GateRecord, worldVars
<1> QED BY <1>1, <1>2

\* Every variable holds what the code's declarations allow, whatever the
\* instances, the capacity of the channel and the bounds.
THEOREM TypeCorrect == Spec => []TypeOK
<1>1. Init => TypeOK
  <2> SUFFICES ASSUME Init PROVE TypeOK
    OBVIOUS
  <2>1. gate \in GateRecord
    BY DiscoveryAssumption DEF Init, GateRecord
  <2>2. server \in [Instances -> ServerRecords] /\ scan \in ScanRecord
    BY EmptyValues DEF Init, ScanRecord
  <2>3. world \in [Instances -> Conditions] /\ queued \in 0 .. QueueCapacity
    BY DiscoveryAssumption DEF Init
  <2>4. generation \in Nat /\ completed \in 0 .. generation
    BY DEF Init
  <2>5. secret \in [Instances -> BOOLEAN] /\ stopping \in Instances \cup {None}
    BY DEF Init
  <2>6. /\ shutdown \in BOOLEAN /\ resync \in BOOLEAN /\ trigger \in BOOLEAN
        /\ pc = "select"
        /\ todo = {} /\ active = {} /\ published = {} /\ steady = {} /\ confirmed = {}
    BY DEF Init
  <2> QED BY <2>1, <2>2, <2>3, <2>4, <2>5, <2>6
        DEF TypeOK, GateRecord, ServerRecords, ScanRecord
<1>2. TypeOK /\ [Next]_vars => TypeOK'
  <2> SUFFICES ASSUME TypeOK, [Next]_vars PROVE TypeOK'
    OBVIOUS
  <2>1. CASE WorldStep
    BY <2>1, WorldType
  <2>2. CASE \E i \in Instances : TaskAction(i)
    BY <2>2, TaskType
  <2>3. CASE Noticed \/ GateFails \/ FullTick \/ BeginPass
    BY <2>3, LoopType
  <2>4. CASE PassFails \/ Merge \/ Admitted \/ Break \/ Drained
    BY <2>4, PassType
  <2>5. CASE CountMisses \/ Publish
    BY <2>5, EntriesType
  <2>6. CASE \E b \in Backends : ReadTable(b) \/ Probe(b) \/ ScanFails(b)
    BY <2>6, ScanType
  <2>7. CASE \E i \in Instances : StopServer(i) \/ PassOver(i) \/ Admit(i)
    BY <2>7, EntryType
  <2>8. CASE Joined
    BY <2>8, JoinedType
  <2>9. CASE UNCHANGED vars
    BY <2>9 DEF TypeOK, vars, worldVars, passVars, historyVars
  <2> QED BY <2>1, <2>2, <2>3, <2>4, <2>5, <2>6, <2>7, <2>8, <2>9
        DEF Next, PassStep, SendStep, Rest
<1> QED BY <1>1, <1>2, PTL DEF Spec

-----------------------------------------------------------------------------
(* The output is unambiguous.  OutputUnambiguous alone is not inductive: an *)
(* instance is announced because its endpoint is free in the map `active', *)
(* so the map and the announcements must agree whenever a pass admits.     *)

MapCoherent ==
  /\ active \subseteq published
  /\ stopping # None => stopping \in published \ active
  /\ pc \notin {"drain", "stopped"} => published = active \cup ({stopping} \ {None})
  /\ pc \in {"select", "scan", "admit"} => stopping = None
  /\ pc \in {"replace", "remove"} => todo \subseteq active
  /\ \A i \in Instances : Alive(i) => i \in active \/ i = stopping
  /\ \A i \in published, j \in published : SameEndpoint(i, j) => i = j

LEMMA CoherentIsUnambiguous == ASSUME MapCoherent PROVE OutputUnambiguous
<1>1. ASSUME NEW i \in Instances, Alive(i) PROVE i \in published
  <2>1. None \notin Instances
    BY DiscoveryAssumption
  <2> QED BY <1>1, <2>1 DEF MapCoherent
<1>2. \A i \in published, j \in published : SameEndpoint(i, j) => i = j
  BY DEF MapCoherent
<1> QED BY <1>1, <1>2 DEF OutputUnambiguous

\* Steps that leave the map and the announcements alone.
LEMMA CoherentFrame ==
  ASSUME MapCoherent, UNCHANGED <<active, stopping, published>>,
         pc' \in {"drain", "stopped"} \/ pc \notin {"drain", "stopped"},
         pc' \in {"select", "scan", "admit"} => stopping = None,
         pc' \in {"replace", "remove"} => todo' \subseteq active,
         \A i \in Instances : Alive(i)' => Alive(i)
  PROVE  MapCoherent'
<1>1. \A i \in Instances : Alive(i)' => i \in active' \/ i = stopping'
  BY DEF MapCoherent
<1>2. \A i \in published', j \in published' : SameEndpoint(i, j) => i = j
  BY DEF MapCoherent
<1>3. (\A i \in published, j \in published : SameEndpoint(i, j) => i = j)'
  BY <1>2 DEF SameEndpoint
<1> QED BY <1>1, <1>3 DEF MapCoherent

\* No step of a task brings a task to life.
LEMMA TaskStaysDead ==
  ASSUME TypeOK, NEW i \in Instances, TaskAction(i)
  PROVE  /\ \A j \in Instances : Alive(j)' => Alive(j)
         /\ UNCHANGED <<active, stopping, published, pc, todo>>
<1>0. server \in [Instances -> ServerRecords]
  BY DEF TypeOK, ServerRecords
<1>1. ASSUME NEW to, TaskStep(i, server[i].task, to), Alive(i)
      PROVE  /\ \A j \in Instances : Alive(j)' => Alive(j)
             /\ UNCHANGED <<active, stopping, published, pc, todo>>
  BY <1>0, <1>1 DEF TaskStep, Alive, passVars, ServerRecords
<1>2. CASE TaskStarts(i)
  BY <1>1, <1>2 DEF TaskStarts, TaskStep, Alive
<1>3. CASE TaskEmits(i)
  BY <1>1, <1>3 DEF TaskEmits, TaskStep, Alive
<1>4. CASE TaskDisconnects(i)
  BY <1>0, <1>4 DEF TaskDisconnects, Alive, passVars, ServerRecords
<1>5. CASE TaskReports(i)
  BY <1>1, <1>5 DEF TaskReports, TaskStep, Alive
<1>6. CASE TaskReconnects(i)
  BY <1>1, <1>6 DEF TaskReconnects, TaskStep, Alive
<1>7. CASE TaskEnds(i)
  BY <1>1, <1>7 DEF TaskEnds
<1> QED BY <1>2, <1>3, <1>4, <1>5, <1>6, <1>7 DEF TaskAction

\* The steps of a pass that touch neither the map nor the announcements.
LEMMA PassCoherent ==
  ASSUME TypeOK, MapCoherent,
         \/ CountMisses \/ Publish \/ PassFails \/ Merge \/ Admitted \/ Break \/ Drained
         \/ \E b \in Backends : ReadTable(b) \/ Probe(b) \/ ScanFails(b)
         \/ \E i \in Instances : PassOver(i)
  PROVE  MapCoherent'
<1>0. server \in [Instances -> ServerRecords]
  BY DEF TypeOK, ServerRecords
<1>1. CASE CountMisses
  <2>1. \A i \in Instances : server'[i].task = server[i].task
    BY <1>0, <1>1 DEF CountMisses, ServerRecords
  <2> QED BY <1>1, <2>1, CoherentFrame DEF CountMisses, Alive, historyVars
<1>2. CASE Publish
  <2>1. \A i \in Instances : server'[i].task = server[i].task
    BY <1>0, <1>2 DEF Publish, ServerRecords
  <2> QED BY <1>2, <2>1, CoherentFrame DEF Publish, Alive
<1>3. CASE PassFails \/ Merge
  <2>1. stopping = None
    BY <1>3 DEF PassFails, Merge, ScanStep, MapCoherent
  <2> QED BY <1>3, <2>1, CoherentFrame DEF PassFails, Merge, Replaced, ScanStep, Alive, historyVars
<1>4. CASE Admitted
  BY <1>4, CoherentFrame DEF Admitted, Alive, historyVars
<1>5. CASE Break \/ Drained
  BY <1>5, CoherentFrame DEF Break, Drained, Alive, historyVars
<1>6. ASSUME NEW b \in Backends, ReadTable(b) \/ Probe(b) \/ ScanFails(b)
      PROVE  MapCoherent'
  <2>1. stopping = None
    BY <1>6 DEF ReadTable, Probe, ProbeListeners, ProbeRegistrations, Report, ScanFails, ScanStep,
                MapCoherent
  <2> QED BY <1>6, <2>1, CoherentFrame
        DEF ReadTable, Probe, ProbeListeners, ProbeRegistrations, Report, ScanFails, ScanStep,
            Alive, historyVars
<1>7. ASSUME NEW i \in Instances, PassOver(i) PROVE MapCoherent'
  BY <1>7, CoherentFrame DEF PassOver, Alive, historyVars, MapCoherent
<1> QED BY <1>1, <1>2, <1>3, <1>4, <1>5, <1>6, <1>7

\* A pass stops a server: its task is awaited, nothing is announced yet.
LEMMA StopCoherent ==
  ASSUME TypeOK, MapCoherent, NEW i \in Instances, StopServer(i)
  PROVE  MapCoherent'
<1>0. server \in [Instances -> ServerRecords] /\ None \notin Instances
  BY DiscoveryAssumption DEF TypeOK, ServerRecords
<1>1. \A j \in Instances : server'[j].task = server[j].task
  BY <1>0 DEF StopServer, ServerRecords
<1>2. i \in active /\ stopping = None
  BY DEF StopServer, MapCoherent
<1>3. UNCHANGED <<published, pc>> /\ active' = active \ {i} /\ stopping' = i
      /\ todo' = todo \ {i}
  BY DEF StopServer, historyVars
<1>4. \A j \in Instances : Alive(j)' => j \in active' \/ j = stopping'
  BY <1>0, <1>1, <1>2, <1>3 DEF MapCoherent, Alive
<1>5. pc \notin {"select", "scan", "admit"}
  BY DEF StopServer
<1>6. (\A j \in published, k \in published : SameEndpoint(j, k) => j = k)'
  BY <1>3 DEF MapCoherent, SameEndpoint
<1>7. stopping' \in published' \ active'
  BY <1>2, <1>3 DEF MapCoherent
<1>8. pc' \notin {"drain", "stopped"} => published' = active' \cup ({stopping'} \ {None})
  BY <1>0, <1>2, <1>3 DEF MapCoherent
<1>9. active' \subseteq published' /\ (pc' \in {"replace", "remove"} => todo' \subseteq active')
  BY <1>3 DEF MapCoherent
<1> QED BY <1>3, <1>4, <1>5, <1>6, <1>7, <1>8, <1>9 DEF MapCoherent

\* The task has ended: the server is announced as removed, or the monitor
\* stops.
LEMMA JoinedCoherent == ASSUME TypeOK, MapCoherent, Joined PROVE MapCoherent'
<1>0. server \in [Instances -> ServerRecords] /\ stopping \in Instances
  BY DEF TypeOK, ServerRecords, Joined
<1>1. /\ stopping' = None /\ UNCHANGED <<active, todo>>
      /\ pc' \in {"drain", pc}
      /\ \/ published' = published /\ pc' = "drain"
         \/ published' = published \ {stopping} /\ pc' = pc
  BY DEF Joined, historyVars
<1>2. \A i \in Instances : Alive(i)' => i \in active' \/ i = stopping'
  <2>1. \A i \in Instances : Alive(i)' => i # stopping /\ Alive(i)
    BY <1>0 DEF Joined, Alive, NoServer
  <2> QED BY <1>1, <2>1 DEF MapCoherent
<1>3. (\A j \in published, k \in published : SameEndpoint(j, k) => j = k)'
  BY <1>1 DEF MapCoherent, SameEndpoint
<1>4. active' \subseteq published'
  BY <1>1 DEF MapCoherent, Joined
<1>5. pc' \notin {"drain", "stopped"} => published' = active' \cup ({stopping'} \ {None})
  BY <1>1 DEF MapCoherent, Joined
<1> QED BY <1>1, <1>2, <1>3, <1>4, <1>5 DEF MapCoherent

\* A server is admitted only at an endpoint no announced server has.
LEMMA AdmitCoherent ==
  ASSUME TypeOK, MapCoherent, NEW i \in Instances, Admit(i)
  PROVE  MapCoherent'
<1>0. server \in [Instances -> ServerRecords] /\ published \in SUBSET Instances
  BY DEF TypeOK, ServerRecords
<1>1. stopping = None /\ published = active
  BY DEF Admit, MapCoherent
<1>2. /\ UNCHANGED <<pc, stopping>> /\ pc = "admit"
      /\ active' = active \cup {i} /\ published' = published \cup {i}
  BY DEF Admit
<1>3. \A j \in active : ~SameEndpoint(i, j) /\ ~SameEndpoint(j, i)
  BY DEF Admit, EndpointActive, SameEndpoint
<1>4. (\A j \in published, k \in published : SameEndpoint(j, k) => j = k)'
  BY <1>1, <1>2, <1>3 DEF MapCoherent, SameEndpoint
<1>5. \A j \in Instances : Alive(j)' => j \in active' \/ j = stopping'
  <2>1. ASSUME NEW j \in Instances, j # i PROVE Alive(j)' => Alive(j)
    BY <1>0, <2>1 DEF Admit, Alive
  <2> QED BY <1>2, <2>1 DEF MapCoherent
<1> QED BY <1>1, <1>2, <1>4, <1>5 DEF MapCoherent

\* The map, the announcements and the tasks agree.
LEMMA MapStaysCoherent == Spec => []MapCoherent
<1>1. Init => MapCoherent
  BY DEF Init, MapCoherent, Alive, NoServer
<1>2. TypeOK /\ MapCoherent /\ [Next]_vars => MapCoherent'
  <2> SUFFICES ASSUME TypeOK, MapCoherent, [Next]_vars PROVE MapCoherent'
    OBVIOUS
  <2>1. ASSUME UNCHANGED <<passVars, server, published>> PROVE MapCoherent'
    BY <2>1, CoherentFrame DEF passVars, Alive, MapCoherent
  <2>2. CASE WorldStep
    BY <2>1, <2>2 DEF WorldStep, Appear, Recover, Sicken, Depart, Rotate, Disturb, Receive,
                      RequestResync, Shutdown, historyVars
  <2>3. ASSUME NEW i \in Instances, TaskAction(i) PROVE MapCoherent'
    BY <2>3, TaskStaysDead, CoherentFrame DEF MapCoherent
  <2>4. CASE Noticed \/ GateFails \/ FullTick
    BY <2>1, <2>4 DEF Noticed, GateTick, ResyncChanged, TriggerChanged, SettlingElapsed,
                      GateFails, FullTick, Pend, historyVars
  <2>5. CASE BeginPass
    BY <2>5, CoherentFrame DEF BeginPass, Alive, MapCoherent, historyVars
  <2>6. CASE \/ CountMisses \/ Publish \/ PassFails \/ Merge \/ Admitted \/ Break \/ Drained
             \/ \E b \in Backends : ReadTable(b) \/ Probe(b) \/ ScanFails(b)
             \/ \E i \in Instances : PassOver(i)
    BY <2>6, PassCoherent
  <2>7. CASE \E i \in Instances : StopServer(i)
    BY <2>7, StopCoherent
  <2>8. CASE Joined
    BY <2>8, JoinedCoherent
  <2>9. CASE \E i \in Instances : Admit(i)
    BY <2>9, AdmitCoherent
  <2>10. CASE UNCHANGED vars
    BY <2>1, <2>10 DEF vars, historyVars
  <2> QED BY <2>2, <2>3, <2>4, <2>5, <2>6, <2>7, <2>8, <2>9, <2>10
        DEF Next, PassStep, SendStep, Rest
<1> QED BY <1>1, <1>2, TypeCorrect, PTL DEF Spec

\* At each endpoint at most one server is found and not yet removed, and no
\* task outlives the removal of its server, for any number of instances,
\* failures, broken connections and passes.
THEOREM OutputStaysUnambiguous == Spec => []OutputUnambiguous
BY MapStaysCoherent, CoherentIsUnambiguous, PTL

-----------------------------------------------------------------------------
(* A task connects again only to a verified server.  What the task holds,  *)
(* a completion with its generation, has to agree with what the latest     *)
(* pass found; for a task that is not in the map any more this is so only  *)
(* because its task is awaited before the pass completes.                  *)

VerifiedCoherent ==
  \A i \in Instances :
    /\ server[i].task \in {"reporting", "waiting"}
    /\ server[i].verified /\ server[i].generation > server[i].seen
    => i \in confirmed

\* A server is seen to be waiting, or about to.
Waits(i) == server[i].task \in {"reporting", "waiting"}

\* What a completion told the task of i, and how it left its disconnect.
Told(i) == <<server[i].verified, server[i].generation, server[i].seen>>

\* Steps that begin no disconnect and complete no pass.
LEMMA VerifiedFrame ==
  ASSUME VerifiedCoherent,
         \A i \in Instances : Waits(i)' =>
           Waits(i) /\ UNCHANGED Told(i) /\ (i \in confirmed => i \in confirmed')
  PROVE  VerifiedCoherent'
BY DEF VerifiedCoherent, Waits, Told

\* What the task of i does leaves the others alone.
LEMMA TaskVerified ==
  ASSUME TypeOK, VerifiedCoherent, NEW i \in Instances, TaskAction(i)
  PROVE  /\ VerifiedCoherent'
         /\ \A j \in Instances :
              server[j].task = "waiting" /\ server'[j].task = "running" => j \in confirmed
<1>0. server \in [Instances -> ServerRecords]
  BY DEF TypeOK, ServerRecords
<1>1. ASSUME NEW to, NEW from, TaskStep(i, from, to), confirmed' = confirmed,
             to \in {"reporting", "waiting"} => Waits(i),
             from = "waiting" /\ to = "running" => i \in confirmed
      PROVE  /\ VerifiedCoherent'
             /\ \A j \in Instances :
                  server[j].task = "waiting" /\ server'[j].task = "running" => j \in confirmed
  <2>1. \A j \in Instances :
          /\ server'[j].task = IF i = j THEN to ELSE server[j].task
          /\ UNCHANGED Told(j)
    BY <1>0, <1>1 DEF TaskStep, Told, ServerRecords
  <2>2. server[i].task = from
    BY <1>1 DEF TaskStep
  <2> QED BY <1>1, <2>1, <2>2, VerifiedFrame DEF Waits
<1>2. CASE TaskStarts(i)
  BY <1>1, <1>2 DEF TaskStarts
<1>3. CASE TaskEmits(i)
  BY <1>1, <1>3 DEF TaskEmits
<1>4. CASE TaskDisconnects(i)
  <2>1. /\ server'[i].task = "reporting"
        /\ server'[i].seen = server[i].generation
        /\ server'[i].generation = server[i].generation
        /\ server[i].generation \in Nat
        /\ \A j \in Instances \ {i} : server'[j] = server[j]
        /\ confirmed' = confirmed \ {i}
    BY <1>0, <1>4 DEF TaskDisconnects, ServerRecords
  <2>2. ~(server'[i].generation > server'[i].seen)
    BY <2>1
  <2>3. VerifiedCoherent'
    BY <2>1, <2>2 DEF VerifiedCoherent
  <2> QED BY <2>1, <2>3
<1>5. CASE TaskReports(i)
  BY <1>1, <1>5 DEF TaskReports, TaskStep, Waits
<1>6. CASE TaskReconnects(i)
  <2>1. i \in confirmed
    BY <1>6 DEF TaskReconnects, TaskStep, VerifiedCoherent
  <2> QED BY <1>1, <1>6, <2>1 DEF TaskReconnects
<1>7. CASE TaskEnds(i)
  BY <1>1, <1>7 DEF TaskEnds
<1> QED BY <1>2, <1>3, <1>4, <1>5, <1>6, <1>7 DEF TaskAction

\* No step of the loop or of the world makes a task run or wait.
LEMMA OthersVerified ==
  ASSUME TypeOK, MapCoherent, VerifiedCoherent, [Next]_vars,
         ~ \E i \in Instances : TaskAction(i)
  PROVE  /\ VerifiedCoherent'
         /\ \A j \in Instances :
              ~(server[j].task = "waiting" /\ server'[j].task = "running")
<1>0. server \in [Instances -> ServerRecords]
  BY DEF TypeOK, ServerRecords
<1>1. ASSUME UNCHANGED <<server, confirmed>>
      PROVE  /\ VerifiedCoherent'
             /\ \A j \in Instances :
                  ~(server[j].task = "waiting" /\ server'[j].task = "running")
  BY <1>1 DEF VerifiedCoherent
<1>2. CASE WorldStep \/ Noticed \/ GateFails \/ FullTick \/ BeginPass \/ UNCHANGED vars
  BY <1>1, <1>2 DEF WorldStep, Appear, Recover, Sicken, Depart, Rotate, Disturb, Receive,
       RequestResync, Shutdown, Noticed, GateTick, ResyncChanged, TriggerChanged,
       SettlingElapsed, GateFails, FullTick, BeginPass, Pend, vars, historyVars
<1>3. CASE \/ PassFails \/ Merge \/ Admitted \/ Break \/ Drained
           \/ \E b \in Backends : ReadTable(b) \/ Probe(b) \/ ScanFails(b)
           \/ \E i \in Instances : PassOver(i)
  BY <1>1, <1>3 DEF PassFails, Merge, Admitted, Break, Drained, ReadTable, Probe,
       ProbeListeners, ProbeRegistrations, Report, ScanFails, ScanStep, PassOver, historyVars
<1>4. CASE CountMisses
  <2>1. \A j \in Instances :
          server'[j].task = server[j].task /\ UNCHANGED Told(j) /\ confirmed' = confirmed
    BY <1>0, <1>4 DEF CountMisses, Told, ServerRecords, historyVars
  <2> QED BY <2>1, VerifiedFrame DEF Waits
<1>5. CASE Publish
  <2>1. \A j \in Instances : server'[j].task = server[j].task
    BY <1>0, <1>5 DEF Publish, ServerRecords
  <2>2. stopping = None /\ None \notin Instances
    BY <1>5, DiscoveryAssumption DEF Publish
  <2>3. ASSUME NEW j \in Instances, Waits(j)', server'[j].verified
        PROVE  j \in confirmed'
    <3>1. j \in active
      BY <2>1, <2>2, <2>3 DEF MapCoherent, Waits, Alive
    <3>2. server'[j].verified = (j \in Found)
      BY <1>0, <1>5, <3>1 DEF Publish, ServerRecords
    <3> QED BY <1>5, <2>3, <3>1, <3>2 DEF Publish
  <2> QED BY <2>1, <2>3 DEF VerifiedCoherent, Waits
<1>6. CASE \E i \in Instances : StopServer(i)
  <2>1. \A j \in Instances :
          server'[j].task = server[j].task /\ UNCHANGED Told(j) /\ confirmed' = confirmed
    BY <1>0, <1>6 DEF StopServer, Told, ServerRecords, historyVars
  <2> QED BY <2>1, VerifiedFrame DEF Waits
<1>7. CASE \E i \in Instances : Admit(i)
  <2> PICK i \in Instances : Admit(i)
    BY <1>7
  <2>1. /\ server'[i].task = "starting" /\ confirmed' = confirmed
        /\ \A j \in Instances \ {i} : server'[j] = server[j]
    BY <1>0 DEF Admit, NoServer
  <2>2. \A j \in Instances : Waits(j)' => Waits(j) /\ UNCHANGED Told(j)
    BY <2>1 DEF Waits, Told
  <2> QED BY <2>1, <2>2, VerifiedFrame
<1>8. CASE Joined
  <2>1. stopping \in Instances
    BY <1>8 DEF TypeOK, Joined
  <2>2. /\ server'[stopping].task = "none" /\ confirmed' = confirmed
        /\ \A j \in Instances \ {stopping} : server'[j] = server[j]
    BY <1>0, <1>8, <2>1 DEF Joined, NoServer, historyVars
  <2>3. \A j \in Instances : Waits(j)' => Waits(j) /\ UNCHANGED Told(j)
    BY <2>2 DEF Waits, Told
  <2> QED BY <2>2, <2>3, VerifiedFrame
<1> QED BY <1>2, <1>3, <1>4, <1>5, <1>6, <1>7, <1>8
      DEF Next, PassStep, SendStep, Rest

\* A task connects again only if the latest completed pass found its server
\* and was completed after the connection broke, whatever passes, failures
\* and removals came in between.
THEOREM ReconnectsAreVerified == Spec => ReconnectsVerified
<1>1. Init => VerifiedCoherent
  BY DEF Init, VerifiedCoherent, NoServer
<1>2. TypeOK /\ MapCoherent /\ VerifiedCoherent /\ [Next]_vars =>
        /\ VerifiedCoherent'
        /\ \A i \in Instances :
             server[i].task = "waiting" /\ server'[i].task = "running" => i \in confirmed
  BY TaskVerified, OthersVerified
<1>3. TypeOK /\ MapCoherent /\ VerifiedCoherent /\ [Next]_vars =>
        [\A i \in Instances :
           server[i].task = "waiting" /\ server'[i].task = "running" => i \in confirmed]_vars
  BY <1>2
<1> QED BY <1>1, <1>2, <1>3, TypeCorrect, MapStaysCoherent, PTL
      DEF Spec, ReconnectsVerified
-----------------------------------------------------------------------------
(* A server that nothing happens to stays.  A pass judges it by what the   *)
(* scan read, and the scan read it while it was undisturbed: its row, its  *)
(* credentials, and no rival.                                              *)

\* Whatever is found was probed, by its own backend; what is merged has been
\* probed, or could not be; and the tasks are stopped only in a shutdown.
ScanFits ==
  /\ pc \in {"scan", "replace"} =>
       \A b \in Backends :
         /\ \A row \in scan.rows[b] : Backend(row[1]) = b
         /\ \A j \in scan.found[b] : Backend(j) = b /\ scan.state[b] = "probed"
  /\ pc = "replace" => \A b \in Backends : scan.state[b] \in {"probed", "failed"}
  /\ pc \notin {"drain", "stopped"}

\* What the scan says of a server that was there all the time.
ScannedWhole(i) ==
  /\ scan.state[Backend(i)] \in {"read", "probed"} => \E row \in scan.rows[Backend(i)] : row[1] = i
  /\ scan.state[Backend(i)] = "probed" => i \in scan.found[Backend(i)] /\ scan.secret[i] = secret[i]
  /\ \A b \in Backends : scan.found[b] \cap Rivals(i) = {}

Undisturbed(i) ==
  /\ i \in active
  /\ world[i] = "up" /\ secret[i] = server[i].secret /\ server[i].misses = 0
  /\ Rivals(i) \cap Listening = {}
  /\ pc \in {"replace", "remove"} => i \notin todo
  /\ pc \in {"scan", "replace"} => ScannedWhole(i)

\* A monitor that stops says nothing of its servers any more.
SteadyCoherent == shutdown \/ (ScanFits /\ \A i \in steady : Undisturbed(i))

\* Steps that leave the world and the scan alone, and no server disturbed.
LEMMA SteadyFrame ==
  ASSUME SteadyCoherent, UNCHANGED <<worldVars, scan>>, shutdown => shutdown',
         pc' \in {"scan", "replace"} => pc' = pc,
         ~shutdown' => pc' \notin {"drain", "stopped"},
         steady' \subseteq steady,
         \A i \in steady' :
           /\ i \in active => i \in active'
           /\ server'[i].secret = server[i].secret
           /\ server[i].misses = 0 => server'[i].misses = 0
           /\ pc' \in {"replace", "remove"} /\ Undisturbed(i) => i \notin todo'
  PROVE  SteadyCoherent'
<1>1. CASE shutdown
  BY <1>1 DEF SteadyCoherent
<1>2. CASE ~shutdown /\ ~shutdown'
  <2>1. ScanFits'
    BY <1>2 DEF SteadyCoherent, ScanFits
  <2>2. ASSUME NEW i \in steady' PROVE Undisturbed(i)'
    <3>1. Undisturbed(i)
      BY <1>2, <2>2 DEF SteadyCoherent
    <3>2. ScannedWhole(i)' <=> ScannedWhole(i)
      BY DEF ScannedWhole, worldVars
    <3>3. Listening' = Listening
      BY DEF Listening, worldVars
    <3> QED BY <2>2, <3>1, <3>2, <3>3 DEF Undisturbed, worldVars
  <2> QED BY <2>1, <2>2 DEF SteadyCoherent
<1>3. CASE shutdown'
  BY <1>3 DEF SteadyCoherent
<1> QED BY <1>1, <1>2, <1>3

\* Who is changed is undisturbed no more, and neither is who it is in the way of.
LEMMA WorldSteady ==
  ASSUME TypeOK, SteadyCoherent, NEW i \in Instances, NEW c, NEW s, Disturb(i, c, s)
  PROVE  SteadyCoherent'
<1>1. CASE shutdown
  BY <1>1 DEF SteadyCoherent, Disturb
<1>2. CASE ~shutdown
  <2>1. ScanFits'
    BY <1>2 DEF SteadyCoherent, ScanFits, Disturb, passVars
  <2>2. ASSUME NEW j \in steady' PROVE Undisturbed(j)'
    <3>1. j \in steady /\ j # i /\ i \notin Rivals(j)
      BY <2>2 DEF Disturb
    <3>2. Undisturbed(j) /\ j \in Instances
      BY <1>2, <3>1 DEF SteadyCoherent, TypeOK
    <3>3. /\ UNCHANGED <<passVars, server>>
          /\ \A k \in Instances \ {i} : world'[k] = world[k] /\ secret'[k] = secret[k]
      BY DEF Disturb, TypeOK
    <3>4. Rivals(j) \cap Listening' = {}
      BY <3>1, <3>2, <3>3 DEF Undisturbed, Listening, Rivals
    <3>5. ScannedWhole(j) => ScannedWhole(j)'
      BY <3>1, <3>2, <3>3 DEF ScannedWhole, passVars
    <3> QED BY <3>1, <3>2, <3>3, <3>4, <3>5 DEF Undisturbed, passVars
  <2> QED BY <2>1, <2>2 DEF SteadyCoherent
<1> QED BY <1>1, <1>2

\* Each step of a scan reads the server as it is.
LEMMA ScanSteady ==
  ASSUME TypeOK, SteadyCoherent, NEW b \in Backends, ReadTable(b) \/ Probe(b) \/ ScanFails(b)
  PROVE  SteadyCoherent'
<1>0. /\ UNCHANGED <<worldVars, shutdown, active, steady, server, todo>> /\ ~shutdown
      /\ pc = "scan" /\ pc' = "scan"
      /\ ScanFits /\ scan \in ScanRecord
      /\ \A i \in steady : Undisturbed(i) /\ i \in Instances
  BY DEF ReadTable, Probe, ProbeListeners, ProbeRegistrations, Report, ScanFails, ScanStep, historyVars,
         SteadyCoherent, TypeOK, ScanRecord
<1>1. CASE ReadTable(b)
  <2>1. /\ scan.state[b] = "waiting"
        /\ scan' = [scan EXCEPT !.state[b] = "read", !.rows[b] = Table(b)]
    BY <1>1 DEF ReadTable
  <2>2. /\ scan'.found = scan.found /\ scan'.secret = scan.secret
        /\ scan'.rows[b] = Table(b) /\ scan'.state[b] = "read"
        /\ \A d \in Backends \ {b} : scan'.rows[d] = scan.rows[d] /\ scan'.state[d] = scan.state[d]
    BY <1>0, <2>1 DEF ScanRecord
  <2>3. ScanFits'
    <3>1. \A row \in Table(b) : Backend(row[1]) = b
      BY DEF Table
    <3>2. scan.found[b] = {}
      BY <1>0, <2>1 DEF ScanFits
    <3> QED BY <1>0, <2>2, <3>1, <3>2 DEF ScanFits
  <2>4. ASSUME NEW i \in steady PROVE ScannedWhole(i)'
    <3>1. Backend(i) = b => \E row \in Table(b) : row[1] = i
      <4> SUFFICES ASSUME Backend(i) = b PROVE \E row \in Table(b) : row[1] = i
        OBVIOUS
      <4>1. i \in Listening
        BY <1>0, <2>4 DEF Undisturbed, Listening
      <4>2. <<i, secret[i]>> \in Table(b)
        BY <4>1 DEF Table
      <4>3. <<i, secret[i]>>[1] = i
        OBVIOUS
      <4> QED BY <4>2, <4>3
    <3>2. Backend(i) \in Backends
      BY DEF Backend, Backends
    <3>3. ScannedWhole(i) /\ secret' = secret
      BY <1>0, <2>4 DEF Undisturbed, worldVars
    <3> QED BY <2>2, <3>1, <3>2, <3>3 DEF ScannedWhole
  <2> QED BY <1>0, <2>3, <2>4 DEF SteadyCoherent, Undisturbed, worldVars, Listening
<1>2. CASE Probe(b)
  <2>1. PICK found : found = Unique(Healthy(b)) /\ Report(b, found)
    BY <1>2 DEF Probe, ProbeListeners, ProbeRegistrations
  <2>2. /\ scan.state[b] = "read"
        /\ scan' = [scan EXCEPT !.state[b] = "probed", !.found[b] = found,
                                !.secret = [i \in Instances |->
                                   IF Backend(i) = b THEN secret[i] ELSE scan.secret[i]]]
    BY <2>1 DEF Report
  <2>3. /\ scan'.rows = scan.rows /\ scan'.state[b] = "probed" /\ scan'.found[b] = found
        /\ \A d \in Backends \ {b} : scan'.found[d] = scan.found[d] /\ scan'.state[d] = scan.state[d]
        /\ \A i \in Instances : scan'.secret[i] = IF Backend(i) = b THEN secret[i] ELSE scan.secret[i]
    BY <1>0, <2>2 DEF ScanRecord
  <2>4. \A j \in found : j \in Instances /\ world[j] = "up" /\ Backend(j) = b
    <3>1. \A j \in found : j \in Instances /\ world[j] = "up" /\ \E row \in scan.rows[b] : row[1] = j
      BY <2>1 DEF Unique, Healthy
    <3> QED BY <1>0, <3>1 DEF ScanFits
  <2>5. ScanFits'
    BY <1>0, <2>3, <2>4 DEF ScanFits
  <2>6. ASSUME NEW i \in steady PROVE ScannedWhole(i)'
    <3>1. /\ ScannedWhole(i) /\ secret' = secret /\ i \in Instances
          /\ world[i] = "up" /\ Rivals(i) \cap Listening = {}
      BY <1>0, <2>6 DEF Undisturbed, worldVars
    <3>2. found \cap Rivals(i) = {}
      BY <2>4, <3>1 DEF Listening
    <3>3. Backend(i) = b => i \in found
      <4> SUFFICES ASSUME Backend(i) = b PROVE i \in found
        OBVIOUS
      <4>1. i \in Healthy(b)
        BY <2>2, <3>1 DEF ScannedWhole, Healthy
      <4>2. ASSUME NEW j \in Healthy(b), SameEndpoint(i, j) PROVE i = j
        <5>1. j \in Instances /\ world[j] = "up" /\ Backend(j) = b
          BY <1>0 DEF Healthy, ScanFits
        <5>2. i \in Managed => j \in Managed
          BY <5>1 DEF Backend
        <5> QED BY <3>1, <4>2, <5>1, <5>2 DEF Rivals, Listening
      <4> QED BY <2>1, <4>1, <4>2 DEF Unique
    <3>4. Backend(i) \in Backends
      BY DEF Backend, Backends
    <3>5. \A d \in Backends : scan'.found[d] \cap Rivals(i) = {}
      BY <2>3, <3>1, <3>2 DEF ScannedWhole
    <3>6. CASE Backend(i) = b
      <4>1. \E row \in scan.rows[b] : row[1] = i
        BY <2>2, <3>1, <3>6 DEF ScannedWhole
      <4> QED BY <2>3, <3>1, <3>3, <3>5, <3>6, <4>1 DEF ScannedWhole, Rivals, SameEndpoint
    <3>7. CASE Backend(i) # b
      BY <2>3, <3>1, <3>4, <3>5, <3>7 DEF ScannedWhole, Rivals, SameEndpoint
    <3> QED BY <3>6, <3>7
  <2> QED BY <1>0, <2>5, <2>6 DEF SteadyCoherent, Undisturbed, worldVars, Listening
<1>3. CASE ScanFails(b)
  <2>1. /\ scan.state[b] \in {"waiting", "read"}
        /\ scan' = [scan EXCEPT !.state[b] = "failed", !.rows[b] = {}]
    BY <1>3 DEF ScanFails
  <2>2. /\ scan'.found = scan.found /\ scan'.secret = scan.secret
        /\ scan'.rows[b] = {} /\ scan'.state[b] = "failed"
        /\ \A d \in Backends \ {b} : scan'.rows[d] = scan.rows[d] /\ scan'.state[d] = scan.state[d]
    BY <1>0, <2>1 DEF ScanRecord
  <2>3. ScanFits'
    BY <1>0, <2>1, <2>2 DEF ScanFits
  <2>4. ASSUME NEW i \in steady PROVE ScannedWhole(i)'
    <3>1. ScannedWhole(i) /\ secret' = secret /\ Backend(i) \in Backends
      BY <1>0, <2>4 DEF Undisturbed, worldVars, Backend, Backends
    <3> QED BY <2>2, <3>1 DEF ScannedWhole
  <2> QED BY <1>0, <2>3, <2>4 DEF SteadyCoherent, Undisturbed, worldVars, Listening
<1> QED BY <1>1, <1>2, <1>3

\* The merge finds an undisturbed server unless its backend failed, and finds
\* nothing that would replace it.
LEMMA MergeKeeps ==
  ASSUME ScanFits, pc \in {"scan", "replace"}, scan \in ScanRecord,
         \A b \in Backends : scan.state[b] \in {"probed", "failed"},
         NEW i \in Instances, Undisturbed(i)
  PROVE  /\ i \in Found \/ Backend(i) \in Incomplete
         /\ i \notin Replaced
<1> DEFINE found == scan.found
<1>1. /\ \A b \in Backends : \A j \in found[b] :
           Backend(j) = b /\ scan.state[b] = "probed" /\ j \in Instances
      /\ \A b \in Backends : found[b] \cap Rivals(i) = {}
      /\ scan.state[Backend(i)] = "probed" => i \in found[Backend(i)] /\ scan.secret[i] = secret[i]
  BY DEF ScanFits, Undisturbed, ScannedWhole, ScanRecord
<1>2. Backends = {"procfs", "managed"}
  BY DEF Backends
<1>3. \A j \in found["managed"] : j \in Managed
  BY <1>1, <1>2 DEF Backend
<1>4. Backend(i) = IF i \in Managed THEN "managed" ELSE "procfs"
  BY DEF Backend
<1>5. \A j \in found["managed"] : j # i => ~SameEndpoint(i, j)
  BY <1>1, <1>2, <1>3 DEF Rivals
<1>6. scan.state[Backend(i)] = "probed" => i \in Found
  <2>1. CASE i \in Managed
    BY <1>1, <1>4, <2>1 DEF Found, Merged
  <2>2. CASE i \notin Managed
    BY <1>1, <1>3, <1>4, <1>5, <2>2 DEF Found, Merged
  <2> QED BY <2>1, <2>2
<1>7. scan.state[Backend(i)] = "failed" => Backend(i) \in Incomplete
  BY <1>2, <1>4 DEF Incomplete
<1>8. i \notin Replaced
  <2> SUFFICES ASSUME NEW j \in Found,
                      \/ i = j /\ scan.secret[j] # server[i].secret
                      \/ /\ i # j /\ SameEndpoint(i, j)
                         /\ j \in Managed \/ Backend(i) \notin Incomplete
               PROVE  FALSE
    BY DEF Replaced
  <2>1. PICK b \in Backends : j \in found[b]
    BY <1>2 DEF Found, Merged
  <2>2. CASE i = j
    BY <1>1, <2>1, <2>2 DEF Undisturbed
  <2>3. CASE i # j
    <3>1. SameEndpoint(i, j) /\ j \in Instances /\ j \notin Rivals(i)
      BY <1>1, <2>1, <2>3
    <3>2. i \in Managed /\ j \notin Managed
      BY <2>3, <3>1 DEF Rivals
    <3>3. j \notin found["managed"] /\ j \in found["procfs"]
      BY <1>2, <1>3, <2>1, <3>2
    <3>4. scan.state["managed"] = "probed"
      BY <1>2, <1>4, <1>7, <2>3, <3>2
    <3>5. i \in found["managed"]
      BY <1>1, <1>4, <3>2, <3>4
    <3> QED BY <3>1, <3>3, <3>5 DEF Found, Merged, SameEndpoint
  <2> QED BY <2>2, <2>3
<1> QED BY <1>2, <1>4, <1>6, <1>7, <1>8

\* What a task does touches neither the misses nor the credentials.
LEMMA TaskSteady ==
  ASSUME TypeOK, SteadyCoherent, NEW i \in Instances, TaskAction(i)
  PROVE  SteadyCoherent'
<1>0. server \in [Instances -> ServerRecords] /\ steady \in SUBSET Instances
  BY DEF TypeOK, ServerRecords
<1>1. /\ UNCHANGED <<worldVars, shutdown, passVars, steady>>
      /\ \A j \in Instances :
           server'[j].misses = server[j].misses /\ server'[j].secret = server[j].secret
  BY <1>0 DEF TaskAction, TaskStarts, TaskEmits, TaskDisconnects, TaskReports, TaskReconnects, TaskEnds,
              TaskStep, ServerRecords
<1>2. \A j \in steady : Undisturbed(j) => (pc \in {"replace", "remove"} => j \notin todo)
  BY DEF Undisturbed
<1>3. ~shutdown => pc \notin {"drain", "stopped"}
  BY DEF SteadyCoherent, ScanFits
<1> QED BY <1>0, <1>1, <1>2, <1>3, SteadyFrame DEF passVars

\* The parts of a pass that handle all servers.
LEMMA PassSteady ==
  ASSUME TypeOK, SteadyCoherent,
         BeginPass \/ PassFails \/ Merge \/ CountMisses \/ Admitted \/ Publish \/ Break \/ Drained
  PROVE  SteadyCoherent'
<1>0. /\ server \in [Instances -> ServerRecords] /\ steady \in SUBSET Instances
      /\ scan \in ScanRecord
      /\ ~shutdown => ScanFits /\ pc \notin {"drain", "stopped"}
      /\ ~shutdown => \A i \in steady : Undisturbed(i)
  BY DEF TypeOK, ServerRecords, ScanRecord, SteadyCoherent, ScanFits
<1>1. CASE BeginPass
  <2>1. /\ UNCHANGED <<worldVars, shutdown, active, steady, server>>
        /\ pc' = "scan" /\ scan' = NoScan
    BY <1>1 DEF BeginPass, historyVars
  <2>2. CASE shutdown
    BY <2>1, <2>2 DEF SteadyCoherent
  <2>3. CASE ~shutdown
    <3>1. ScanFits'
      BY <2>1 DEF ScanFits, NoScan, EmptyFingerprint
    <3>2. ASSUME NEW i \in steady PROVE Undisturbed(i)'
      <4>1. ScannedWhole(i)'
        BY <2>1 DEF ScannedWhole, NoScan, Backend, Backends
      <4> QED BY <1>0, <2>1, <2>3, <3>2, <4>1 DEF Undisturbed, Listening, worldVars
    <3> QED BY <2>1, <3>1, <3>2 DEF SteadyCoherent
  <2> QED BY <2>2, <2>3
<1>2. CASE PassFails
  <2>1. UNCHANGED <<worldVars, shutdown, scan, active, steady, server>> /\ pc' = "select"
    BY <1>2 DEF PassFails, ScanStep, historyVars
  <2> QED BY <2>1, SteadyFrame
<1>3. CASE Merge
  <2>1. /\ UNCHANGED <<worldVars, shutdown, scan, active, steady, server>> /\ ~shutdown
        /\ pc = "scan" /\ pc' = "replace" /\ todo' = Replaced
        /\ \A b \in Backends : scan.state[b] \in {"probed", "failed"}
    BY <1>3 DEF Merge, ScanStep, historyVars
  <2>2. ScanFits'
    BY <1>0, <2>1 DEF ScanFits
  <2>3. ASSUME NEW i \in steady PROVE Undisturbed(i)'
    <3>1. Undisturbed(i) /\ i \notin Replaced
      BY <1>0, <2>1, <2>3, MergeKeeps
    <3>2. ScannedWhole(i)
      BY <2>1, <3>1 DEF Undisturbed
    <3>3. ScannedWhole(i)'
      BY <2>1, <3>2 DEF ScannedWhole, worldVars
    <3> QED BY <2>1, <3>1, <3>3 DEF Undisturbed, Listening, worldVars
  <2> QED BY <2>1, <2>2, <2>3 DEF SteadyCoherent
<1>4. CASE CountMisses
  <2>1. /\ UNCHANGED <<worldVars, shutdown, scan, active, steady>> /\ ~shutdown
        /\ pc = "replace" /\ pc' = "admit"
        /\ server' = [i \in Instances |->
             IF i \notin active \/ (i \notin Found /\ Backend(i) \in Incomplete) THEN server[i]
             ELSE [server[i] EXCEPT !.misses =
                     IF i \in Found THEN 0
                     ELSE IF i \in Managed THEN 2
                     ELSE IF @ = 255 THEN 255 ELSE @ + 1]]
    BY <1>4 DEF CountMisses, historyVars
  <2>2. ASSUME NEW i \in steady
        PROVE  server'[i].secret = server[i].secret /\ (server[i].misses = 0 => server'[i].misses = 0)
    <3>1. i \in Instances /\ server[i] \in ServerRecords
      BY <1>0, <2>2
    <3>2. i \in Found \/ Backend(i) \in Incomplete
      BY <1>0, <2>1, <2>2, <3>1, MergeKeeps DEF ScanFits
    <3>3. server'[i] = IF i \notin active \/ i \notin Found THEN server[i]
                       ELSE [server[i] EXCEPT !.misses = 0]
      BY <2>1, <3>1, <3>2
    <3> QED BY <3>1, <3>3 DEF ServerRecords
  <2> QED BY <2>1, <2>2, SteadyFrame
<1>5. CASE Admitted
  <2>1. /\ UNCHANGED <<worldVars, shutdown, scan, active, steady, server>>
        /\ pc' = "remove" /\ todo' = {i \in active : server[i].misses >= 2}
    BY <1>5 DEF Admitted, historyVars
  <2>2. \A i \in steady : Undisturbed(i) => i \notin todo'
    BY <2>1 DEF Undisturbed
  <2> QED BY <2>1, <2>2, SteadyFrame
<1>6. CASE Publish
  <2>1. /\ UNCHANGED <<worldVars, shutdown, active, steady>> /\ ~shutdown /\ pc' = "select"
        /\ \A i \in Instances :
             server'[i].misses = server[i].misses /\ server'[i].secret = server[i].secret
    BY <1>0, <1>6 DEF Publish, ServerRecords
  <2>2. ScanFits'
    BY <2>1 DEF ScanFits
  <2>3. ASSUME NEW i \in steady PROVE Undisturbed(i)'
    BY <1>0, <2>1, <2>3 DEF Undisturbed, Listening, worldVars
  <2> QED BY <2>1, <2>2, <2>3 DEF SteadyCoherent
<1>7. CASE Break
  BY <1>7 DEF Break, SteadyCoherent
<1>8. CASE Drained
  BY <1>0, <1>8 DEF Drained, SteadyCoherent
<1> QED BY <1>1, <1>2, <1>3, <1>4, <1>5, <1>6, <1>7, <1>8

\* The parts of a pass that handle one server.
LEMMA EntrySteady ==
  ASSUME TypeOK, MapCoherent, SteadyCoherent, NEW i \in Instances,
         StopServer(i) \/ PassOver(i) \/ Admit(i)
  PROVE  SteadyCoherent'
<1>0. /\ server \in [Instances -> ServerRecords] /\ steady \in SUBSET Instances
      /\ ~shutdown => ScanFits /\ pc \notin {"drain", "stopped"}
      /\ ~shutdown => \A j \in steady : Undisturbed(j)
  BY DEF TypeOK, ServerRecords, SteadyCoherent, ScanFits
<1>1. CASE StopServer(i)
  <2>1. /\ UNCHANGED <<worldVars, shutdown, pc, scan, steady>>
        /\ active' = active \ {i} /\ todo' = todo \ {i}
        /\ \A j \in Instances :
             server'[j].misses = server[j].misses /\ server'[j].secret = server[j].secret
    BY <1>0, <1>1 DEF StopServer, historyVars, ServerRecords
  <2>2. CASE shutdown
    BY <2>1, <2>2 DEF SteadyCoherent
  <2>3. CASE ~shutdown
    <3>1. i \notin steady
      BY <1>0, <1>1, <2>3 DEF StopServer, Undisturbed
    <3>2. \A j \in steady : Undisturbed(j) /\ pc' \in {"replace", "remove"} => j \notin todo'
      BY <2>1 DEF Undisturbed
    <3> QED BY <1>0, <2>1, <2>3, <3>1, <3>2, SteadyFrame
  <2> QED BY <2>2, <2>3
<1>2. CASE PassOver(i)
  BY <1>2, SteadyFrame DEF PassOver, historyVars
<1>3. CASE Admit(i)
  <2>1. /\ UNCHANGED <<worldVars, shutdown, pc, scan>> /\ pc = "admit" /\ ~shutdown
        /\ active' = active \cup {i}
        /\ \A j \in Instances \ {i} : server'[j] = server[j]
        /\ server'[i].misses = 0 /\ server'[i].secret = scan.secret[i]
        /\ steady' = IF /\ world[i] = "up" /\ secret[i] = scan.secret[i]
                        /\ Rivals(i) \cap Listening = {}
                     THEN steady \cup {i} ELSE steady
    BY <1>0, <1>3 DEF Admit, NoServer
  <2>2. i \notin active
    BY <1>3 DEF Admit, EndpointActive, SameEndpoint
  <2>3. i \notin steady
    BY <1>0, <2>1, <2>2 DEF Undisturbed
  <2>4. ScanFits'
    BY <2>1 DEF ScanFits
  <2>5. ASSUME NEW j \in steady PROVE Undisturbed(j)'
    BY <1>0, <2>1, <2>3, <2>5 DEF Undisturbed, Listening, worldVars
  <2>6. i \in steady' => Undisturbed(i)'
    BY <2>1, <2>3 DEF Undisturbed, Listening, worldVars
  <2> QED BY <2>1, <2>4, <2>5, <2>6 DEF SteadyCoherent
<1> QED BY <1>1, <1>2, <1>3

\* The server whose task has ended was disturbed, or the monitor stops.
LEMMA JoinedSteady ==
  ASSUME TypeOK, MapCoherent, SteadyCoherent, Joined
  PROVE  /\ SteadyCoherent'
         /\ \A i \in published \ published' : i \notin steady
<1>0. /\ server \in [Instances -> ServerRecords] /\ steady \in SUBSET Instances
      /\ stopping \in Instances /\ stopping \notin active
      /\ ~shutdown => ScanFits /\ pc \notin {"drain", "stopped"}
      /\ ~shutdown => \A j \in steady : Undisturbed(j)
  BY DEF TypeOK, ServerRecords, SteadyCoherent, ScanFits, MapCoherent, Joined
<1>1. CASE shutdown
  BY <1>1 DEF Joined, historyVars, SteadyCoherent
<1>2. CASE ~shutdown
  <2>1. /\ UNCHANGED <<worldVars, shutdown, pc, todo, scan, active>>
        /\ published' = published \ {stopping} /\ steady' = steady \ {stopping}
        /\ \A j \in Instances \ {stopping} : server'[j] = server[j]
    BY <1>0, <1>2 DEF Joined
  <2>2. stopping \notin steady
    BY <1>0, <1>2 DEF Undisturbed
  <2>3. \A j \in steady : Undisturbed(j) /\ pc' \in {"replace", "remove"} => j \notin todo'
    BY <2>1 DEF Undisturbed
  <2>4. SteadyCoherent'
    BY <1>0, <1>2, <2>1, <2>2, <2>3, SteadyFrame
  <2> QED BY <2>1, <2>2, <2>4
<1> QED BY <1>1, <1>2

\* No other step takes a server from what is announced.
LEMMA OthersAnnounced ==
  ASSUME [Next]_vars, ~Joined
  PROVE  published \subseteq published'
<1>1. CASE WorldStep
  BY <1>1 DEF WorldStep, Appear, Recover, Sicken, Depart, Rotate, Disturb, Receive, RequestResync, Shutdown,
              historyVars
<1>2. CASE \E i \in Instances : TaskAction(i)
  BY <1>2 DEF TaskAction, TaskStarts, TaskEmits, TaskDisconnects, TaskReports, TaskReconnects, TaskEnds, TaskStep
<1>3. CASE Noticed \/ GateFails \/ FullTick
  BY <1>3 DEF Noticed, GateTick, ResyncChanged, TriggerChanged, SettlingElapsed, GateFails, FullTick, Pend,
              historyVars
<1>4. CASE \/ BeginPass \/ PassFails \/ Merge \/ CountMisses \/ Admitted \/ Publish \/ Break \/ Drained
           \/ \E i \in Instances : StopServer(i) \/ PassOver(i) \/ Admit(i)
  BY <1>4 DEF BeginPass, PassFails, Merge, CountMisses, Admitted, Publish, Break, Drained, StopServer, PassOver,
              Admit, ScanStep, historyVars
<1>5. CASE \E b \in Backends : ReadTable(b) \/ Probe(b) \/ ScanFails(b)
  BY <1>5 DEF ReadTable, Probe, ProbeListeners, ProbeRegistrations, Report, ScanFails, ScanStep, historyVars
<1>6. CASE UNCHANGED vars
  BY <1>6 DEF vars, historyVars
<1> QED BY <1>1, <1>2, <1>3, <1>4, <1>5, <1>6 DEF Next, PassStep, SendStep, Rest

\* What a pass has read of the undisturbed servers stays right.
LEMMA SteadyStaysCoherent == Spec => []SteadyCoherent
<1>1. Init => SteadyCoherent
  BY DEF Init, SteadyCoherent, ScanFits
<1>2. TypeOK /\ MapCoherent /\ SteadyCoherent /\ [Next]_vars => SteadyCoherent'
  <2> SUFFICES ASSUME TypeOK, MapCoherent, SteadyCoherent, [Next]_vars PROVE SteadyCoherent'
    OBVIOUS
  <2>1. ASSUME UNCHANGED <<worldVars, shutdown, passVars, server, steady>> PROVE SteadyCoherent'
    <3>1. \A j \in steady : Undisturbed(j) /\ pc' \in {"replace", "remove"} => j \notin todo'
      BY <2>1 DEF Undisturbed, passVars
    <3>2. ~shutdown => pc \notin {"drain", "stopped"}
      BY DEF SteadyCoherent, ScanFits
    <3> QED BY <2>1, <3>1, <3>2, SteadyFrame DEF passVars
  <2>2. ASSUME NEW i \in Instances, Appear(i) \/ Recover(i) \/ Sicken(i) \/ Depart(i) \/ Rotate(i)
        PROVE  SteadyCoherent'
    BY <2>2, WorldSteady DEF Appear, Recover, Sicken, Depart, Rotate
  <2>3. CASE Receive \/ RequestResync \/ Noticed \/ GateFails \/ FullTick \/ UNCHANGED vars
    BY <2>1, <2>3 DEF Receive, RequestResync, Noticed, GateTick, ResyncChanged, TriggerChanged, SettlingElapsed,
                      GateFails, FullTick, Pend, vars, historyVars
  <2>4. CASE Shutdown
    BY <2>4 DEF Shutdown, SteadyCoherent
  <2>5. CASE \E i \in Instances : TaskAction(i)
    BY <2>5, TaskSteady
  <2>6. CASE \/ BeginPass \/ PassFails \/ Merge \/ CountMisses \/ Admitted \/ Publish \/ Break \/ Drained
    BY <2>6, PassSteady
  <2>7. CASE \E b \in Backends : ReadTable(b) \/ Probe(b) \/ ScanFails(b)
    BY <2>7, ScanSteady
  <2>8. CASE \E i \in Instances : StopServer(i) \/ PassOver(i) \/ Admit(i)
    BY <2>8, EntrySteady
  <2>9. CASE Joined
    BY <2>9, JoinedSteady
  <2> QED BY <2>2, <2>3, <2>4, <2>5, <2>6, <2>7, <2>8, <2>9 DEF Next, WorldStep, PassStep, SendStep, Rest
<1> QED BY <1>1, <1>2, TypeCorrect, MapStaysCoherent, PTL DEF Spec

\* A server that nothing happened to since it was found is never removed,
\* whatever scans fail, passes are requested and connections break.
THEOREM SteadyStay == Spec => SteadyNeverRemoved
<1>1. /\ TypeOK /\ MapCoherent /\ SteadyCoherent /\ [Next]_vars
      => [\A i \in published \ published' : i \notin steady]_vars
  <2> SUFFICES ASSUME TypeOK, MapCoherent, SteadyCoherent, [Next]_vars
               PROVE  \A i \in published \ published' : i \notin steady
    OBVIOUS
  <2> QED BY JoinedSteady, OthersAnnounced
<1> QED BY <1>1, TypeCorrect, MapStaysCoherent, SteadyStaysCoherent, PTL DEF Spec, SteadyNeverRemoved
=============================================================================
