------------------------- MODULE ClaudeMonitor_proofs -------------------------
(***************************************************************************)
(* Proofs about ClaudeMonitor, for every set of process and session IDs    *)
(* and every bound.                                                        *)
(*                                                                         *)
(* A session is removed only with cause: an entry never has more misses    *)
(* than complete scans in a row were without its process (IInv).           *)
(*                                                                         *)
(* What the dashboard shows is what the tracker retains, up to the events  *)
(* on their way: for each key the last of these says what the map says, or *)
(* there is none and its row says so already (Settled); and a key is shown *)
(* only after the row of any other session of its process ID is removed    *)
(* (OneAtATime).  A session is armed as long as it owes an announcement    *)
(* (ArmedSound).  All of it is MonitorInv.                                 *)
(*                                                                         *)
(* What FlattenSeq computes is proved by induction over the number of the  *)
(* sequences, which the theorems on finite sets allow: NatClosed.          *)
(***************************************************************************)
EXTENDS ClaudeMonitor, FiniteSetTheorems, TLAPS

\* The part of the type invariant that the tracker depends on.
InputType ==
  /\ births \in [Pids -> 0 .. MaxStarts]
  /\ \A p \in alive : p \in Pids /\ births[p] >= 1
  /\ marker \in [Pids -> Markers \cup {None}]
  /\ observed \subseteq ObservedSession

MapType ==
  /\ DOMAIN sessions \subseteq Key
  /\ \A k \in DOMAIN sessions :
       sessions[k] \in RetainedSession /\ sessions[k].observed.key = k
  /\ lapses \in [Pids -> 0 .. 2]

MissesCounted == \A k \in DOMAIN sessions : sessions[k].misses <= lapses[k.pid]

IInv == InputType /\ MapType /\ MissesCounted

-----------------------------------------------------------------------------
(* What the scan reads.                                                    *)

LEMMA SightType ==
  ASSUME InputType, NEW p \in Pids PROVE Sight(p) \subseteq ObservedSession
<1> SUFFICES ASSUME NEW o \in Sight(p) PROVE o \in ObservedSession
  OBVIOUS
<1>1. p \in alive /\ marker[p] # None
  BY DEF Sight
<1>2. o = [key |-> [pid |-> p, start |-> births[p]], sid |-> marker[p].sid,
           tty |-> p \in tty, status |-> marker[p].status]
  BY DEF Sight
<1>3. marker[p] \in Markers
  BY <1>1 DEF InputType
<1>4. marker[p].sid \in SessionIds /\ marker[p].status \in Statuses
  BY <1>3 DEF Markers
<1>5. births[p] \in 1 .. MaxStarts
  BY <1>1, TrackerAssumption DEF InputType
<1>6. [pid |-> p, start |-> births[p]] \in Key
  BY <1>5 DEF Key
<1>7. (p \in tty) \in BOOLEAN
  OBVIOUS
<1> QED BY <1>2, <1>4, <1>6, <1>7 DEF ObservedSession

LEMMA InputTypePreserved == ASSUME InputType, [Next]_vars PROVE InputType'
<1>1. ASSUME NEW p \in Pids, Change(p) PROVE InputType'
  <2>1. CASE Start(p)
    <3>1. births[p] + 1 \in 0 .. MaxStarts /\ births[p] + 1 >= 1
      BY <2>1, TrackerAssumption DEF Start, InputType
    <3>2. births' \in [Pids -> 0 .. MaxStarts]
      BY <2>1, <3>1 DEF Start, InputType
    <3>3. \A q \in alive' : q \in Pids /\ births'[q] >= 1
      BY <2>1, <3>1 DEF Start, InputType
    <3> QED BY <2>1, <3>2, <3>3 DEF Start, InputType, WorldStep, loopVars
  <2>2. CASE Exit(p)
    <3>1. marker' \in [Pids -> Markers \cup {None}]
      BY <2>2 DEF Exit, InputType
    <3> QED BY <2>2, <3>1 DEF Exit, InputType, WorldStep, loopVars
  <2>3. CASE LoseTerminal(p)
    BY <2>3 DEF LoseTerminal, InputType, WorldStep, loopVars
  <2>4. ASSUME NEW m \in Markers, WriteMarker(p, m) PROVE InputType'
    BY <2>4 DEF WriteMarker, InputType, WorldStep, loopVars
  <2> QED BY <1>1, <2>1, <2>2, <2>3, <2>4 DEF Change
<1>2. ASSUME NEW p \in Pids, ReadMarker(p) PROVE InputType'
  BY <1>2, SightType DEF ReadMarker, LoopStep, worldVars, InputType
<1>3. CASE Shutdown
  BY <1>3 DEF Shutdown, worldVars, loopVars, InputType
<1>4. CASE Tick \/ Scanned \/ Send \/ Sent \/ Stop \/ ScanFails
  BY <1>4 DEF Tick, Scanned, Send, Sent, Stop, ScanFails, LoopStep, worldVars, InputType
<1>5. CASE Receive \/ (\E k \in DOMAIN rows : Dismiss(k) \/ Restore(k))
  BY <1>5 DEF Receive, Dismiss, Restore, ViewStep, worldVars, loopVars, InputType
<1>6. CASE Rest \/ UNCHANGED vars
  BY <1>6 DEF Rest, vars, worldVars, loopVars, InputType
<1> QED BY <1>1, <1>2, <1>3, <1>4, <1>5, <1>6 DEF Next, Loop

-----------------------------------------------------------------------------
(* What a complete scan does to the map.                                   *)

\* The entries after a scan are retained sessions, with no more misses than
\* complete scans in a row were without their processes.
LEMMA FreshType == ASSUME NEW o \in ObservedSession PROVE Fresh(o) \in RetainedSession
<1>1. (o.status \in Working) \in BOOLEAN
  OBVIOUS
<1> QED BY <1>1 DEF Fresh, RetainedSession

LEMMA UpdateType ==
  ASSUME NEW r \in RetainedSession, NEW o \in ObservedSession
  PROVE  /\ Update(r, o) \in RetainedSession
         /\ Update(r, o).misses = 0 /\ Update(r, o).observed = o
<1>1. CASE r.observed.sid # o.sid
  BY <1>1, FreshType DEF Update, Fresh
<1>2. CASE r.observed.sid = o.sid
  <2>1. Rearmed(r, o) \in BOOLEAN
    BY DEF Rearmed, RetainedSession
  <2>2. Update(r, o) = [observed |-> o, misses |-> 0, armed |-> Rearmed(r, o), stale |-> FALSE]
    BY <1>2 DEF Update
  <2> QED BY <2>1, <2>2 DEF RetainedSession
<1> QED BY <1>1, <1>2

\* A missing entry that is not removed has missed one scan now.
LEMMA MissedType ==
  ASSUME NEW r \in RetainedSession, ~(Missed(r).misses >= 2)
  PROVE  Missed(r) \in RetainedSession /\ Missed(r).misses = 1 /\ Missed(r).observed = r.observed
<1>1. Missed(r).misses = r.misses + 1 /\ Missed(r).observed = r.observed
  BY DEF Missed, RetainedSession
<1>2. r.misses = 0
  BY <1>1 DEF RetainedSession
<1>3. [r EXCEPT !.misses = 1] \in RetainedSession
  BY DEF RetainedSession
<1>4. Missed(r) = [[r EXCEPT !.misses = 1] EXCEPT !.stale = TRUE]
  BY <1>2 DEF Missed, RetainedSession
<1>5. Missed(r) \in RetainedSession
  BY <1>3, <1>4 DEF RetainedSession
<1> QED BY <1>1, <1>2, <1>5

\* No session was read of the process ID of a missing entry.
LEMMA MissingUnseen ==
  ASSUME NEW k \in Missing(sessions, observed)
  PROVE  ~ \E o \in observed : o.key.pid = k.pid
BY DEF Missing, Replaced, SeenKeys

\* What becomes of each entry.
LEMMA AfterSuccessCases ==
  ASSUME NEW k \in DOMAIN AfterSuccess(sessions, observed)
  PROVE  LET r == AfterSuccess(sessions, observed)[k]
         IN  \/ /\ k \in Missing(sessions, observed) \ Lost(sessions, observed)
                /\ r = Missed(sessions[k])
             \/ \E o \in observed : /\ o.key = k
                                    /\ \/ k \in DOMAIN sessions /\ r = Update(sessions[k], o)
                                       \/ k \notin DOMAIN sessions /\ r = Fresh(o)
<1> DEFINE kept == DOMAIN sessions \ (Replaced(sessions, observed) \cup Lost(sessions, observed))
           sight(j) == CHOOSE o \in observed : o.key = j
<1>1. k \in kept \cup SeenKeys(observed)
  BY DEF AfterSuccess
<1>2. CASE k \notin SeenKeys(observed)
  <2>1. k \in Missing(sessions, observed) \ Lost(sessions, observed)
    BY <1>1, <1>2 DEF Missing
  <2>2. AfterSuccess(sessions, observed)[k] = Missed(sessions[k])
    BY <1>1, <1>2 DEF AfterSuccess
  <2> QED BY <2>1, <2>2
<1>3. CASE k \in SeenKeys(observed)
  <2>1. sight(k) \in observed /\ sight(k).key = k
    BY <1>3 DEF SeenKeys
  <2>2. AfterSuccess(sessions, observed)[k] =
          IF k \in DOMAIN sessions THEN Update(sessions[k], sight(k)) ELSE Fresh(sight(k))
    BY <1>1, <1>3 DEF AfterSuccess
  <2> QED BY <2>1, <2>2
<1> QED BY <1>2, <1>3

LEMMA ScannedPreserves == ASSUME IInv, Scanned PROVE MapType' /\ MissesCounted'
<1> DEFINE seen(p) == \E o \in observed : o.key.pid = p
           Sound(k) == /\ sessions'[k] \in RetainedSession
                       /\ sessions'[k].observed.key = k
                       /\ sessions'[k].misses <= lapses'[k.pid]
<1>1. /\ sessions' = AfterSuccess(sessions, observed)
      /\ lapses' = [p \in Pids |-> IF seen(p) THEN 0
                                   ELSE IF lapses[p] < 2 THEN lapses[p] + 1 ELSE 2]
  BY DEF Scanned
<1>2. lapses' \in [Pids -> 0 .. 2]
  BY <1>1 DEF IInv, MapType
<1>3. DOMAIN sessions' \subseteq Key
  BY <1>1 DEF AfterSuccess, SeenKeys, IInv, MapType, InputType, ObservedSession
<1>4. ASSUME NEW k \in DOMAIN sessions'
      PROVE  Sound(k)
  <2>1. k \in Key /\ lapses'[k.pid] \in 0 .. 2
    BY <1>2, <1>3 DEF Key
  <2>2. CASE /\ k \in Missing(sessions, observed) \ Lost(sessions, observed)
             /\ sessions'[k] = Missed(sessions[k])
    <3>1. k \in DOMAIN sessions /\ ~(Missed(sessions[k]).misses >= 2)
      BY <2>2 DEF Missing, Lost
    <3>2. sessions[k] \in RetainedSession /\ sessions[k].observed.key = k
      BY <3>1 DEF IInv, MapType
    <3>3. /\ sessions'[k] \in RetainedSession /\ sessions'[k].misses = 1
          /\ sessions'[k].observed.key = k
      BY <2>2, <3>1, <3>2, MissedType
    <3>4. ~ seen(k.pid)
      BY <2>2, MissingUnseen
    <3>5. k.pid \in Pids /\ lapses[k.pid] \in 0 .. 2
      BY <2>1 DEF Key, IInv, MapType
    <3>6. lapses'[k.pid] >= 1
      BY <1>1, <3>4, <3>5
    <3> QED BY <3>3, <3>6, <2>1
  <2>3. ASSUME NEW o \in observed, o.key = k, k \in DOMAIN sessions,
               sessions'[k] = Update(sessions[k], o)
        PROVE  Sound(k)
    <3>1. sessions[k] \in RetainedSession /\ o \in ObservedSession
      BY <2>3 DEF IInv, MapType, InputType
    <3>2. /\ sessions'[k] \in RetainedSession /\ sessions'[k].misses = 0
          /\ sessions'[k].observed.key = k
      BY <2>3, <3>1, UpdateType
    <3> QED BY <3>2, <2>1
  <2>4. ASSUME NEW o \in observed, o.key = k, sessions'[k] = Fresh(o)
        PROVE  Sound(k)
    <3>1. sessions'[k] \in RetainedSession
      BY <2>4, FreshType DEF IInv, InputType
    <3>2. sessions'[k].misses = 0 /\ sessions'[k].observed.key = k
      BY <2>4 DEF Fresh
    <3> QED BY <3>1, <3>2, <2>1
  <2> QED BY <1>1, <2>2, <2>3, <2>4, AfterSuccessCases
<1> QED BY <1>2, <1>3, <1>4 DEF MapType, MissesCounted

LEMMA FailurePreserves == ASSUME IInv, ScanFails PROVE MapType' /\ MissesCounted'
<1>1. sessions' = [k \in DOMAIN sessions |-> [sessions[k] EXCEPT !.stale = TRUE]]
      /\ lapses' = lapses
  BY DEF ScanFails, AfterFailure
<1>2. ASSUME NEW k \in DOMAIN sessions
      PROVE  /\ sessions'[k] \in RetainedSession
             /\ sessions'[k].observed.key = k /\ sessions'[k].misses = sessions[k].misses
  <2>1. sessions[k] \in RetainedSession /\ sessions[k].observed.key = k
    BY DEF IInv, MapType
  <2>2. sessions'[k] = [sessions[k] EXCEPT !.stale = TRUE]
    BY <1>1
  <2> QED BY <2>1, <2>2 DEF RetainedSession
<1>3. DOMAIN sessions' = DOMAIN sessions
  BY <1>1
<1> QED BY <1>1, <1>2, <1>3 DEF IInv, MapType, MissesCounted

\* No other step touches the map or the count of complete scans.
LEMMA MapUntouched ==
  ASSUME [Next]_vars, ~Scanned, ~ScanFails
  PROVE  sessions' = sessions /\ lapses' = lapses
<1>1. ASSUME NEW p \in Pids, Change(p) PROVE sessions' = sessions /\ lapses' = lapses
  BY <1>1 DEF Change, Start, Exit, LoseTerminal, WriteMarker, WorldStep, loopVars, historyVars
<1>2. ASSUME NEW p \in Pids, ReadMarker(p) PROVE sessions' = sessions /\ lapses' = lapses
  BY <1>2 DEF ReadMarker
<1>3. CASE Shutdown \/ Tick \/ Send \/ Sent \/ Stop
  BY <1>3 DEF Shutdown, Tick, Send, Sent, Stop, loopVars, historyVars
<1>4. CASE Receive \/ (\E k \in DOMAIN rows : Dismiss(k) \/ Restore(k))
  BY <1>4 DEF Receive, Dismiss, Restore, ViewStep, loopVars
<1>5. CASE Rest \/ UNCHANGED vars
  BY <1>5 DEF Rest, vars, loopVars, historyVars
<1> QED BY <1>1, <1>2, <1>3, <1>4, <1>5 DEF Next, Loop

-----------------------------------------------------------------------------

LEMMA InitIInv == Init => IInv
<1> SUFFICES ASSUME Init PROVE IInv
  OBVIOUS
<1>1. alive \subseteq Pids /\ births = [p \in Pids |-> IF p \in alive THEN 1 ELSE 0]
  BY DEF Init
<1>2. births \in [Pids -> 0 .. MaxStarts]
  BY <1>1, TrackerAssumption, MonitorAssumption
<1>3. InputType
  BY <1>1, <1>2, MonitorAssumption DEF Init, InputType
<1>4. DOMAIN sessions = {}
  BY DEF Init
<1>5. MapType /\ MissesCounted
  BY <1>4 DEF Init, MapType, MissesCounted
<1> QED BY <1>3, <1>5 DEF IInv

LEMMA NextIInv == IInv /\ [Next]_vars => IInv'
<1> SUFFICES ASSUME IInv, [Next]_vars PROVE IInv'
  OBVIOUS
<1>1. InputType'
  BY InputTypePreserved DEF IInv
<1>2. CASE Scanned
  BY <1>1, <1>2, ScannedPreserves DEF IInv
<1>3. CASE ScanFails
  BY <1>1, <1>3, FailurePreserves DEF IInv
<1>4. CASE ~Scanned /\ ~ScanFails
  <2>1. sessions' = sessions /\ lapses' = lapses
    BY <1>4, MapUntouched
  <2> QED BY <1>1, <2>1 DEF IInv, MapType, MissesCounted
<1> QED BY <1>2, <1>3, <1>4

\* An entry that a complete scan removes, or gives another session, has cause.
LEMMA ScannedWithCause ==
  ASSUME IInv, Scanned, NEW k \in DOMAIN sessions
  PROVE  \/ k \in DOMAIN sessions' /\ sessions'[k].observed.sid = sessions[k].observed.sid
         \/ \E o \in observed :
              o.key.pid = k.pid /\ Identity(o) # Identity(sessions[k].observed)
         \/ lapses'[k.pid] = 2
<1> SUFFICES ASSUME ~ \E o \in observed :
                      o.key.pid = k.pid /\ Identity(o) # Identity(sessions[k].observed)
             PROVE  \/ /\ k \in DOMAIN sessions'
                       /\ sessions'[k].observed.sid = sessions[k].observed.sid
                    \/ lapses'[k.pid] = 2
  OBVIOUS
<1>1. sessions' = AfterSuccess(sessions, observed)
  BY DEF Scanned
<1>2. sessions[k] \in RetainedSession /\ k \in Key /\ k.pid \in Pids
  BY DEF IInv, MapType, Key
<1>3. CASE k \in Lost(sessions, observed)
  <2>1. ~ \E o \in observed : o.key.pid = k.pid
    BY <1>3, MissingUnseen DEF Lost
  <2>2. Missed(sessions[k]).misses = sessions[k].misses + 1
    BY <1>2 DEF Missed, RetainedSession
  <2>3. sessions[k].misses + 1 >= 2
    BY <1>3, <2>2 DEF Lost
  <2>4. lapses[k.pid] \in 0 .. 2 /\ sessions[k].misses \in 0 .. 1
        /\ sessions[k].misses <= lapses[k.pid]
    BY <1>2 DEF IInv, MapType, MissesCounted, RetainedSession
  <2>5. lapses'[k.pid] = IF lapses[k.pid] < 2 THEN lapses[k.pid] + 1 ELSE 2
    BY <1>2, <2>1 DEF Scanned
  <2> QED BY <2>3, <2>4, <2>5
<1>4. CASE k \in Missing(sessions, observed) \ Lost(sessions, observed)
  <2>1. k \in DOMAIN sessions'
    BY <1>1, <1>4 DEF AfterSuccess, Missing
  <2>2. sessions'[k] = Missed(sessions[k])
    BY <1>1, <1>4, <2>1, AfterSuccessCases DEF Missing, SeenKeys
  <2>3. ~(Missed(sessions[k]).misses >= 2)
    BY <1>4 DEF Lost
  <2>4. sessions'[k].observed = sessions[k].observed
    BY <1>2, <2>2, <2>3, MissedType
  <2> QED BY <2>1, <2>4
<1>5. CASE k \in SeenKeys(observed)
  <2>1. k \in DOMAIN sessions'
    BY <1>1, <1>5 DEF AfterSuccess
  <2>2. PICK o \in observed : o.key = k /\ sessions'[k] = Update(sessions[k], o)
    BY <1>1, <1>5, <2>1, AfterSuccessCases DEF Missing
  <2>3. o.sid = sessions[k].observed.sid
    BY <2>2 DEF Identity
  <2>4. sessions'[k].observed = o
    BY <2>2, <2>3 DEF Update
  <2> QED BY <2>1, <2>3, <2>4
<1>6. CASE k \in Replaced(sessions, observed)
  <2>1. PICK o \in observed : o.key.pid = k.pid /\ o.key # k
    BY <1>6 DEF Replaced, SeenKeys
  <2>2. sessions[k].observed.key = k
    BY DEF IInv, MapType
  <2> QED BY <2>1, <2>2 DEF Identity
<1> QED BY <1>3, <1>4, <1>5, <1>6 DEF Missing

\* The invariant holds of every behaviour.
THEOREM MissesAreCounted == Spec => []IInv
<1>1. Init => IInv
  BY InitIInv
<1>2. IInv /\ [Next]_vars => IInv'
  BY NextIInv
<1> QED BY <1>1, <1>2, PTL DEF Spec

\* A session of the map is removed, or gives way to another one, only because
\* the scan saw another session with its process ID, or because two complete
\* scans in a row were without it (apply_success, apply_failure).
THEOREM RemovalsHaveCause == Spec => RemovedWithCause
<1> DEFINE Cause(k) ==
             \/ k \in DOMAIN sessions' /\ sessions'[k].observed.sid = sessions[k].observed.sid
             \/ \E o \in observed :
                  o.key.pid = k.pid /\ Identity(o) # Identity(sessions[k].observed)
             \/ lapses'[k.pid] = 2
<1>1. ASSUME IInv, [Next]_vars, NEW k \in DOMAIN sessions PROVE Cause(k)
  <2>1. CASE Scanned
    BY <1>1, <2>1, ScannedWithCause
  <2>2. CASE ScanFails
    <3>1. sessions' = [j \in DOMAIN sessions |-> [sessions[j] EXCEPT !.stale = TRUE]]
      BY <2>2 DEF ScanFails, AfterFailure
    <3>2. sessions[k] \in RetainedSession
      BY <1>1 DEF IInv, MapType
    <3> QED BY <3>1, <3>2 DEF RetainedSession
  <2>3. CASE ~Scanned /\ ~ScanFails
    BY <1>1, <2>3, MapUntouched
  <2> QED BY <2>1, <2>2, <2>3
<1>2. IInv /\ [Next]_vars => [\A k \in DOMAIN sessions : Cause(k)]_vars
  BY <1>1
<1>3. Spec => []IInv
  BY MissesAreCounted
<1> QED BY <1>2, <1>3, PTL DEF Spec, RemovedWithCause

-----------------------------------------------------------------------------
(* Induction over the natural numbers, without a predicate as a parameter. *)

LEMMA NatMin == ASSUME NEW T \in SUBSET Nat, T # {} PROVE \E n \in T : \A m \in T : n <= m
<1>1. PICK t \in T : t \in Nat
  OBVIOUS
<1> DEFINE S == 0 .. t
           W == {0 .. m : m \in {x \in T : x <= t}}
<1>2. IsFiniteSet(S)
  BY <1>1, FS_Interval
<1>3. IsWellFoundedOn(StrictSubsetOrdering(S), SUBSET S)
  BY <1>2, FS_StrictSubsetOrderingWellFounded, FS_FiniteSubsetsOfFinite, Zenon
<1>4. W \subseteq SUBSET S /\ W # {}
  BY <1>1
<1>5. \E x \in W : \A y \in W : ~ (<<y, x>> \in StrictSubsetOrdering(S))
  <2> HIDE DEF W, S
  <2> QED BY <1>3, <1>4, WFMin
<1>6. PICK x \in W : \A y \in W : ~(y \subseteq x /\ y # x)
  BY <1>4, <1>5 DEF StrictSubsetOrdering
<1>7. PICK n \in T : n <= t /\ x = 0 .. n
  BY <1>6
<1>8. ASSUME NEW m \in T, ~(n <= m) PROVE FALSE
  <2>1. m <= t /\ m < n /\ m \in Nat /\ n \in Nat
    BY <1>1, <1>7, <1>8
  <2>2. (0 .. m) \in W
    BY <2>1
  <2>3. 0 .. m \subseteq 0 .. n /\ n \in 0 .. n /\ n \notin 0 .. m
    BY <2>1
  <2> QED BY <1>6, <1>7, <2>2, <2>3
<1> QED BY <1>8

\* A set of numbers with 0 and every successor has them all.
LEMMA NatClosed ==
  ASSUME NEW T \in SUBSET Nat, 0 \in T, \A n \in T : n + 1 \in T
  PROVE  T = Nat
<1> DEFINE U == Nat \ T
<1> SUFFICES ASSUME U # {} PROVE FALSE
  OBVIOUS
<1>1. PICK n \in U : \A m \in U : n <= m
  BY NatMin
<1>2. n # 0 /\ n - 1 \in Nat /\ n - 1 \in T
  BY <1>1
<1> QED BY <1>2

-----------------------------------------------------------------------------
(* What FlattenSeq computes.                                               *)

\* The first n sequences of q follow one another in s, each in a place of its own.
Placed(q, n, s) ==
  \E g \in [1 .. n -> Nat] :
    /\ \A i \in 1 .. n : \A j \in DOMAIN q[i] : g[i] + j \in DOMAIN s /\ s[g[i] + j] = q[i][j]
    /\ \A m \in DOMAIN s : \E i \in 1 .. n : \E j \in DOMAIN q[i] : m = g[i] + j

LEMMA PlacedNext ==
  ASSUME NEW S, NEW q \in Seq(Seq(S)), NEW n \in Nat, n + 1 <= Len(q),
         NEW s \in Seq(S), Placed(q, n, s)
  PROVE  s \o q[n + 1] \in Seq(S) /\ Placed(q, n + 1, s \o q[n + 1])
<1>1. PICK g \in [1 .. n -> Nat] :
        /\ \A i \in 1 .. n : \A j \in DOMAIN q[i] : g[i] + j \in DOMAIN s /\ s[g[i] + j] = q[i][j]
        /\ \A m \in DOMAIN s : \E i \in 1 .. n : \E j \in DOMAIN q[i] : m = g[i] + j
  BY DEF Placed
<1> DEFINE h == [i \in 1 .. n + 1 |-> IF i = n + 1 THEN Len(s) ELSE g[i]]
           t == q[n + 1]
           r == s \o t
<1>2. t \in Seq(S) /\ n + 1 \in DOMAIN q
  OBVIOUS
<1>3. /\ r \in Seq(S) /\ Len(r) = Len(s) + Len(t)
      /\ DOMAIN r = 1 .. Len(s) + Len(t) /\ DOMAIN s = 1 .. Len(s) /\ DOMAIN t = 1 .. Len(t)
      /\ \A m \in 1 .. Len(s) : r[m] = s[m]
      /\ \A j \in 1 .. Len(t) : r[Len(s) + j] = t[j]
      /\ Len(s) \in Nat /\ Len(t) \in Nat
  BY <1>2
<1>4. h \in [1 .. n + 1 -> Nat]
  BY <1>3
<1>5. ASSUME NEW i \in 1 .. n + 1, NEW j \in DOMAIN q[i]
      PROVE  h[i] + j \in DOMAIN r /\ r[h[i] + j] = q[i][j]
  <2>1. CASE i = n + 1
    BY <1>3, <1>5, <2>1
  <2>2. CASE i # n + 1
    <3>1. i \in 1 .. n /\ h[i] = g[i]
      BY <2>2
    <3>2. g[i] + j \in DOMAIN s /\ s[g[i] + j] = q[i][j]
      BY <1>1, <1>5, <3>1
    <3> HIDE DEF h, r, t
    <3> QED BY <1>3, <3>1, <3>2
  <2> QED BY <2>1, <2>2
<1>6. ASSUME NEW m \in DOMAIN r
      PROVE  \E i \in 1 .. n + 1 : \E j \in DOMAIN q[i] : m = h[i] + j
  <2>1. CASE m <= Len(s)
    <3>1. m \in DOMAIN s
      BY <1>3, <2>1
    <3>2. PICK i \in 1 .. n : \E j \in DOMAIN q[i] : m = g[i] + j
      BY <1>1, <3>1
    <3>3. h[i] = g[i] /\ i \in 1 .. n + 1
      OBVIOUS
    <3> QED BY <3>2, <3>3
  <2>2. CASE ~(m <= Len(s))
    <3>1. m - Len(s) \in DOMAIN t /\ m = Len(s) + (m - Len(s))
      BY <1>3, <2>2
    <3>2. h[n + 1] = Len(s) /\ n + 1 \in 1 .. n + 1
      OBVIOUS
    <3> QED BY <3>1, <3>2
  <2> QED BY <2>1, <2>2
<1> HIDE DEF h, r
<1>7. Placed(q, n + 1, r)
  BY <1>4, <1>5, <1>6 DEF Placed
<1> QED BY <1>3, <1>7 DEF r

LEMMA FlattenStages ==
  ASSUME NEW S, NEW q \in Seq(Seq(S)), Len(q) # 0
  PROVE  \E f \in [1 .. Len(q) -> Seq(S)] :
           /\ FlattenSeq(q) = f[Len(q)]
           /\ \A i \in 1 .. Len(q) : f[i] = IF i = 1 THEN q[i] ELSE f[i - 1] \o q[i]
<1> DEFINE Stages(n) ==
             {f \in [1 .. n -> Seq(S)] :
                \A i \in 1 .. n : f[i] = IF i = 1 THEN q[i] ELSE f[i - 1] \o q[i]}
           T == {n \in Nat : n <= Len(q) => Stages(n) # {}}
<1>0. Len(q) \in Nat /\ \A i \in 1 .. Len(q) : q[i] \in Seq(S)
  OBVIOUS
<1>1. 0 \in T
  <2>1. 1 .. 0 = {}
    OBVIOUS
  <2>2. [i \in 1 .. 0 |-> <<>>] \in [1 .. 0 -> Seq(S)]
    BY <2>1
  <2>3. [i \in 1 .. 0 |-> <<>>] \in Stages(0)
    BY <2>1, <2>2
  <2> QED BY <2>3
<1>2. ASSUME NEW n \in Nat, Stages(n) # {}, n + 1 <= Len(q) PROVE Stages(n + 1) # {}
  <2>1. PICK f \in Stages(n) : TRUE
    BY <1>2
  <2> DEFINE e == [i \in 1 .. n + 1 |->
                     IF i = n + 1 THEN IF n = 0 THEN q[1] ELSE f[n] \o q[n + 1] ELSE f[i]]
  <2>2. e \in [1 .. n + 1 -> Seq(S)]
    <3>1. n # 0 => f[n] \in Seq(S)
      BY <2>1
    <3>2. q[n + 1] \in Seq(S)
      BY <1>0, <1>2
    <3>3. n # 0 => f[n] \o q[n + 1] \in Seq(S)
      BY <3>1, <3>2
    <3>4. \A i \in 1 .. n : f[i] \in Seq(S)
      BY <2>1
    <3> QED BY <3>2, <3>3, <3>4
  <2>3. \A i \in 1 .. n + 1 : e[i] = IF i = 1 THEN q[i] ELSE e[i - 1] \o q[i]
    <3> TAKE i \in 1 .. n + 1
    <3>1. CASE i = n + 1
      <4>1. n # 0 => e[n] = f[n]
        OBVIOUS
      <4> QED BY <3>1, <4>1
    <3>2. CASE i # n + 1
      <4>1. e[i] = f[i] /\ i \in 1 .. n /\ (i # 1 => e[i - 1] = f[i - 1])
        BY <3>2
      <4>2. f[i] = IF i = 1 THEN q[i] ELSE f[i - 1] \o q[i]
        BY <2>1, <4>1
      <4> HIDE DEF e
      <4> QED BY <4>1, <4>2
    <3> QED BY <3>1, <3>2
  <2> HIDE DEF e
  <2> QED BY <2>2, <2>3
<1>3. Stages(Len(q)) # {}
  <2> HIDE DEF Stages
  <2>1. ASSUME NEW n \in T PROVE n + 1 \in T
    BY <1>0, <1>2
  <2>2. T = Nat
    <3> HIDE DEF T
    <3> QED BY <1>1, <2>1, NatClosed DEF T
  <2> QED BY <1>0, <2>2
<1> DEFINE flatten[i \in 1 .. Len(q)] == IF i = 1 THEN q[i] ELSE flatten[i - 1] \o q[i]
<1>4. FlattenSeq(q) = flatten[Len(q)]
  BY DEF FlattenSeq
<1>5. flatten = CHOOSE g : g = [i \in 1 .. Len(q) |-> IF i = 1 THEN q[i] ELSE g[i - 1] \o q[i]]
  BY DEF flatten
<1>6. PICK f \in Stages(Len(q)) : TRUE
  BY <1>3
<1>7. f = [i \in 1 .. Len(q) |-> IF i = 1 THEN q[i] ELSE f[i - 1] \o q[i]]
  BY <1>6
<1> HIDE DEF flatten
<1>8. flatten = [i \in 1 .. Len(q) |-> IF i = 1 THEN q[i] ELSE flatten[i - 1] \o q[i]]
  BY <1>5, <1>7
<1> DEFINE R == {n \in Nat : n \in 1 .. Len(q) => flatten[n] = f[n]}
<1>9. R = Nat
  <2>1. 0 \in R
    OBVIOUS
  <2>2. ASSUME NEW n \in Nat, n \in 1 .. Len(q) => flatten[n] = f[n], n + 1 \in 1 .. Len(q)
        PROVE  flatten[n + 1] = f[n + 1]
    <3>1. flatten[n + 1] = IF n + 1 = 1 THEN q[n + 1] ELSE flatten[(n + 1) - 1] \o q[n + 1]
      BY <1>8, <2>2
    <3>2. f[n + 1] = IF n + 1 = 1 THEN q[n + 1] ELSE f[(n + 1) - 1] \o q[n + 1]
      BY <1>7, <2>2
    <3>3. n + 1 # 1 => n \in 1 .. Len(q) /\ (n + 1) - 1 = n
      BY <2>2
    <3> QED BY <2>2, <3>1, <3>2, <3>3
  <2>3. ASSUME NEW n \in R PROVE n + 1 \in R
    BY <2>2
  <2> HIDE DEF R
  <2> QED BY <2>1, <2>3, NatClosed DEF R
<1>10. flatten[Len(q)] = f[Len(q)]
  BY <1>0, <1>9
<1>11. /\ f \in [1 .. Len(q) -> Seq(S)]
       /\ \A i \in 1 .. Len(q) : f[i] = IF i = 1 THEN q[i] ELSE f[i - 1] \o q[i]
  BY <1>6
<1> QED BY <1>4, <1>10, <1>11

LEMMA FlattenBlocks ==
  ASSUME NEW S, NEW q \in Seq(Seq(S))
  PROVE  FlattenSeq(q) \in Seq(S) /\ Placed(q, Len(q), FlattenSeq(q))
<1>0. Len(q) \in Nat /\ \A i \in 1 .. Len(q) : q[i] \in Seq(S)
  OBVIOUS
<1>1. Placed(q, 0, <<>>) /\ <<>> \in Seq(S)
  <2>1. 1 .. 0 = {} /\ DOMAIN <<>> = {}
    OBVIOUS
  <2>2. [i \in 1 .. 0 |-> 0] \in [1 .. 0 -> Nat]
    BY <2>1
  <2>3. <<>> \in Seq(S)
    OBVIOUS
  <2>4. Placed(q, 0, <<>>)
    BY <2>1, <2>2, Zenon DEF Placed
  <2> QED BY <2>3, <2>4
<1>2. CASE Len(q) = 0
  <2>1. q = <<>>
    BY <1>2
  <2>2. FlattenSeq(q) = <<>>
    BY <2>1 DEF FlattenSeq
  <2> QED BY <1>1, <1>2, <2>2
<1>3. CASE Len(q) # 0
  <2>1. PICK f \in [1 .. Len(q) -> Seq(S)] :
          /\ FlattenSeq(q) = f[Len(q)]
          /\ \A i \in 1 .. Len(q) : f[i] = IF i = 1 THEN q[i] ELSE f[i - 1] \o q[i]
    BY <1>3, FlattenStages
  <2> DEFINE T == {n \in Nat : n \in 1 .. Len(q) => f[n] \in Seq(S) /\ Placed(q, n, f[n])}
  <2>2. 0 \in T
    OBVIOUS
  <2>3. ASSUME NEW n \in Nat, n \in 1 .. Len(q) => f[n] \in Seq(S) /\ Placed(q, n, f[n]),
               n + 1 \in 1 .. Len(q)
        PROVE  f[n + 1] \in Seq(S) /\ Placed(q, n + 1, f[n + 1])
    <3>1. CASE n = 0
      <4>0. n + 1 = 1
        BY <3>1
      <4>1. f[n + 1] = q[n + 1] /\ q[n + 1] \in Seq(S)
        <5>1. q[n + 1] \in Seq(S)
          BY <1>0, <2>3
        <5>2. f[n + 1] = q[n + 1]
          BY <2>1, <2>3, <4>0
        <5> QED BY <5>1, <5>2
      <4>2. \A t \in Seq(S) : <<>> \o t = t
        OBVIOUS
      <4>3. f[n + 1] = <<>> \o q[n + 1]
        BY <4>1, <4>2
      <4>4. n \in Nat /\ n + 1 <= Len(q) /\ Placed(q, n, <<>>)
        BY <1>0, <1>1, <2>3, <3>1
      <4>5. <<>> \o q[n + 1] \in Seq(S) /\ Placed(q, n + 1, <<>> \o q[n + 1])
        BY <1>1, <4>4, PlacedNext
      <4> QED BY <4>3, <4>5
    <3>2. CASE n # 0
      <4>1. n \in 1 .. Len(q) /\ n + 1 <= Len(q) /\ (n + 1) - 1 = n /\ n + 1 # 1
        BY <1>0, <2>3, <3>2
      <4>2. f[n + 1] = f[n] \o q[n + 1]
        BY <2>1, <2>3, <4>1
      <4>3. f[n] \in Seq(S) /\ Placed(q, n, f[n])
        BY <2>3, <4>1
      <4> QED BY <4>1, <4>2, <4>3, PlacedNext
    <3> QED BY <3>1, <3>2
  <2>4. ASSUME NEW n \in T PROVE n + 1 \in T
    BY <2>3
  <2>5. T = Nat
    <3> HIDE DEF T
    <3> QED BY <2>2, <2>4, NatClosed DEF T
  <2> QED BY <1>0, <1>3, <2>1, <2>5
<1> QED BY <1>2, <1>3

\* What the scan has read: of each process ID at most one session, and of none
\* it has still to come to.
ScanState ==
  /\ IsFiniteSet(observed)
  /\ \A o1 \in observed, o2 \in observed : o1.key.pid = o2.key.pid => o1 = o2
  /\ \A o \in observed : o.key.pid \notin todo
  /\ pc # "scan" => observed = {}
  /\ pc \in {"scan", "wait"} => outbox = <<>>

MapSound ==
  /\ IsFiniteSet(DOMAIN sessions)
  /\ \A j \in DOMAIN sessions, k \in DOMAIN sessions : j.pid = k.pid => j = k

EventType == outbox \in Seq(Event) /\ channel \in Seq(Event)

RowType == DOMAIN rows \subseteq Key /\ \A k \in DOMAIN rows : rows[k] \in Row

\* A session is armed while its work is not announced.
ArmedSound ==
  /\ \A k \in DOMAIN sessions :
       /\ sessions[k].armed <=> Identity(sessions[k].observed) \in worked
       /\ sessions[k].observed.status = "idle" => ~sessions[k].armed
       /\ sessions[k].observed.status \in Working => sessions[k].armed
  /\ worked \subseteq {Identity(sessions[k].observed) : k \in DOMAIN sessions}

About(e, k) == e.of.key = k /\ e.kind \in {"removed", "ready", "projection"}

Removes(e, k) == e.of.key = k /\ e.kind = "removed"
Brings(e, k) == e.of.key = k /\ e.kind = "projection"

\* Does the event, the row say what the map says of the key?
Agrees(e, k, map) ==
  IF k \in DOMAIN map THEN e = Projection(map[k].observed, map[k].stale) ELSE Removes(e, k)

RowAgrees(k) ==
  /\ k \in DOMAIN rows <=> k \in DOMAIN sessions /\ sessions[k].observed.tty
  /\ k \in DOMAIN rows => Shows(rows[k], sessions[k].observed, sessions[k].stale)

Quiet(q, k) == \A n \in DOMAIN q : ~About(q[n], k)

\* The last event about the key agrees with the map.
Settles(q, k, map) ==
  \E n \in DOMAIN q : Agrees(q[n], k, map) /\ \A m \in DOMAIN q : m > n => ~About(q[m], k)

Pending == channel \o outbox

Settled ==
  pc # "stopped" =>
    \A k \in Key : (Quiet(Pending, k) /\ RowAgrees(k)) \/ Settles(Pending, k, sessions)

\* Before the n-th event is applied, the key has no row.
Clear(q, k, n) ==
  \/ k \notin DOMAIN rows /\ \A m \in DOMAIN q : m < n => ~Brings(q[m], k)
  \/ \E m \in DOMAIN q :
       m < n /\ Removes(q[m], k) /\ \A l \in DOMAIN q : m < l /\ l < n => ~Brings(q[l], k)

OneAtATime ==
  /\ RowsOnePerProcess
  /\ \A n \in DOMAIN Pending : \A k \in Key :
       /\ Pending[n].kind = "projection" /\ k # Pending[n].of.key
       /\ k.pid = Pending[n].of.key.pid
       => Clear(Pending, k, n)


-----------------------------------------------------------------------------
(* Sequences put together.                                                 *)

\* A finite set in any order: every element has one place.
LEMMA OrderFacts ==
  ASSUME NEW S, IsFiniteSet(S), NEW q \in Orders(S)
  PROVE  /\ q \in Seq(S) /\ DOMAIN q = 1 .. Len(q)
         /\ \A x \in S : \E n \in DOMAIN q : q[n] = x
         /\ \A m \in DOMAIN q, n \in DOMAIN q : q[m] = q[n] => m = n
<1> DEFINE D == 1 .. Cardinality(S)
<1>1. Cardinality(S) \in Nat
  BY FS_CardinalityType
<1>2. q \in [D -> S] /\ \A i \in D, j \in D : i # j => q[i] # q[j]
  BY DEF Orders, SetToSeqs
<1>3. q \in Injection(D, S)
  BY <1>2 DEF Injection, IsInjective
<1>4. IsFiniteSet(D) /\ Cardinality(D) = Cardinality(S)
  BY <1>1, FS_Interval
<1>5. q \in Surjection(D, S)
  BY <1>3, <1>4, FS_Injection
<1>6. q \in Seq(S) /\ DOMAIN q = 1 .. Len(q)
  BY <1>1, <1>2
<1>7. \A x \in S : \E n \in DOMAIN q : q[n] = x
  BY <1>5 DEF Surjection
<1> QED BY <1>2, <1>6, <1>7

LEMMA ConcatFacts ==
  ASSUME NEW S, NEW a \in Seq(S), NEW b \in Seq(S)
  PROVE  /\ a \o b \in Seq(S)
         /\ Len(a) \in Nat /\ DOMAIN a = 1 .. Len(a)
         /\ Len(b) \in Nat /\ DOMAIN b = 1 .. Len(b)
         /\ DOMAIN (a \o b) = 1 .. Len(a) + Len(b)
         /\ \A m \in DOMAIN a : (a \o b)[m] = a[m]
         /\ \A m \in DOMAIN b : (a \o b)[Len(a) + m] = b[m]
         /\ \A m \in DOMAIN (a \o b) : m \in DOMAIN a
                                       \/ (m - Len(a) \in DOMAIN b /\ m = Len(a) + (m - Len(a)))
OBVIOUS

LEMMA QuietConcat ==
  ASSUME NEW S, NEW a \in Seq(S), NEW b \in Seq(S), NEW k, Quiet(a, k), Quiet(b, k)
  PROVE  Quiet(a \o b, k)
<1> DEFINE c == a \o b
<1> SUFFICES ASSUME NEW m \in DOMAIN c PROVE ~About(c[m], k)
  BY DEF Quiet
<1>1. CASE m \in DOMAIN a
  <2>1. c[m] = a[m]
    BY <1>1, ConcatFacts
  <2> QED BY <1>1, <2>1 DEF Quiet
<1>2. CASE m - Len(a) \in DOMAIN b /\ m = Len(a) + (m - Len(a))
  <2>1. c[m] = b[m - Len(a)]
    BY <1>2, ConcatFacts
  <2> QED BY <1>2, <2>1 DEF Quiet
<1> QED BY <1>1, <1>2, ConcatFacts

LEMMA SettlesFirst ==
  ASSUME NEW S, NEW a \in Seq(S), NEW b \in Seq(S), NEW k, NEW map,
         Settles(a, k, map), Quiet(b, k)
  PROVE  Settles(a \o b, k, map)
<1> DEFINE c == a \o b
<1>1. PICK n \in DOMAIN a :
        Agrees(a[n], k, map) /\ \A m \in DOMAIN a : m > n => ~About(a[m], k)
  BY DEF Settles
<1>2. n \in DOMAIN c /\ c[n] = a[n]
  BY ConcatFacts
<1>3. ASSUME NEW m \in DOMAIN c, m > n PROVE ~About(c[m], k)
  <2>1. CASE m \in DOMAIN a
    <3>1. c[m] = a[m]
      BY <2>1, ConcatFacts
    <3> QED BY <1>1, <1>3, <2>1, <3>1
  <2>2. CASE m - Len(a) \in DOMAIN b /\ m = Len(a) + (m - Len(a))
    <3>1. c[m] = b[m - Len(a)]
      BY <2>2, ConcatFacts
    <3> QED BY <2>2, <3>1 DEF Quiet
  <2> QED BY <2>1, <2>2, ConcatFacts
<1> HIDE DEF c
<1>4. Settles(c, k, map)
  BY <1>1, <1>2, <1>3 DEF Settles
<1> QED BY <1>4 DEF c

LEMMA SettlesLast ==
  ASSUME NEW S, NEW a \in Seq(S), NEW b \in Seq(S), NEW k, NEW map, Settles(b, k, map)
  PROVE  Settles(a \o b, k, map)
<1> DEFINE c == a \o b
<1>1. PICK n \in DOMAIN b :
        Agrees(b[n], k, map) /\ \A m \in DOMAIN b : m > n => ~About(b[m], k)
  BY DEF Settles
<1>0. Len(a) \in Nat /\ n \in Nat /\ DOMAIN a = 1 .. Len(a)
  BY ConcatFacts
<1>2. Len(a) + n \in DOMAIN c /\ c[Len(a) + n] = b[n]
  BY ConcatFacts
<1>3. ASSUME NEW m \in DOMAIN c, m > Len(a) + n PROVE ~About(c[m], k)
  <2>1. m \notin DOMAIN a
    BY <1>0, <1>3
  <2>2. m - Len(a) \in DOMAIN b /\ m = Len(a) + (m - Len(a))
    BY <2>1, ConcatFacts
  <2>3. c[m] = b[m - Len(a)]
    BY <2>2, ConcatFacts
  <2>4. m - Len(a) > n
    BY <1>0, <1>3, <2>2, ConcatFacts
  <2> QED BY <1>1, <2>2, <2>3, <2>4
<1> HIDE DEF c
<1>4. Settles(c, k, map)
  BY <1>1, <1>2, <1>3 DEF Settles
<1> QED BY <1>1, <1>4 DEF c

LEMMA RangeConcat ==
  ASSUME NEW S, NEW a \in Seq(S), NEW b \in Seq(S)
  PROVE  Range(a \o b) = Range(a) \cup Range(b)
<1> DEFINE c == a \o b
<1>1. ASSUME NEW m \in DOMAIN c PROVE c[m] \in Range(a) \cup Range(b)
  <2>1. CASE m \in DOMAIN a
    <3>1. c[m] = a[m]
      BY <2>1, ConcatFacts
    <3> QED BY <2>1, <3>1 DEF Range
  <2>2. CASE m - Len(a) \in DOMAIN b /\ m = Len(a) + (m - Len(a))
    <3>1. c[m] = b[m - Len(a)]
      BY <2>2, ConcatFacts
    <3> QED BY <2>2, <3>1 DEF Range
  <2> QED BY <2>1, <2>2, ConcatFacts
<1>2. ASSUME NEW m \in DOMAIN a PROVE a[m] \in Range(c)
  <2>1. m \in DOMAIN c /\ c[m] = a[m]
    BY ConcatFacts
  <2> HIDE DEF c
  <2> QED BY <2>1 DEF Range
<1>3. ASSUME NEW m \in DOMAIN b PROVE b[m] \in Range(c)
  <2>1. Len(a) + m \in DOMAIN c /\ c[Len(a) + m] = b[m]
    BY ConcatFacts
  <2> HIDE DEF c
  <2> QED BY <2>1 DEF Range
<1> HIDE DEF c
<1>4. Range(c) = Range(a) \cup Range(b)
  BY <1>1, <1>2, <1>3 DEF Range
<1> QED BY <1>4 DEF c


\* Is it another sight of a session of the map?
Known(o) == o.key \in DOMAIN sessions /\ sessions[o.key].observed.sid = o.sid

\* What a scan tells of one session it has read: at last its state, unless
\* there is nothing new, and that it is ready if it is.
SightSound(q, o) ==
  /\ q \in Seq(Event)
  /\ \A e \in Range(q) : e.of.key = o.key
  /\ \A e \in Range(q) : e.kind = "ready" =>
       e.of = o /\ Known(o) /\ BecameReady(sessions[o.key], o)
  /\ Known(o) /\ BecameReady(sessions[o.key], o) => Tell("ready", o) \in Range(q)
  /\ \/ q # <<>> /\ q[Len(q)] = Projection(o, FALSE)
     \/ q = <<>> /\ Known(o) /\ sessions[o.key].observed = o /\ ~sessions[o.key].stale

LEMMA SeenFacts ==
  ASSUME MapType, NEW o \in ObservedSession, NEW q, q = SeenEvents(sessions, o)
  PROVE  SightSound(q, o)
<1> DEFINE r == sessions[o.key]
           found == Tell("found", o)
           ready == Tell("ready", o)
           turned == Tell("transition", o)
           last == Projection(o, FALSE)
           removed == Tell("removed", r.observed)
<1>1. /\ found \in Event /\ found.of = o /\ found.kind = "found"
      /\ ready \in Event /\ ready.of = o /\ ready.kind = "ready"
      /\ turned \in Event /\ turned.of = o /\ turned.kind = "transition"
      /\ last \in Event /\ last.of = o /\ last.kind = "projection"
  BY DEF Tell, Projection, Event
<1>2. o.key \in DOMAIN sessions => /\ r \in RetainedSession /\ r.observed \in ObservedSession
                                   /\ r.observed.key = o.key /\ r.stale \in BOOLEAN
  BY DEF MapType, RetainedSession
<1>3. o.key \in DOMAIN sessions => removed \in Event /\ removed.of.key = o.key /\ removed.kind = "removed"
  BY <1>2 DEF Tell, Event
<1>4. CASE o.key \notin DOMAIN sessions
  <2>1. q = <<found, last>>
    BY <1>4 DEF SeenEvents
  <2> HIDE DEF found, last
  <2>2. Range(q) = {found, last}
    BY <2>1 DEF Range
  <2>3. Len(q) = 2 /\ q[2] = last /\ q \in Seq(Event)
    BY <1>1, <2>1
  <2>4. q # <<>>
    BY <2>3
  <2> QED BY <1>1, <1>4, <2>2, <2>3, <2>4 DEF SightSound, last, Known
<1>5. CASE o.key \in DOMAIN sessions /\ r.observed.sid # o.sid
  <2>1. q = <<removed, found, last>>
    BY <1>5 DEF SeenEvents, UpdateEvents
  <2> HIDE DEF found, last, removed
  <2>2. Range(q) = {removed, found, last}
    BY <2>1 DEF Range
  <2>3. Len(q) = 3 /\ q[3] = last /\ q \in Seq(Event)
    BY <1>1, <1>3, <1>5, <2>1
  <2>4. q # <<>>
    BY <2>3
  <2> QED BY <1>1, <1>3, <1>5, <2>2, <2>3, <2>4 DEF SightSound, last, Known
<1>6. CASE Known(o)
  <2> DEFINE a == IF r.observed.status # o.status THEN <<turned>> ELSE <<>>
             b == IF BecameReady(r, o) THEN <<ready>> ELSE <<>>
             c == IF Changed(r, o) THEN <<last>> ELSE <<>>
  <2>1. q = (a \o b) \o c
    BY <1>6 DEF SeenEvents, UpdateEvents, Known
  <2> HIDE DEF found, last, ready, turned
  <2>2. a \in Seq(Event) /\ b \in Seq(Event) /\ c \in Seq(Event)
    BY <1>1
  <2>3. a \o b \in Seq(Event) /\ q \in Seq(Event) /\ Range(q) = (Range(a) \cup Range(b)) \cup Range(c)
    <3> HIDE DEF a, b, c
    <3>1. a \o b \in Seq(Event) /\ Range(a \o b) = Range(a) \cup Range(b)
      BY <2>2, RangeConcat
    <3>2. (a \o b) \o c \in Seq(Event)
      BY <2>2, <3>1, ConcatFacts
    <3>3. PICK ab \in Seq(Event) : ab = a \o b
      BY <3>1
    <3>4. Range(ab \o c) = Range(ab) \cup Range(c)
      BY <2>2, RangeConcat
    <3> QED BY <2>1, <3>1, <3>2, <3>3, <3>4
  <2>4. /\ Range(a) \subseteq {turned}
        /\ Range(c) \subseteq {last}
        /\ Range(b) = IF BecameReady(r, o) THEN {ready} ELSE {}
    BY DEF Range
  <2>5. /\ \A e \in Range(q) : e.of.key = o.key
        /\ \A e \in Range(q) : e.kind = "ready" => e.of = o /\ BecameReady(r, o)
        /\ BecameReady(r, o) => ready \in Range(q)
    <3> HIDE DEF a, b, c
    <3> QED BY <1>1, <2>3, <2>4
  <2>6. \/ q # <<>> /\ q[Len(q)] = last
        \/ q = <<>> /\ r.observed = o /\ ~r.stale
    <3>1. CASE Changed(r, o)
      <4>1. c = <<last>>
        BY <3>1
      <4> HIDE DEF a, b, c
      <4>2. q = Append(a \o b, last)
        BY <2>1, <2>3, <4>1, <1>1, <2>2
      <4> QED BY <2>3, <4>2, <1>1
    <3>2. CASE ~Changed(r, o)
      <4>1. r.observed = o /\ ~r.stale /\ ~BecameReady(r, o)
        BY <3>2 DEF Changed, BecameReady
      <4>2. a = <<>> /\ b = <<>> /\ c = <<>>
        BY <3>2, <4>1
      <4>3. (<<>> \o <<>>) \o <<>> = <<>>
        OBVIOUS
      <4> HIDE DEF a, b, c
      <4>4. q = <<>>
        BY <2>1, <4>2, <4>3
      <4> QED BY <4>1, <4>4
    <3> QED BY <3>1, <3>2
  <2> HIDE DEF a, b, c
  <2> QED BY <1>6, <2>3, <2>5, <2>6 DEF SightSound, last, ready
<1> QED BY <1>4, <1>5, <1>6 DEF Known

-----------------------------------------------------------------------------

\* Events of which each is about another one of the keys.
LEMMA OneEach ==
  ASSUME NEW keys, IsFiniteSet(keys), NEW order \in Orders(keys),
         NEW q \in Seq(Event), DOMAIN q = DOMAIN order,
         \A n \in DOMAIN q : q[n].of.key = order[n]
  PROVE  /\ \A k : k \notin keys => Quiet(q, k)
         /\ \A k \in keys : \E n \in DOMAIN q :
              order[n] = k /\ \A m \in DOMAIN q : m > n => ~About(q[m], k)
<1>1. \A n \in DOMAIN order : order[n] \in keys
  BY OrderFacts
<1>2. ASSUME NEW k, k \notin keys PROVE Quiet(q, k)
  BY <1>1, <1>2 DEF Quiet, About
<1>3. ASSUME NEW k \in keys
      PROVE  \E n \in DOMAIN q :
               order[n] = k /\ \A m \in DOMAIN q : m > n => ~About(q[m], k)
  <2>1. PICK n \in DOMAIN order : order[n] = k
    BY OrderFacts
  <2>2. ASSUME NEW m \in DOMAIN q, m > n PROVE order[m] # k
    <3>1. m # n
      BY <2>1, <2>2, OrderFacts
    <3> QED BY <2>1, <3>1, OrderFacts
  <2> QED BY <2>1, <2>2 DEF About
<1> QED BY <1>2, <1>3

LEMMA RemovedFacts ==
  ASSUME MapType, NEW keys, IsFiniteSet(keys), keys \subseteq DOMAIN sessions,
         NEW order \in Orders(keys), NEW q, q = RemovedEvents(sessions, order), NEW map
  PROVE  /\ q \in Seq(Event)
         /\ \A e \in Range(q) : e.kind = "removed"
         /\ \A k : k \notin keys => Quiet(q, k)
         /\ \A k \in keys \ DOMAIN map : Settles(q, k, map)
<1>1. order \in Seq(keys) /\ DOMAIN order = 1 .. Len(order) /\ Len(order) \in Nat
  BY OrderFacts
<1>2. ASSUME NEW n \in DOMAIN order
      PROVE  LET e == Tell("removed", sessions[order[n]].observed)
             IN  e \in Event /\ e.kind = "removed" /\ e.of.key = order[n]
  <2>1. order[n] \in keys
    BY <1>1
  <2>2. sessions[order[n]].observed \in ObservedSession /\ sessions[order[n]].observed.key = order[n]
    BY <2>1 DEF MapType, RetainedSession
  <2> QED BY <2>2 DEF Tell, Event
<1>3. DOMAIN q = DOMAIN order /\ \A n \in DOMAIN q : q[n] = Tell("removed", sessions[order[n]].observed)
  BY DEF RemovedEvents
<1>4. /\ \A n \in DOMAIN q : q[n] \in Event /\ q[n].kind = "removed" /\ q[n].of.key = order[n]
      /\ q = [n \in 1 .. Len(order) |-> q[n]]
  BY <1>1, <1>2, <1>3 DEF RemovedEvents
<1>5. q \in Seq(Event)
  BY <1>1, <1>3, <1>4
<1>6. /\ \A k : k \notin keys => Quiet(q, k)
      /\ \A k \in keys : \E n \in DOMAIN q :
           order[n] = k /\ \A m \in DOMAIN q : m > n => ~About(q[m], k)
  <2>1. \A n \in DOMAIN q : q[n].of.key = order[n]
    BY <1>4
  <2>2. DOMAIN q = DOMAIN order
    BY <1>3
  <2> QED BY <1>5, <2>1, <2>2, OneEach
<1>7. ASSUME NEW k \in keys \ DOMAIN map PROVE Settles(q, k, map)
  BY <1>4, <1>6 DEF Settles, Agrees, Removes
<1>8. \A e \in Range(q) : e.kind = "removed"
  BY <1>4 DEF Range
<1> QED BY <1>5, <1>6, <1>7, <1>8

LEMMA StaleFacts ==
  ASSUME MapType, NEW keys, IsFiniteSet(keys), keys \subseteq DOMAIN sessions,
         NEW order \in Orders(keys), NEW q, q = StaleEvents(sessions, order), NEW map
  PROVE  /\ q \in Seq(Event)
         /\ \A e \in Range(q) : e.kind = "projection" /\ e.of.key \in keys
         /\ \A k : k \notin keys => Quiet(q, k)
         /\ \A k \in keys : k \in DOMAIN map /\ map[k].observed = sessions[k].observed
                            /\ map[k].stale = TRUE => Settles(q, k, map)
<1>1. order \in Seq(keys) /\ DOMAIN order = 1 .. Len(order) /\ Len(order) \in Nat
  BY OrderFacts
<1>2. ASSUME NEW n \in DOMAIN order
      PROVE  LET e == Projection(sessions[order[n]].observed, TRUE)
             IN  e \in Event /\ e.kind = "projection" /\ e.of.key = order[n]
  <2>1. order[n] \in keys
    BY <1>1
  <2>2. sessions[order[n]].observed \in ObservedSession /\ sessions[order[n]].observed.key = order[n]
    BY <2>1 DEF MapType, RetainedSession
  <2> QED BY <2>2 DEF Projection, Event
<1>3. DOMAIN q = DOMAIN order /\ \A n \in DOMAIN q : q[n] = Projection(sessions[order[n]].observed, TRUE)
  BY DEF StaleEvents
<1>4. /\ \A n \in DOMAIN q : q[n] \in Event /\ q[n].kind = "projection" /\ q[n].of.key = order[n]
      /\ q = [n \in 1 .. Len(order) |-> q[n]]
  BY <1>1, <1>2, <1>3 DEF StaleEvents
<1>5. q \in Seq(Event)
  BY <1>1, <1>3, <1>4
<1>6. /\ \A k : k \notin keys => Quiet(q, k)
      /\ \A k \in keys : \E n \in DOMAIN q :
           order[n] = k /\ \A m \in DOMAIN q : m > n => ~About(q[m], k)
  <2>1. \A n \in DOMAIN q : q[n].of.key = order[n]
    BY <1>4
  <2>2. DOMAIN q = DOMAIN order
    BY <1>3
  <2> QED BY <1>5, <2>1, <2>2, OneEach
<1>7. ASSUME NEW k \in keys, k \in DOMAIN map, map[k].observed = sessions[k].observed,
             map[k].stale = TRUE
      PROVE  Settles(q, k, map)
  <2>1. PICK n \in DOMAIN q :
          order[n] = k /\ \A m \in DOMAIN q : m > n => ~About(q[m], k)
    BY <1>6
  <2>2. q[n] = Projection(map[k].observed, map[k].stale)
    BY <1>3, <1>7, <2>1
  <2> QED BY <1>7, <2>1, <2>2 DEF Settles, Agrees
<1>8. \A e \in Range(q) : e.kind = "projection" /\ e.of.key \in keys
  <2>1. \A n \in DOMAIN q : order[n] \in keys
    BY <1>1, <1>3
  <2> QED BY <1>4, <2>1 DEF Range
<1> QED BY <1>5, <1>6, <1>7, <1>8

-----------------------------------------------------------------------------
(* What a complete scan tells of the sessions it has read.                 *)

LEMMA LineFacts ==
  ASSUME ScanState, observed \subseteq ObservedSession, NEW line \in ByPid(observed)
  PROVE  /\ line \in Seq(observed) /\ DOMAIN line = 1 .. Len(line) /\ Len(line) \in Nat
         /\ \A o \in observed : \E n \in DOMAIN line : line[n] = o
         /\ \A m \in DOMAIN line, n \in DOMAIN line : line[m].key = line[n].key => m = n
<1>1. line \in Orders(observed) /\ IsFiniteSet(observed)
  BY DEF ByPid, Orders, ScanState
<1>2. /\ line \in Seq(observed) /\ DOMAIN line = 1 .. Len(line)
      /\ \A o \in observed : \E n \in DOMAIN line : line[n] = o
      /\ \A m \in DOMAIN line, n \in DOMAIN line : line[m] = line[n] => m = n
  BY <1>1, OrderFacts
<1>3. \A n \in DOMAIN line : line[n] \in observed
  BY <1>2
<1>4. ASSUME NEW m \in DOMAIN line, NEW n \in DOMAIN line, line[m].key = line[n].key PROVE m = n
  <2>1. line[m] = line[n]
    BY <1>3, <1>4 DEF ScanState
  <2> QED BY <1>2, <2>1
<1>5. Len(line) \in Nat
  BY <1>2
<1> QED BY <1>2, <1>4, <1>5

\* The events of the sessions read, one session after the other.
SightsSound(q) ==
  /\ q \in Seq(Event)
  /\ \A e \in Range(q) : e.of.key \in SeenKeys(observed)
  /\ \A e \in Range(q) : e.kind = "ready" =>
       \E o \in observed : e.of = o /\ Known(o) /\ BecameReady(sessions[o.key], o)
  /\ \A o \in observed :
       Known(o) /\ BecameReady(sessions[o.key], o) => Tell("ready", o) \in Range(q)

Retains(map, o) ==
  o.key \in DOMAIN map /\ map[o.key].observed = o /\ map[o.key].stale = FALSE

\* The last word on the session is its state, or nothing is new.
LastTold(q, o, map) ==
  \/ Settles(q, o.key, map)
  \/ /\ Quiet(q, o.key) /\ Known(o)
     /\ sessions[o.key].observed = o /\ ~sessions[o.key].stale

LEMMA SightsFacts ==
  ASSUME MapType, ScanState, observed \subseteq ObservedSession, NEW line \in ByPid(observed),
         NEW q, q = SightEvents(sessions, line)
  PROVE  /\ SightsSound(q)
         /\ \A o \in observed : \A map : Retains(map, o) => LastTold(q, o, map)
<1> DEFINE block(n) == SeenEvents(sessions, line[n])
<1>1. PICK blocks : blocks = [n \in DOMAIN line |-> block(n)]
  OBVIOUS
<1>2. /\ line \in Seq(observed) /\ DOMAIN line = 1 .. Len(line) /\ Len(line) \in Nat
      /\ \A o \in observed : \E n \in DOMAIN line : line[n] = o
      /\ \A m \in DOMAIN line, n \in DOMAIN line : line[m].key = line[n].key => m = n
  BY LineFacts
<1>3. \A n \in DOMAIN line : line[n] \in observed /\ line[n] \in ObservedSession
  BY <1>2
<1>4. ASSUME NEW n \in DOMAIN line PROVE SightSound(blocks[n], line[n])
  BY <1>1, <1>3, SeenFacts
<1>5. blocks \in Seq(Seq(Event)) /\ Len(blocks) = Len(line) /\ DOMAIN blocks = DOMAIN line
  <2>1. \A n \in DOMAIN line : blocks[n] \in Seq(Event)
    BY <1>4 DEF SightSound
  <2>2. blocks = [n \in 1 .. Len(line) |-> blocks[n]]
    BY <1>1, <1>2
  <2> QED BY <1>1, <1>2, <2>1, <2>2
<1>6. q = FlattenSeq(blocks)
  BY <1>1 DEF SightEvents
<1>7. q \in Seq(Event) /\ Placed(blocks, Len(line), q)
  BY <1>5, <1>6, FlattenBlocks
<1>a. PICK g \in [1 .. Len(line) -> Nat] :
        /\ \A i \in 1 .. Len(line) : \A j \in DOMAIN blocks[i] :
             g[i] + j \in DOMAIN q /\ q[g[i] + j] = blocks[i][j]
        /\ \A m \in DOMAIN q :
             \E i \in 1 .. Len(line) : \E j \in DOMAIN blocks[i] : m = g[i] + j
  BY <1>7, Zenon DEF Placed
<1>8. /\ \A i \in DOMAIN line : \A j \in DOMAIN blocks[i] :
           g[i] + j \in DOMAIN q /\ q[g[i] + j] = blocks[i][j]
      /\ \A m \in DOMAIN q : \E i \in DOMAIN line : \E j \in DOMAIN blocks[i] : m = g[i] + j
  BY <1>a, <1>2, Zenon
<1> HIDE DEF block
<1>9. ASSUME NEW m \in DOMAIN q
      PROVE  \E i \in DOMAIN line : \E j \in DOMAIN blocks[i] :
               m = g[i] + j /\ q[m] = blocks[i][j] /\ q[m] \in Range(blocks[i])
  <2>0. PICK i \in DOMAIN line : \E j \in DOMAIN blocks[i] : m = g[i] + j
    BY <1>8
  <2>1. PICK j \in DOMAIN blocks[i] : m = g[i] + j
    BY <2>0
  <2>2. q[m] = blocks[i][j]
    BY <1>8, <2>1
  <2> QED BY <2>1, <2>2 DEF Range
<1>10. \A e \in Range(q) : \E i \in DOMAIN line : e \in Range(blocks[i])
  BY <1>9 DEF Range
<1>11. \A i \in DOMAIN line : Range(blocks[i]) \subseteq Range(q)
  BY <1>8 DEF Range
<1>12. SightsSound(q)
  <2>1. \A e \in Range(q) : e.of.key \in SeenKeys(observed)
    BY <1>3, <1>4, <1>10 DEF SightSound, SeenKeys
  <2>2. \A e \in Range(q) : e.kind = "ready" =>
          \E o \in observed : e.of = o /\ Known(o) /\ BecameReady(sessions[o.key], o)
    BY <1>3, <1>4, <1>10 DEF SightSound
  <2>3. \A o \in observed :
          Known(o) /\ BecameReady(sessions[o.key], o) => Tell("ready", o) \in Range(q)
    <3> SUFFICES ASSUME NEW o \in observed, Known(o), BecameReady(sessions[o.key], o)
                 PROVE  Tell("ready", o) \in Range(q)
      OBVIOUS
    <3>1. PICK i \in DOMAIN line : line[i] = o
      BY <1>2
    <3>2. SightSound(blocks[i], o)
      BY <1>4, <3>1
    <3>3. Tell("ready", o) \in Range(blocks[i])
      BY <3>2 DEF SightSound
    <3> QED BY <1>11, <3>3
  <2> QED BY <1>7, <2>1, <2>2, <2>3 DEF SightsSound
<1>13. ASSUME NEW o \in observed, NEW map, Retains(map, o) PROVE LastTold(q, o, map)
  <2>1. PICK i \in DOMAIN line : line[i] = o
    BY <1>2
  <2>2. ASSUME NEW h \in DOMAIN line, h # i, NEW e \in Range(blocks[h]) PROVE ~About(e, o.key)
    <3>1. e.of.key = line[h].key
      BY <1>4, <2>2 DEF SightSound
    <3>2. line[h].key # line[i].key
      BY <1>2, <2>2
    <3> QED BY <2>1, <3>1, <3>2 DEF About
  <2>3. SightSound(blocks[i], o)
    BY <1>4, <2>1
  <2>4. CASE blocks[i] # <<>> /\ blocks[i][Len(blocks[i])] = Projection(o, FALSE)
    <3> DEFINE n == g[i] + Len(blocks[i])
    <3>1. /\ Len(blocks[i]) \in DOMAIN blocks[i] /\ Len(blocks[i]) \in Nat
          /\ \A j \in DOMAIN blocks[i] : j \in Nat /\ j <= Len(blocks[i])
      BY <2>3, <2>4 DEF SightSound
    <3>2. n \in DOMAIN q /\ q[n] = Projection(o, FALSE)
      BY <1>8, <2>4, <3>1
    <3>3. ASSUME NEW m \in DOMAIN q, m > n PROVE ~About(q[m], o.key)
      <4>0. PICK h \in DOMAIN line :
              \E j \in DOMAIN blocks[h] : m = g[h] + j /\ q[m] \in Range(blocks[h])
        BY <1>9
      <4>1. PICK j \in DOMAIN blocks[h] : m = g[h] + j /\ q[m] \in Range(blocks[h])
        BY <4>0
      <4>2. h # i
        <5> SUFFICES ASSUME h = i PROVE FALSE
          OBVIOUS
        <5>1. m = g[i] + j /\ j \in Nat /\ j <= Len(blocks[i]) /\ g[i] \in Nat
          BY <1>2, <3>1, <4>1
        <5> QED BY <3>1, <3>3, <5>1
      <4> QED BY <2>2, <4>1, <4>2
    <3>4. Agrees(q[n], o.key, map)
      BY <1>13, <3>2 DEF Agrees, Retains
    <3> HIDE DEF n
    <3> QED BY <3>2, <3>3, <3>4 DEF Settles, LastTold
  <2>5. CASE blocks[i] = <<>>
    <3>1. ASSUME NEW m \in DOMAIN q PROVE ~About(q[m], o.key)
      <4>1. PICK h \in DOMAIN line : q[m] \in Range(blocks[h])
        BY <1>9
      <4>2. h # i
        BY <2>5, <4>1 DEF Range
      <4> QED BY <2>2, <4>1, <4>2
    <3> QED BY <2>3, <2>5, <3>1 DEF Quiet, SightSound, LastTold
  <2> QED BY <2>3, <2>4, <2>5 DEF SightSound
<1> QED BY <1>12, <1>13

-----------------------------------------------------------------------------
(* What a scan, complete or failed, tells as a whole.                      *)

Unaltered(k, map) ==
  /\ k \in DOMAIN sessions <=> k \in DOMAIN map
  /\ k \in DOMAIN sessions => /\ map[k].observed = sessions[k].observed
                              /\ map[k].stale = sessions[k].stale

\* For every key the events end with what the map says of it now, or they say
\* nothing and it has not changed.
TellsAll(q, map) ==
  \A k \in Key : Settles(q, k, map) \/ (Quiet(q, k) /\ Unaltered(k, map))

\* A process ID whose session is shown has no other one shown, and one that
\* was retained is removed first.
TellsInOrder(q) ==
  \E r \in Seq(Event), t \in Seq(Event) :
    /\ q = r \o t
    /\ \A e \in Range(r) : e.kind = "removed"
    /\ \A e \in Range(t) : \A j \in Key :
         e.kind = "projection" /\ j # e.of.key /\ j.pid = e.of.key.pid
         => /\ \A f \in Range(t) : ~Brings(f, j)
            /\ j \in DOMAIN sessions => \E e2 \in Range(r) : Removes(e2, j)

\* Ready is told of the retained sessions that the scan finds idle and armed.
TellsReady(q) ==
  /\ \A e \in Range(q) : e.kind = "ready" =>
       \E o \in observed : e.of = o /\ Known(o) /\ BecameReady(sessions[o.key], o)
  /\ \A o \in observed :
       Known(o) /\ BecameReady(sessions[o.key], o) => Tell("ready", o) \in Range(q)

LEMMA PartsFinite ==
  ASSUME MapSound
  PROVE  /\ Replaced(sessions, observed) \subseteq DOMAIN sessions
         /\ Missing(sessions, observed) \subseteq DOMAIN sessions
         /\ Lost(sessions, observed) \subseteq Missing(sessions, observed)
         /\ IsFiniteSet(Replaced(sessions, observed))
         /\ IsFiniteSet(Lost(sessions, observed))
         /\ \A keys \in SUBSET DOMAIN sessions : IsFiniteSet(Current(sessions, keys))
                                                 /\ Current(sessions, keys) \subseteq keys
<1>1. /\ Replaced(sessions, observed) \subseteq DOMAIN sessions
      /\ Missing(sessions, observed) \subseteq DOMAIN sessions
      /\ Lost(sessions, observed) \subseteq Missing(sessions, observed)
      /\ \A keys : Current(sessions, keys) \subseteq keys
  BY DEF Replaced, Missing, Lost, Current
<1>2. \A keys \in SUBSET DOMAIN sessions : IsFiniteSet(keys)
  BY FS_Subset DEF MapSound
<1> HIDE DEF Replaced, Missing, Lost, Current
<1>3. \A keys \in SUBSET DOMAIN sessions : Current(sessions, keys) \in SUBSET DOMAIN sessions
  BY <1>1
<1> QED BY <1>1, <1>2, <1>3

\* The keys of a complete scan: those replaced, those missing, those seen.
LEMMA KeysApart ==
  ASSUME ScanState, MapSound
  PROVE  LET re == Replaced(sessions, observed)
             mi == Missing(sessions, observed)
             se == SeenKeys(observed)
         IN  /\ re \cap mi = {} /\ re \cap se = {} /\ mi \cap se = {}
             /\ \A j \in mi \cup se, k \in mi \cup se : j.pid = k.pid => j = k
             /\ \A j \in DOMAIN sessions, k \in mi \cup se : j.pid = k.pid => j = k \/ j \in re
<1>1. \A j \in SeenKeys(observed), k \in SeenKeys(observed) : j.pid = k.pid => j = k
  BY DEF ScanState, SeenKeys
<1>2. \A j \in DOMAIN sessions, k \in DOMAIN sessions : j.pid = k.pid => j = k
  BY DEF MapSound
<1> QED BY <1>1, <1>2 DEF Replaced, Missing

\* The map after a complete scan.
MapAfter(map) ==
  /\ DOMAIN map = (Missing(sessions, observed) \ Lost(sessions, observed)) \cup SeenKeys(observed)
  /\ \A k \in Missing(sessions, observed) \ Lost(sessions, observed) :
       /\ map[k].observed = sessions[k].observed /\ map[k].stale = TRUE
       /\ map[k].armed = sessions[k].armed
  /\ \A o \in observed :
       /\ map[o.key] = IF o.key \in DOMAIN sessions THEN Update(sessions[o.key], o) ELSE Fresh(o)
       /\ map[o.key].observed = o /\ map[o.key].stale = FALSE

LEMMA AfterSuccessMap ==
  ASSUME IInv, ScanState, MapSound, NEW map, map = AfterSuccess(sessions, observed)
  PROVE  MapAfter(map)
<1>1. DOMAIN map = (Missing(sessions, observed) \ Lost(sessions, observed)) \cup SeenKeys(observed)
  <2>1. DOMAIN map =
          (DOMAIN sessions \ (Replaced(sessions, observed) \cup Lost(sessions, observed)))
            \cup SeenKeys(observed)
    BY DEF AfterSuccess
  <2> QED BY <2>1 DEF Missing
<1>2. ASSUME NEW k \in Missing(sessions, observed) \ Lost(sessions, observed)
      PROVE  map[k].observed = sessions[k].observed /\ map[k].stale = TRUE
             /\ map[k].armed = sessions[k].armed
  <2>1. k \in DOMAIN sessions /\ sessions[k] \in RetainedSession
    BY DEF Missing, IInv, MapType
  <2>2. map[k] = Missed(sessions[k])
    BY <1>1, <1>2, AfterSuccessCases, KeysApart DEF SeenKeys
  <2> QED BY <2>1, <2>2 DEF Missed, RetainedSession
<1>3. ASSUME NEW o \in observed
      PROVE  /\ map[o.key] = IF o.key \in DOMAIN sessions THEN Update(sessions[o.key], o)
                             ELSE Fresh(o)
             /\ map[o.key].observed = o /\ map[o.key].stale = FALSE
  <2>1. o.key \in SeenKeys(observed) /\ o.key \in DOMAIN map
    BY <1>1 DEF SeenKeys
  <2>2. o.key \notin Missing(sessions, observed)
    BY <2>1 DEF Missing
  <2>3. PICK p \in observed :
          /\ p.key = o.key
          /\ \/ o.key \in DOMAIN sessions /\ map[o.key] = Update(sessions[o.key], p)
             \/ o.key \notin DOMAIN sessions /\ map[o.key] = Fresh(p)
    BY <2>1, <2>2, AfterSuccessCases
  <2>4. p = o
    BY <2>3 DEF ScanState
  <2>5. map[o.key] = IF o.key \in DOMAIN sessions THEN Update(sessions[o.key], o) ELSE Fresh(o)
    BY <2>3, <2>4
  <2>6. map[o.key].observed = o /\ map[o.key].stale = FALSE
    BY <2>5 DEF Update, Fresh
  <2> QED BY <2>5, <2>6
<1> QED BY <1>1, <1>2, <1>3 DEF MapAfter

LEMMA SuccessTells ==
  ASSUME IInv, ScanState, MapSound, NEW map, map = AfterSuccess(sessions, observed),
         NEW q \in SuccessEvents(sessions, observed)
  PROVE  q \in Seq(Event) /\ TellsAll(q, map) /\ TellsInOrder(q) /\ TellsReady(q)
<1> DEFINE re == Replaced(sessions, observed)
           mi == Missing(sessions, observed)
           cu == Current(sessions, Missing(sessions, observed))
           lo == Lost(sessions, observed)
           se == SeenKeys(observed)
<1>0. MapType /\ observed \subseteq ObservedSession
  BY DEF IInv, InputType
<1>1. PICK replaced \in Orders(re), stale \in Orders(cu), lost \in Orders(lo),
           line \in ByPid(observed) :
        q = RemovedEvents(sessions, replaced) \o StaleEvents(sessions, stale)
              \o RemovedEvents(sessions, lost) \o SightEvents(sessions, line)
  BY DEF SuccessEvents
<1>2. PICK r, s, l, f : /\ r = RemovedEvents(sessions, replaced)
                        /\ s = StaleEvents(sessions, stale)
                        /\ l = RemovedEvents(sessions, lost)
                        /\ f = SightEvents(sessions, line)
  OBVIOUS
<1>3. q = ((r \o s) \o l) \o f
  BY <1>1, <1>2
<1>4. /\ re \subseteq DOMAIN sessions /\ lo \subseteq mi /\ cu \subseteq mi /\ mi \subseteq DOMAIN sessions
      /\ IsFiniteSet(re) /\ IsFiniteSet(cu) /\ IsFiniteSet(lo) /\ lo \subseteq DOMAIN sessions
      /\ cu \subseteq DOMAIN sessions
  BY PartsFinite
<1>5. /\ re \cap mi = {} /\ re \cap se = {} /\ mi \cap se = {}
      /\ \A j \in mi \cup se, k \in mi \cup se : j.pid = k.pid => j = k
      /\ \A j \in DOMAIN sessions, k \in mi \cup se : j.pid = k.pid => j = k \/ j \in re
  BY KeysApart
<1>6. /\ DOMAIN map = (mi \ lo) \cup se
      /\ \A k \in mi \ lo : map[k].observed = sessions[k].observed /\ map[k].stale = TRUE
      /\ \A o \in observed : map[o.key].observed = o /\ map[o.key].stale = FALSE
  <2>1. MapAfter(map)
    BY AfterSuccessMap
  <2> QED BY <2>1 DEF MapAfter
<1> HIDE DEF re, mi, cu, lo, se
<1>7. /\ r \in Seq(Event)
      /\ \A e \in Range(r) : e.kind = "removed"
      /\ \A k : k \notin re => Quiet(r, k)
      /\ \A k \in re \ DOMAIN map : Settles(r, k, map)
  BY <1>0, <1>1, <1>2, <1>4, RemovedFacts
<1>8. /\ s \in Seq(Event)
      /\ \A e \in Range(s) : e.kind = "projection" /\ e.of.key \in cu
      /\ \A k : k \notin cu => Quiet(s, k)
      /\ \A k \in cu : k \in DOMAIN map /\ map[k].observed = sessions[k].observed
                       /\ map[k].stale = TRUE => Settles(s, k, map)
  BY <1>0, <1>1, <1>2, <1>4, StaleFacts
<1>9. /\ l \in Seq(Event)
      /\ \A e \in Range(l) : e.kind = "removed"
      /\ \A k : k \notin lo => Quiet(l, k)
      /\ \A k \in lo \ DOMAIN map : Settles(l, k, map)
  BY <1>0, <1>1, <1>2, <1>4, RemovedFacts
<1>10. SightsSound(f)
  BY <1>0, <1>1, <1>2, SightsFacts
<1>11. \A o \in observed : LastTold(f, o, map)
  <2> SUFFICES ASSUME NEW o \in observed PROVE LastTold(f, o, map)
    OBVIOUS
  <2>1. Retains(map, o)
    BY <1>6 DEF se, SeenKeys, Retains
  <2> QED BY <1>0, <1>1, <1>2, <2>1, SightsFacts
<1>12. \A k : k \notin se => Quiet(f, k)
  BY <1>10 DEF SightsSound, Quiet, About, Range, se
<1>13. f \in Seq(Event)
  BY <1>10 DEF SightsSound
<1>14. PICK rs \in Seq(Event) : rs = r \o s
  BY <1>7, <1>8, ConcatFacts
<1>15. PICK rsl \in Seq(Event) : rsl = rs \o l
  BY <1>9, ConcatFacts
<1>16. q = rsl \o f /\ q \in Seq(Event)
  BY <1>3, <1>13, <1>14, <1>15, ConcatFacts
<1>17. TellsAll(q, map)
  <2> SUFFICES ASSUME NEW k \in Key
               PROVE  Settles(q, k, map) \/ (Quiet(q, k) /\ Unaltered(k, map))
    BY DEF TellsAll
  <2>1. CASE k \in re
    <3>1. k \notin DOMAIN map /\ k \notin cu /\ k \notin lo /\ k \notin se
      BY <1>4, <1>5, <1>6, <2>1
    <3>2. Settles(r, k, map) /\ Quiet(s, k) /\ Quiet(l, k) /\ Quiet(f, k)
      BY <1>7, <1>8, <1>9, <1>12, <2>1, <3>1
    <3>3. Settles(rs, k, map)
      BY <1>7, <1>8, <1>14, <3>2, SettlesFirst
    <3>4. Settles(rsl, k, map)
      BY <1>9, <1>15, <3>2, <3>3, SettlesFirst
    <3> QED BY <1>13, <1>16, <3>2, <3>4, SettlesFirst
  <2>2. CASE k \in lo
    <3>1. k \notin DOMAIN map /\ k \notin se
      BY <1>4, <1>5, <1>6, <2>2
    <3>2. Settles(l, k, map) /\ Quiet(f, k)
      BY <1>9, <1>12, <2>2, <3>1
    <3>3. Settles(rsl, k, map)
      BY <1>9, <1>15, <3>2, SettlesLast
    <3> QED BY <1>13, <1>16, <3>2, <3>3, SettlesFirst
  <2>3. CASE k \in mi \ lo
    <3>1. /\ k \in DOMAIN map /\ map[k].observed = sessions[k].observed /\ map[k].stale = TRUE
          /\ k \notin se /\ k \notin re /\ k \in DOMAIN sessions
      BY <1>4, <1>5, <1>6, <2>3
    <3>2. Quiet(r, k) /\ Quiet(l, k) /\ Quiet(f, k)
      BY <1>7, <1>9, <1>12, <2>3, <3>1
    <3>3. CASE k \in cu
      <4>1. Settles(s, k, map)
        BY <1>8, <3>1, <3>3
      <4>2. Settles(rs, k, map)
        BY <1>7, <1>8, <1>14, <4>1, SettlesLast
      <4>3. Settles(rsl, k, map)
        BY <1>9, <1>15, <3>2, <4>2, SettlesFirst
      <4> QED BY <1>13, <1>16, <3>2, <4>3, SettlesFirst
    <3>4. CASE k \notin cu
      <4>1. Quiet(s, k)
        BY <1>8, <3>4
      <4>2. Quiet(rs, k)
        BY <1>7, <1>8, <1>14, <3>2, <4>1, QuietConcat
      <4>3. Quiet(rsl, k)
        BY <1>9, <1>15, <3>2, <4>2, QuietConcat
      <4>4. Quiet(q, k)
        BY <1>13, <1>16, <3>2, <4>3, QuietConcat
      <4>5. sessions[k].stale \in BOOLEAN
        BY <1>0, <3>1 DEF MapType, RetainedSession
      <4>6. sessions[k].stale = TRUE
        BY <2>3, <3>4, <4>5 DEF Current, cu, mi
      <4> QED BY <3>1, <4>4, <4>6 DEF Unaltered
    <3> QED BY <3>3, <3>4
  <2>4. CASE k \in se
    <3>1. k \notin re /\ k \notin cu /\ k \notin lo /\ k \in DOMAIN map
      BY <1>4, <1>5, <1>6, <2>4
    <3>2. Quiet(r, k) /\ Quiet(s, k) /\ Quiet(l, k)
      BY <1>7, <1>8, <1>9, <3>1
    <3>3. Quiet(rs, k)
      BY <1>7, <1>8, <1>14, <3>2, QuietConcat
    <3>4. Quiet(rsl, k)
      BY <1>9, <1>15, <3>2, <3>3, QuietConcat
    <3>5. PICK o \in observed : o.key = k
      BY <2>4 DEF se, SeenKeys
    <3>6. CASE Settles(f, k, map)
      BY <1>13, <1>16, <3>6, SettlesLast
    <3>7. CASE Quiet(f, k) /\ Known(o) /\ sessions[k].observed = o /\ ~sessions[k].stale
      <4>1. Quiet(q, k)
        BY <1>13, <1>16, <3>4, <3>7, QuietConcat
      <4>2. k \in DOMAIN sessions
        BY <3>5, <3>7 DEF Known
      <4>3. sessions[k].stale \in BOOLEAN
        BY <1>0, <4>2 DEF MapType, RetainedSession
      <4>4. map[k].observed = o /\ map[k].stale = FALSE
        BY <1>6, <3>5
      <4> QED BY <3>1, <3>7, <4>1, <4>2, <4>3, <4>4 DEF Unaltered
    <3> QED BY <1>11, <3>5, <3>6, <3>7 DEF LastTold
  <2>5. CASE k \notin re /\ k \notin mi /\ k \notin se
    <3>1. k \notin cu /\ k \notin lo /\ k \notin DOMAIN map
      BY <1>4, <1>6, <2>5
    <3>2. k \notin DOMAIN sessions
      BY <2>5 DEF re, mi, se, Missing
    <3>3. Quiet(r, k) /\ Quiet(s, k) /\ Quiet(l, k) /\ Quiet(f, k)
      BY <1>7, <1>8, <1>9, <1>12, <2>5, <3>1
    <3>4. Quiet(rs, k)
      BY <1>7, <1>8, <1>14, <3>3, QuietConcat
    <3>5. Quiet(rsl, k)
      BY <1>9, <1>15, <3>3, <3>4, QuietConcat
    <3>6. Quiet(q, k)
      BY <1>13, <1>16, <3>3, <3>5, QuietConcat
    <3> QED BY <3>1, <3>2, <3>6 DEF Unaltered
  <2> QED BY <2>1, <2>2, <2>3, <2>4, <2>5
<1>18. TellsInOrder(q)
  <2>1. PICK sl \in Seq(Event) : sl = s \o l
    BY <1>8, <1>9, ConcatFacts
  <2>2. PICK t \in Seq(Event) : t = sl \o f
    BY <1>13, ConcatFacts
  <2>3. q = r \o t
    <3>1. PICK lf \in Seq(Event) : lf = l \o f
      BY <1>9, <1>13, ConcatFacts
    <3>2. /\ r \in Seq(Event) /\ s \in Seq(Event) /\ l \in Seq(Event) /\ f \in Seq(Event)
          /\ rs \in Seq(Event) /\ lf \in Seq(Event)
      BY <1>7, <1>8, <1>9, <1>13
    <3>3. (rs \o l) \o f = rs \o (l \o f)
      BY <3>2
    <3>4. (r \o s) \o lf = r \o (s \o lf)
      BY <3>2
    <3>5. (s \o l) \o f = s \o (l \o f)
      BY <3>2
    <3> QED BY <1>14, <1>15, <1>16, <2>1, <2>2, <3>1, <3>3, <3>4, <3>5
  <2>4. Range(t) = Range(s) \cup Range(l) \cup Range(f)
    <3>1. Range(sl) = Range(s) \cup Range(l)
      BY <1>8, <1>9, <2>1, RangeConcat
    <3>2. Range(t) = Range(sl) \cup Range(f)
      BY <1>13, <2>2, RangeConcat
    <3> QED BY <3>1, <3>2
  <2>5. \A e \in Range(t) : e.kind = "projection" => e.of.key \in mi \cup se
    BY <1>4, <1>8, <1>9, <1>10, <2>4 DEF SightsSound, se
  <2>6. ASSUME NEW e \in Range(t), NEW j \in Key, e.kind = "projection",
               j # e.of.key, j.pid = e.of.key.pid
        PROVE  /\ \A f2 \in Range(t) : ~Brings(f2, j)
               /\ j \in DOMAIN sessions => \E e2 \in Range(r) : Removes(e2, j)
    <3>1. e.of.key \in mi \cup se
      BY <2>5, <2>6
    <3>2. j \notin mi \cup se
      BY <1>5, <2>6, <3>1
    <3>3. \A f2 \in Range(t) : ~Brings(f2, j)
      BY <2>5, <3>2 DEF Brings
    <3>4. ASSUME j \in DOMAIN sessions PROVE \E e2 \in Range(r) : Removes(e2, j)
      <4>1. j \in re
        BY <1>5, <2>6, <3>1, <3>4
      <4>2. j \notin DOMAIN map
        BY <1>6, <3>2
      <4>3. Settles(r, j, map)
        BY <1>7, <4>1, <4>2
      <4>4. PICK n \in DOMAIN r : Agrees(r[n], j, map)
        BY <4>3 DEF Settles
      <4> QED BY <4>2, <4>4 DEF Agrees, Range
    <3> QED BY <3>3, <3>4
  <2> QED BY <1>7, <2>3, <2>6 DEF TellsInOrder
<1>19. TellsReady(q)
  <2>1. Range(q) = Range(r) \cup Range(s) \cup Range(l) \cup Range(f)
    <3>1. Range(rs) = Range(r) \cup Range(s)
      BY <1>7, <1>8, <1>14, RangeConcat
    <3>2. Range(rsl) = Range(rs) \cup Range(l)
      BY <1>9, <1>15, RangeConcat
    <3>3. Range(q) = Range(rsl) \cup Range(f)
      BY <1>13, <1>16, RangeConcat
    <3> QED BY <3>1, <3>2, <3>3
  <2>2. \A e \in Range(q) : e.kind = "ready" => e \in Range(f)
    BY <1>7, <1>8, <1>9, <2>1
  <2> QED BY <1>10, <2>1, <2>2 DEF TellsReady, SightsSound
<1> QED BY <1>16, <1>17, <1>18, <1>19

LEMMA FailureTells ==
  ASSUME IInv, MapSound, NEW map, map = AfterFailure(sessions),
         NEW q \in FailureEvents(sessions)
  PROVE  /\ q \in Seq(Event) /\ TellsAll(q, map) /\ TellsInOrder(q)
         /\ \A e \in Range(q) : e.kind = "projection"
<1> DEFINE cu == Current(sessions, DOMAIN sessions)
<1>1. MapType /\ IsFiniteSet(cu) /\ cu \subseteq DOMAIN sessions
  BY PartsFinite DEF IInv
<1>2. PICK order \in Orders(cu) : q = StaleEvents(sessions, order)
  BY DEF FailureEvents
<1>3. /\ DOMAIN map = DOMAIN sessions
      /\ \A k \in DOMAIN sessions : map[k].observed = sessions[k].observed /\ map[k].stale = TRUE
  <2>1. map = [k \in DOMAIN sessions |-> [sessions[k] EXCEPT !.stale = TRUE]]
    BY DEF AfterFailure
  <2>2. \A k \in DOMAIN sessions : sessions[k] \in RetainedSession
    BY <1>1 DEF MapType
  <2> QED BY <2>1, <2>2 DEF RetainedSession
<1> HIDE DEF cu
<1>4. /\ q \in Seq(Event)
      /\ \A e \in Range(q) : e.kind = "projection" /\ e.of.key \in cu
      /\ \A k : k \notin cu => Quiet(q, k)
      /\ \A k \in cu : k \in DOMAIN map /\ map[k].observed = sessions[k].observed
                       /\ map[k].stale = TRUE => Settles(q, k, map)
  BY <1>1, <1>2, StaleFacts
<1>5. TellsAll(q, map)
  <2> SUFFICES ASSUME NEW k \in Key, k \notin cu PROVE Unaltered(k, map)
    BY <1>1, <1>3, <1>4 DEF TellsAll
  <2>1. k \in DOMAIN sessions => sessions[k].stale = TRUE
    <3>1. k \in DOMAIN sessions => sessions[k].stale \in BOOLEAN
      BY <1>1 DEF MapType, RetainedSession
    <3> QED BY <3>1 DEF cu, Current
  <2> QED BY <1>3, <2>1 DEF Unaltered
<1>6. TellsInOrder(q)
  <2>1. <<>> \in Seq(Event) /\ q = <<>> \o q /\ Range(<<>>) = {}
    BY <1>4 DEF Range
  <2>2. ASSUME NEW e \in Range(q), NEW j \in Key, j # e.of.key, j.pid = e.of.key.pid
        PROVE  j \notin DOMAIN sessions /\ \A f \in Range(q) : ~Brings(f, j)
    <3>1. e.of.key \in DOMAIN sessions
      BY <1>1, <1>4
    <3>2. j \notin DOMAIN sessions
      BY <2>2, <3>1 DEF MapSound
    <3> QED BY <1>1, <1>4, <3>2 DEF Brings
  <2> QED BY <1>4, <2>1, <2>2 DEF TellsInOrder
<1> QED BY <1>4, <1>5, <1>6

-----------------------------------------------------------------------------
(* The events on their way, as the loop adds to them.                      *)

LEMMA ClearExtends ==
  ASSUME NEW a \in Seq(Event), NEW b \in Seq(Event), NEW k, NEW n \in DOMAIN a
  PROVE  Clear(a, k, n) <=> Clear(a \o b, k, n)
<1>1. PICK c : c = a \o b
  OBVIOUS
<1>2. /\ DOMAIN a \subseteq DOMAIN c /\ \A m \in DOMAIN a : c[m] = a[m]
      /\ \A m \in DOMAIN c : m < n => m \in DOMAIN a
      /\ DOMAIN a \subseteq Nat /\ DOMAIN c \subseteq Nat
  <2>1. /\ Len(a) \in Nat /\ DOMAIN a = 1 .. Len(a) /\ Len(b) \in Nat
        /\ DOMAIN c = 1 .. Len(a) + Len(b)
        /\ \A m \in DOMAIN a : c[m] = a[m]
    BY <1>1, ConcatFacts
  <2> QED BY <2>1
<1>3. Clear(a, k, n) => Clear(c, k, n)
  <2>1. ASSUME NEW m \in DOMAIN a, m < n, Removes(a[m], k),
               \A l \in DOMAIN a : m < l /\ l < n => ~Brings(a[l], k)
        PROVE  m \in DOMAIN c /\ Removes(c[m], k)
               /\ \A l \in DOMAIN c : m < l /\ l < n => ~Brings(c[l], k)
    BY <1>2, <2>1
  <2>2. (\A m \in DOMAIN a : m < n => ~Brings(a[m], k))
        => \A m \in DOMAIN c : m < n => ~Brings(c[m], k)
    BY <1>2
  <2> QED BY <2>1, <2>2 DEF Clear
<1>4. Clear(c, k, n) => Clear(a, k, n)
  <2>1. ASSUME NEW m \in DOMAIN c, m < n, Removes(c[m], k),
               \A l \in DOMAIN c : m < l /\ l < n => ~Brings(c[l], k)
        PROVE  m \in DOMAIN a /\ Removes(a[m], k)
               /\ \A l \in DOMAIN a : m < l /\ l < n => ~Brings(a[l], k)
    BY <1>2, <2>1
  <2>2. (\A m \in DOMAIN c : m < n => ~Brings(c[m], k))
        => \A m \in DOMAIN a : m < n => ~Brings(a[m], k)
    BY <1>2
  <2> QED BY <2>1, <2>2 DEF Clear
<1> QED BY <1>1, <1>3, <1>4

\* The loop has told what a scan gave rise to.
LEMMA TellingPreserves ==
  ASSUME EventType, Settled, OneAtATime, pc # "stopped", outbox = <<>>,
         channel' = channel, rows' = rows, outbox' \in Seq(Event),
         TellsAll(outbox', sessions'), TellsInOrder(outbox')
  PROVE  Settled' /\ OneAtATime'
<1>1. Pending = channel /\ channel \in Seq(Event)
  BY DEF Pending, EventType
<1>2. PICK q \in Seq(Event) : q = outbox'
  OBVIOUS
<1>3. Pending' = channel \o q
  BY <1>2 DEF Pending
<1>4. ASSUME NEW k \in Key
      PROVE  (Quiet(Pending', k) /\ RowAgrees(k)') \/ Settles(Pending', k, sessions')
  <2>1. CASE Settles(q, k, sessions')
    BY <1>1, <1>3, <2>1, SettlesLast
  <2>2. CASE Quiet(q, k) /\ Unaltered(k, sessions')
    <3>1. CASE Quiet(channel, k) /\ RowAgrees(k)
      <4>1. Quiet(Pending', k)
        BY <1>1, <1>3, <2>2, <3>1, QuietConcat
      <4>2. RowAgrees(k)'
        BY <2>2, <3>1 DEF RowAgrees, Unaltered
      <4> QED BY <4>1, <4>2
    <3>2. CASE Settles(channel, k, sessions)
      <4>1. Settles(channel, k, sessions')
        BY <2>2, <3>2 DEF Settles, Agrees, Unaltered
      <4> QED BY <1>1, <1>3, <2>2, <4>1, SettlesFirst
    <3> QED BY <1>1, <3>1, <3>2 DEF Settled
  <2> QED BY <1>2, <2>1, <2>2 DEF TellsAll
<1>5. Settled'
  BY <1>4 DEF Settled
<1>6. PICK r \in Seq(Event), t \in Seq(Event) :
        /\ q = r \o t
        /\ \A e \in Range(r) : e.kind = "removed"
        /\ \A e \in Range(t) : \A j \in Key :
             e.kind = "projection" /\ j # e.of.key /\ j.pid = e.of.key.pid
             => /\ \A f \in Range(t) : ~Brings(f, j)
                /\ j \in DOMAIN sessions => \E e2 \in Range(r) : Removes(e2, j)
  BY <1>2 DEF TellsInOrder
<1>7. PICK p \in Seq(Event) : p = channel \o q /\ p = Pending'
  BY <1>1, <1>3, ConcatFacts
<1>8. /\ Len(channel) \in Nat /\ DOMAIN channel = 1 .. Len(channel)
      /\ Len(q) \in Nat /\ DOMAIN q = 1 .. Len(q)
      /\ DOMAIN p = 1 .. Len(channel) + Len(q)
      /\ \A m \in DOMAIN channel : p[m] = channel[m]
      /\ \A m \in DOMAIN q : p[Len(channel) + m] = q[m]
      /\ \A m \in DOMAIN p : m \in DOMAIN channel
                             \/ (m - Len(channel) \in DOMAIN q
                                 /\ m = Len(channel) + (m - Len(channel)))
  <2>1. /\ Len(channel) \in Nat /\ DOMAIN channel = 1 .. Len(channel)
        /\ Len(q) \in Nat /\ DOMAIN q = 1 .. Len(q)
        /\ DOMAIN (channel \o q) = 1 .. Len(channel) + Len(q)
    BY <1>1, ConcatFacts
  <2>2. /\ \A m \in DOMAIN channel : (channel \o q)[m] = channel[m]
        /\ \A m \in DOMAIN q : (channel \o q)[Len(channel) + m] = q[m]
    BY <1>1, ConcatFacts
  <2>3. \A m \in DOMAIN p : m \in DOMAIN channel
                             \/ (m - Len(channel) \in DOMAIN q
                                 /\ m = Len(channel) + (m - Len(channel)))
    BY <1>7, <2>1
  <2> QED BY <1>7, <2>1, <2>2, <2>3
<1>9. /\ Len(r) \in Nat /\ DOMAIN r = 1 .. Len(r) /\ Len(t) \in Nat /\ DOMAIN t = 1 .. Len(t)
      /\ DOMAIN q = 1 .. Len(r) + Len(t)
      /\ \A m \in DOMAIN r : q[m] = r[m]
      /\ \A m \in DOMAIN q : m \in DOMAIN r
                             \/ (m - Len(r) \in DOMAIN t /\ q[m] = t[m - Len(r)])
  <2>1. /\ \A m \in DOMAIN q : m \in DOMAIN r
                             \/ (m - Len(r) \in DOMAIN t /\ m = Len(r) + (m - Len(r)))
        /\ \A m \in DOMAIN t : q[Len(r) + m] = t[m]
    BY <1>6, ConcatFacts
  <2>2. /\ Len(r) \in Nat /\ DOMAIN r = 1 .. Len(r) /\ Len(t) \in Nat /\ DOMAIN t = 1 .. Len(t)
        /\ DOMAIN q = 1 .. Len(r) + Len(t)
        /\ \A m \in DOMAIN r : q[m] = r[m]
    BY <1>6, ConcatFacts
  <2> QED BY <2>1, <2>2
<1>10. ASSUME NEW n \in DOMAIN p, NEW j \in Key, p[n].kind = "projection",
              j # p[n].of.key, j.pid = p[n].of.key.pid
       PROVE  Clear(p, j, n)'
  <2>1. CASE n \in DOMAIN channel
    <3>1. Clear(channel, j, n)
      BY <1>1, <1>8, <1>10, <2>1 DEF OneAtATime
    <3>0. Clear(channel \o q, j, n)
      BY <1>1, <2>1, <3>1, ClearExtends
    <3>2. Clear(p, j, n)
      BY <1>7, <3>0
    <3> QED BY <3>2 DEF Clear
  <2>2. CASE n - Len(channel) \in DOMAIN q /\ n = Len(channel) + (n - Len(channel))
    <3> DEFINE i == n - Len(channel)
    <3>1. i \in DOMAIN q /\ p[n] = q[i]
      BY <1>8, <2>2
    <3>2. i - Len(r) \in DOMAIN t /\ q[i] = t[i - Len(r)]
      <4>1. i \notin DOMAIN r
        BY <1>6, <1>9, <1>10, <3>1 DEF Range
      <4> QED BY <1>9, <3>1, <4>1
    <3>3. p[n] \in Range(t)
      BY <3>1, <3>2 DEF Range
    <3>4. /\ \A f \in Range(t) : ~Brings(f, j)
          /\ j \in DOMAIN sessions => \E e2 \in Range(r) : Removes(e2, j)
      BY <1>6, <1>10, <3>3
    <3>5. \A l \in DOMAIN q : ~Brings(q[l], j)
      <4>1. Range(q) = Range(r) \cup Range(t)
        BY <1>6, RangeConcat
      <4>2. \A e \in Range(q) : ~Brings(e, j)
        BY <1>6, <3>4, <4>1 DEF Brings
      <4> QED BY <4>2 DEF Range
    <3>6. CASE j \in DOMAIN sessions
      <4>1. PICK m \in DOMAIN r : Removes(r[m], j)
        BY <3>4, <3>6 DEF Range
      <4>2. /\ Len(channel) + m \in DOMAIN p /\ p[Len(channel) + m] = r[m]
            /\ Len(channel) + m < n
        BY <1>8, <1>9, <2>2, <3>2
      <4>3. ASSUME NEW l \in DOMAIN p, Len(channel) + m < l PROVE ~Brings(p[l], j)
        <5>1. l \notin DOMAIN channel
          BY <1>8, <1>9, <4>3
        <5>2. l - Len(channel) \in DOMAIN q /\ p[l] = q[l - Len(channel)]
          BY <1>8, <5>1
        <5> QED BY <3>5, <5>2
      <4> HIDE DEF i
      <4> QED BY <4>1, <4>2, <4>3 DEF Clear
    <3>7. CASE j \notin DOMAIN sessions
      <4>1. CASE Quiet(channel, j) /\ RowAgrees(j)
        <5>1. j \notin DOMAIN rows /\ \A l \in DOMAIN channel : ~Brings(channel[l], j)
          BY <3>7, <4>1 DEF RowAgrees, Quiet, About, Brings
        <5>2. ASSUME NEW l \in DOMAIN p PROVE ~Brings(p[l], j)
          BY <1>8, <3>5, <5>1
        <5> QED BY <5>1, <5>2 DEF Clear
      <4>2. CASE Settles(channel, j, sessions)
        <5>1. PICK m \in DOMAIN channel :
                Removes(channel[m], j) /\ \A l \in DOMAIN channel : l > m => ~About(channel[l], j)
          BY <3>7, <4>2 DEF Settles, Agrees
        <5>2. m \in DOMAIN p /\ p[m] = channel[m] /\ m < n /\ m \in Nat
          BY <1>8, <2>2
        <5>3. ASSUME NEW l \in DOMAIN p, m < l PROVE ~Brings(p[l], j)
          <6>1. CASE l \in DOMAIN channel
            <7>1. l > m /\ p[l] = channel[l]
              BY <1>8, <5>2, <5>3, <6>1
            <7> QED BY <5>1, <6>1, <7>1 DEF About, Brings
          <6>2. CASE l - Len(channel) \in DOMAIN q /\ l = Len(channel) + (l - Len(channel))
            BY <1>8, <3>5, <6>2
          <6> QED BY <1>8, <6>1, <6>2
        <5> QED BY <5>1, <5>2, <5>3 DEF Clear
      <4> QED BY <1>1, <4>1, <4>2 DEF Settled
    <3> QED BY <3>6, <3>7
  <2> QED BY <1>8, <2>1, <2>2
<1>11. OneAtATime'
  BY <1>7, <1>10 DEF OneAtATime, RowsOnePerProcess
<1> QED BY <1>5, <1>11

-----------------------------------------------------------------------------
(* What the dashboard makes of one event.                                  *)

\* An event that is not about a key leaves its row alone; a removal takes it
\* away; only a projection brings a new one.
LEMMA ShowFacts ==
  ASSUME NEW e \in Event, NEW k \in Key, NEW new, new = Show(rows, e)
  PROVE  /\ ~About(e, k) => (k \in DOMAIN new <=> k \in DOMAIN rows)
                            /\ (k \in DOMAIN rows => new[k] = rows[k])
         /\ Removes(e, k) => k \notin DOMAIN new
         /\ k \in DOMAIN new => k \in DOMAIN rows \/ Brings(e, k)
<1>0. /\ e.kind \in {"found", "removed", "transition", "ready", "projection"}
  BY DEF Event
<1>1. CASE e.kind = "removed"
  <2>1. new = [j \in DOMAIN rows \ {e.of.key} |-> rows[j]]
    BY <1>1 DEF Show, Without
  <2> QED BY <1>1, <2>1 DEF About, Removes
<1>2. CASE e.kind = "projection" /\ ~e.of.tty
  <2>1. new = [j \in DOMAIN rows \ {e.of.key} |-> rows[j]]
    BY <1>2 DEF Show, ShowProjection, Without
  <2> QED BY <1>2, <2>1 DEF About, Removes
<1>3. CASE e.kind = "projection" /\ e.of.tty
  <2>1. PICK row : new = [j \in DOMAIN rows \cup {e.of.key} |->
                            IF j = e.of.key THEN row ELSE rows[j]]
    BY <1>3 DEF Show, ShowProjection, With
  <2> QED BY <1>3, <2>1 DEF About, Removes, Brings
<1>4. CASE e.kind = "ready" /\ e.of.key \in DOMAIN rows
  <2>1. new = [rows EXCEPT ![e.of.key] = ReadyRow(@)]
    BY <1>4 DEF Show
  <2>2. DOMAIN new = DOMAIN rows
    BY <2>1
  <2>3. k # e.of.key /\ k \in DOMAIN rows => new[k] = rows[k]
    BY <2>1
  <2> QED BY <1>4, <2>2, <2>3 DEF About, Removes
<1>5. CASE e.kind = "ready" /\ e.of.key \notin DOMAIN rows
  <2>1. new = rows
    BY <1>5 DEF Show
  <2> QED BY <1>5, <2>1 DEF About, Removes
<1>6. CASE e.kind \in {"found", "transition"}
  <2>1. new = rows
    BY <1>6 DEF Show
  <2> QED BY <1>6, <2>1 DEF About, Removes
<1> QED BY <1>0, <1>1, <1>2, <1>3, <1>4, <1>5, <1>6

LEMMA UpdateRowType ==
  ASSUME NEW row \in Row, NEW o \in ObservedSession, NEW stale \in BOOLEAN
  PROVE  /\ UpdateRow(row, o, stale) \in Row
         /\ Shows(UpdateRow(row, o, stale), o, stale)
         /\ UpdateRow(row, o, stale).generation = row.generation
         /\ o.status = "idle" /\ Occurrence(row) # None
              => UpdateRow(row, o, stale).dismissed = row.dismissed
<1> DEFINE shown == [row EXCEPT !.sid = o.sid, !.busy = o.status \in Working,
                                !.ready = o.status = "idle", !.stale = stale]
           cleared == [shown EXCEPT !.dismissed =
                         IF shown.busy \/ Occurrence(row) # Occurrence(shown) THEN None ELSE @]
<1>1. UpdateRow(row, o, stale) = cleared
  BY DEF UpdateRow
<1>2. /\ shown \in Row
      /\ shown.sid = o.sid /\ shown.stale = stale
      /\ shown.busy = (o.status \in Working) /\ shown.ready = (o.status = "idle")
      /\ shown.generation = row.generation /\ shown.dismissed = row.dismissed
  <2>1. (o.status \in Working) \in BOOLEAN /\ (o.status = "idle") \in BOOLEAN
        /\ o.sid \in SessionIds
    BY DEF ObservedSession
  <2> QED BY <2>1 DEF Row
<1> HIDE DEF shown
<1>3. /\ cleared \in Row
      /\ cleared.sid = shown.sid /\ cleared.stale = shown.stale
      /\ cleared.busy = shown.busy /\ cleared.ready = shown.ready
      /\ cleared.generation = shown.generation
      /\ cleared.dismissed = IF shown.busy \/ Occurrence(row) # Occurrence(shown) THEN None
                             ELSE shown.dismissed
  BY <1>2 DEF Row
<1>4. ASSUME o.status = "idle", Occurrence(row) # None
      PROVE  ~shown.busy /\ Occurrence(row) = Occurrence(shown)
  <2>0. ~(o.status \in Working) /\ o.status = "idle"
    BY <1>4 DEF Working
  <2>1. ~shown.busy /\ shown.ready
    BY <1>2, <2>0
  <2> QED BY <1>2, <1>4, <2>1 DEF Occurrence
<1> HIDE DEF cleared
<1> QED BY <1>1, <1>2, <1>3, <1>4 DEF Shows

LEMMA NewRowType ==
  ASSUME NEW o \in ObservedSession, NEW stale \in BOOLEAN
  PROVE  NewRow(o, stale) \in Row /\ Shows(NewRow(o, stale), o, stale)
<1>1. (o.status \in Working) \in BOOLEAN /\ (o.status = "idle") \in BOOLEAN
      /\ o.sid \in SessionIds
  BY DEF ObservedSession
<1>2. NewRow(o, stale) \in Row
  BY <1>1 DEF NewRow, Row
<1> QED BY <1>2 DEF NewRow, Shows

LEMMA ShowType ==
  ASSUME RowType, NEW e \in Event, NEW new, new = Show(rows, e)
  PROVE  DOMAIN new \subseteq Key /\ \A k \in DOMAIN new : new[k] \in Row
<1>0. e.of \in ObservedSession /\ e.of.key \in Key /\ e.stale \in BOOLEAN
      /\ e.kind \in {"found", "removed", "transition", "ready", "projection"}
  BY DEF Event, ObservedSession
<1>1. CASE e.kind = "removed" \/ (e.kind = "projection" /\ ~e.of.tty)
  <2>1. new = [j \in DOMAIN rows \ {e.of.key} |-> rows[j]]
    BY <1>1 DEF Show, ShowProjection, Without
  <2> QED BY <2>1 DEF RowType
<1>2. CASE e.kind = "projection" /\ e.of.tty
  <2> DEFINE row == IF e.of.key \in DOMAIN rows THEN UpdateRow(rows[e.of.key], e.of, e.stale)
                    ELSE NewRow(e.of, e.stale)
  <2>1. row \in Row
    BY <1>0, UpdateRowType, NewRowType DEF RowType
  <2>2. new = [j \in DOMAIN rows \cup {e.of.key} |-> IF j = e.of.key THEN row ELSE rows[j]]
    BY <1>2 DEF Show, ShowProjection, With
  <2> HIDE DEF row
  <2> QED BY <1>0, <2>1, <2>2 DEF RowType
<1>3. CASE e.kind = "ready" /\ e.of.key \in DOMAIN rows
  <2>1. new = [rows EXCEPT ![e.of.key] = ReadyRow(@)]
    BY <1>3 DEF Show
  <2>2. rows[e.of.key] \in Row
    BY <1>3 DEF RowType
  <2>3. ReadyRow(rows[e.of.key]) \in Row
    <3>1. PICK row \in Row : row = rows[e.of.key]
      BY <2>2
    <3>2. PICK g \in Nat : g = row.generation + 1
      BY DEF Row
    <3>3. [row EXCEPT !.generation = g, !.busy = FALSE, !.ready = TRUE, !.dismissed = None] \in Row
      BY DEF Row
    <3> QED BY <3>1, <3>2, <3>3 DEF ReadyRow
  <2>4. \A k \in DOMAIN rows : new[k] = IF k = e.of.key THEN ReadyRow(rows[k]) ELSE rows[k]
    BY <2>1
  <2>5. DOMAIN new = DOMAIN rows
    BY <2>1
  <2> QED BY <2>3, <2>4, <2>5 DEF RowType
<1>4. CASE ~(e.kind \in {"removed", "projection"} \/ (e.kind = "ready" /\ e.of.key \in DOMAIN rows))
  <2>1. new = rows
    BY <1>4 DEF Show
  <2> QED BY <2>1 DEF RowType
<1> QED BY <1>0, <1>1, <1>2, <1>3, <1>4

\* After an event that says what the map says, so does the row.
LEMMA ShowAgrees ==
  ASSUME MapType, RowType, NEW k \in Key, NEW e \in Event, Agrees(e, k, sessions),
         NEW new, new = Show(rows, e)
  PROVE  /\ k \in DOMAIN new <=> k \in DOMAIN sessions /\ sessions[k].observed.tty
         /\ k \in DOMAIN new => Shows(new[k], sessions[k].observed, sessions[k].stale)
<1>1. CASE k \notin DOMAIN sessions
  <2>1. Removes(e, k)
    BY <1>1 DEF Agrees
  <2> QED BY <1>1, <2>1, ShowFacts
<1>2. CASE k \in DOMAIN sessions
  <2> DEFINE o == sessions[k].observed
             stale == sessions[k].stale
  <2>1. o \in ObservedSession /\ stale \in BOOLEAN /\ o.key = k
    BY <1>2 DEF MapType, RetainedSession
  <2>2. e.kind = "projection" /\ e.of = o /\ e.stale = stale
    BY <1>2 DEF Agrees, Projection
  <2> HIDE DEF o, stale
  <2>3. CASE ~o.tty
    <3>1. new = [j \in DOMAIN rows \ {k} |-> rows[j]]
      BY <2>1, <2>2, <2>3 DEF Show, ShowProjection, Without
    <3> QED BY <2>3, <3>1 DEF o
  <2>4. CASE o.tty
    <3> DEFINE row == IF k \in DOMAIN rows THEN UpdateRow(rows[k], o, stale) ELSE NewRow(o, stale)
    <3>1. new = [j \in DOMAIN rows \cup {k} |-> IF j = k THEN row ELSE rows[j]]
      BY <2>1, <2>2, <2>4 DEF Show, ShowProjection, With
    <3>2. Shows(row, o, stale)
      BY <2>1, UpdateRowType, NewRowType DEF RowType
    <3> HIDE DEF row
    <3>3. k \in DOMAIN new /\ new[k] = row
      BY <3>1
    <3> QED BY <1>2, <2>4, <3>2, <3>3 DEF o, stale
  <2> QED BY <2>3, <2>4
<1> QED BY <1>1, <1>2

\* What the dashboard receives is the first of the events on their way.
LEMMA ReceivesFirst ==
  ASSUME EventType, Receive, NEW p, p = Pending, NEW p2, p2 = Pending'
  PROVE  /\ p \in Seq(Event) /\ p2 \in Seq(Event) /\ Len(p) \in Nat
         /\ DOMAIN p = 1 .. Len(p) /\ 1 \in DOMAIN p /\ DOMAIN p2 = 1 .. Len(p) - 1
         /\ \A m \in DOMAIN p2 : p2[m] = p[m + 1]
         /\ p[1] \in Event /\ rows' = Show(rows, p[1])
<1>1. channel # <<>> /\ channel' = Tail(channel) /\ rows' = Show(rows, Head(channel))
      /\ outbox' = outbox
  BY DEF Receive, ViewStep, loopVars
<1>2. channel \in Seq(Event) /\ outbox \in Seq(Event)
  BY DEF EventType
<1>3. PICK t \in Seq(Event) : /\ t = Tail(channel) /\ Len(channel) \in Nat \ {0}
                              /\ Len(t) = Len(channel) - 1
                              /\ DOMAIN channel = 1 .. Len(channel)
                              /\ DOMAIN t = 1 .. Len(t)
                              /\ \A m \in DOMAIN t : t[m] = channel[m + 1]
                              /\ Head(channel) = channel[1]
  BY <1>1, <1>2
<1>4. p = channel \o outbox /\ p2 = t \o outbox
  BY <1>1, <1>3 DEF Pending
<1>5. /\ p \in Seq(Event) /\ Len(p) = Len(channel) + Len(outbox) /\ Len(outbox) \in Nat
      /\ DOMAIN p = 1 .. Len(p)
      /\ \A m \in DOMAIN channel : p[m] = channel[m]
      /\ \A m \in DOMAIN outbox : p[Len(channel) + m] = outbox[m]
      /\ DOMAIN outbox = 1 .. Len(outbox)
  BY <1>2, <1>4
<1>6. /\ p2 \in Seq(Event) /\ DOMAIN p2 = 1 .. Len(t) + Len(outbox)
      /\ \A m \in DOMAIN t : p2[m] = t[m]
      /\ \A m \in DOMAIN outbox : p2[Len(t) + m] = outbox[m]
  BY <1>2, <1>4
<1>7. ASSUME NEW m \in DOMAIN p2 PROVE p2[m] = p[m + 1]
  <2>1. CASE m \in DOMAIN t
    <3>1. m + 1 \in DOMAIN channel
      BY <1>3, <2>1
    <3> QED BY <1>3, <1>5, <1>6, <2>1, <3>1
  <2>2. CASE m \notin DOMAIN t
    <3>1. /\ m - Len(t) \in DOMAIN outbox /\ m = Len(t) + (m - Len(t))
          /\ m + 1 = Len(channel) + (m - Len(t))
      BY <1>3, <1>5, <1>6, <2>2
    <3> QED BY <1>5, <1>6, <3>1
  <2> QED BY <2>1, <2>2
<1>8. 1 \in DOMAIN channel /\ 1 \in DOMAIN p /\ p[1] = Head(channel)
  BY <1>3, <1>5
<1>9. p[1] \in Event
  BY <1>5, <1>8
<1>10. DOMAIN p2 = 1 .. Len(p) - 1 /\ Len(p) \in Nat
  BY <1>3, <1>5, <1>6
<1> QED BY <1>1, <1>5, <1>6, <1>7, <1>8, <1>9, <1>10

LEMMA ReceivePreserves ==
  ASSUME MapType, RowType, EventType, Settled, OneAtATime, Receive
  PROVE  Settled' /\ OneAtATime'
<1>1. PICK p, p2 : p = Pending /\ p2 = Pending'
  OBVIOUS
<1>2. /\ p \in Seq(Event) /\ p2 \in Seq(Event) /\ Len(p) \in Nat
      /\ DOMAIN p = 1 .. Len(p) /\ 1 \in DOMAIN p /\ DOMAIN p2 = 1 .. Len(p) - 1
      /\ \A m \in DOMAIN p2 : p2[m] = p[m + 1]
      /\ p[1] \in Event /\ rows' = Show(rows, p[1])
  BY <1>1, ReceivesFirst
<1>3. sessions' = sessions /\ pc' = pc
  BY DEF Receive, ViewStep, loopVars
<1>4. /\ \A m \in DOMAIN p2 : m + 1 \in DOMAIN p
      /\ \A m \in DOMAIN p : m # 1 => m - 1 \in DOMAIN p2 /\ p2[m - 1] = p[m]
      /\ DOMAIN p \subseteq Nat /\ DOMAIN p2 \subseteq Nat
      /\ \A m \in DOMAIN p : m >= 1
  BY <1>2
<1>5. ASSUME pc # "stopped", NEW k \in Key
      PROVE  (Quiet(p2, k) /\ RowAgrees(k)') \/ Settles(p2, k, sessions)
  <2>1. CASE Quiet(p, k) /\ RowAgrees(k)
    <3>1. Quiet(p2, k)
      BY <1>2, <1>4, <2>1 DEF Quiet
    <3>2. ~About(p[1], k)
      BY <1>2, <2>1 DEF Quiet
    <3>3. (k \in DOMAIN rows' <=> k \in DOMAIN rows) /\ (k \in DOMAIN rows => rows'[k] = rows[k])
      BY <1>2, <3>2, ShowFacts
    <3>4. RowAgrees(k)'
      BY <1>3, <2>1, <3>3 DEF RowAgrees
    <3> QED BY <3>1, <3>4
  <2>2. CASE Settles(p, k, sessions)
    <3>1. PICK n \in DOMAIN p :
            Agrees(p[n], k, sessions) /\ \A m \in DOMAIN p : m > n => ~About(p[m], k)
      BY <2>2 DEF Settles
    <3>2. CASE n = 1
      <4>1. RowAgrees(k)'
        <5>1. /\ k \in DOMAIN rows' <=> k \in DOMAIN sessions /\ sessions[k].observed.tty
              /\ k \in DOMAIN rows' => Shows(rows'[k], sessions[k].observed, sessions[k].stale)
          BY <1>2, <3>1, <3>2, ShowAgrees
        <5> QED BY <1>3, <5>1 DEF RowAgrees
      <4>2. Quiet(p2, k)
        <5>1. ASSUME NEW m \in DOMAIN p2 PROVE ~About(p2[m], k)
          <6>1. m + 1 \in DOMAIN p /\ m + 1 > n /\ p2[m] = p[m + 1]
            BY <1>2, <1>4, <3>2
          <6> QED BY <3>1, <6>1
        <5> QED BY <5>1 DEF Quiet
      <4> QED BY <4>1, <4>2
    <3>3. CASE n # 1
      <4>1. n - 1 \in DOMAIN p2 /\ p2[n - 1] = p[n]
        BY <1>4, <3>3
      <4>2. ASSUME NEW m \in DOMAIN p2, m > n - 1 PROVE ~About(p2[m], k)
        <5>1. m + 1 \in DOMAIN p /\ m + 1 > n /\ p2[m] = p[m + 1]
          BY <1>2, <1>4, <4>2
        <5> QED BY <3>1, <5>1
      <4> QED BY <3>1, <4>1, <4>2 DEF Settles
    <3> QED BY <3>2, <3>3
  <2> QED BY <1>1, <1>5, <2>1, <2>2 DEF Settled
<1>6. Settled'
  BY <1>1, <1>3, <1>5 DEF Settled
<1>7. ASSUME NEW n \in DOMAIN p2, NEW k \in Key, p2[n].kind = "projection",
             k # p2[n].of.key, k.pid = p2[n].of.key.pid
      PROVE  Clear(p2, k, n)'
  <2>1. n + 1 \in DOMAIN p /\ p2[n] = p[n + 1] /\ n \in Nat
    BY <1>2, <1>4
  <2>2. Clear(p, k, n + 1)
    BY <1>1, <1>7, <2>1 DEF OneAtATime
  <2>3. CASE k \notin DOMAIN rows /\ \A m \in DOMAIN p : m < n + 1 => ~Brings(p[m], k)
    <3>1. ~Brings(p[1], k)
      BY <1>2, <1>4, <2>1, <2>3
    <3>2. k \notin DOMAIN rows'
      BY <1>2, <2>3, <3>1, ShowFacts
    <3>3. ASSUME NEW m \in DOMAIN p2, m < n PROVE ~Brings(p2[m], k)
      <4>1. m + 1 \in DOMAIN p /\ m + 1 < n + 1 /\ p2[m] = p[m + 1]
        BY <1>2, <1>4, <2>1, <3>3
      <4> QED BY <2>3, <4>1
    <3> QED BY <3>2, <3>3 DEF Clear
  <2>4. ASSUME NEW m \in DOMAIN p, m < n + 1, Removes(p[m], k),
               \A l \in DOMAIN p : m < l /\ l < n + 1 => ~Brings(p[l], k)
        PROVE  Clear(p2, k, n)'
    <3>0. ASSUME NEW l \in DOMAIN p2, m < l + 1, l < n PROVE ~Brings(p2[l], k)
      <4>1. l + 1 \in DOMAIN p /\ l + 1 < n + 1 /\ p2[l] = p[l + 1]
        BY <1>2, <1>4, <2>1, <3>0
      <4> QED BY <2>4, <3>0, <4>1
    <3>1. CASE m = 1
      <4>1. k \notin DOMAIN rows'
        BY <1>2, <2>4, <3>1, ShowFacts
      <4>2. \A l \in DOMAIN p2 : l < n => ~Brings(p2[l], k)
        <5>1. \A l \in DOMAIN p2 : m < l + 1
          BY <1>2, <3>1
        <5> QED BY <3>0, <5>1
      <4> QED BY <4>1, <4>2 DEF Clear
    <3>2. CASE m # 1
      <4>1. m - 1 \in DOMAIN p2 /\ p2[m - 1] = p[m] /\ m - 1 < n
        BY <1>4, <2>1, <2>4, <3>2
      <4>2. \A l \in DOMAIN p2 : m - 1 < l /\ l < n => ~Brings(p2[l], k)
        <5>1. \A l \in DOMAIN p2 : m - 1 < l => m < l + 1
          BY <1>4
        <5> QED BY <3>0, <5>1
      <4> QED BY <2>4, <4>1, <4>2 DEF Clear
    <3> QED BY <3>1, <3>2
  <2> QED BY <2>2, <2>3, <2>4 DEF Clear
<1>8. RowsOnePerProcess'
  <2> SUFFICES ASSUME NEW j \in DOMAIN rows', NEW k \in DOMAIN rows', j.pid = k.pid, j # k,
                      \/ k \notin DOMAIN rows
                      \/ j \in DOMAIN rows /\ k \in DOMAIN rows
               PROVE  FALSE
    BY DEF RowsOnePerProcess
  <2>1. j \in Key /\ k \in Key
    BY <1>2, ShowType
  <2>2. CASE k \notin DOMAIN rows
    <3>1. Brings(p[1], k)
      BY <1>2, <2>1, <2>2, ShowFacts
    <3>2. Clear(p, j, 1)
      BY <1>1, <1>2, <2>1, <3>1 DEF OneAtATime, Brings
    <3>3. j \notin DOMAIN rows
      BY <1>4, <3>2 DEF Clear
    <3>4. ~Brings(p[1], j)
      BY <3>1 DEF Brings
    <3> QED BY <1>2, <2>1, <3>3, <3>4, ShowFacts
  <2>3. CASE j \in DOMAIN rows /\ k \in DOMAIN rows
    BY <2>3 DEF OneAtATime, RowsOnePerProcess
  <2> QED BY <2>2, <2>3
<1>9. OneAtATime'
  BY <1>1, <1>7, <1>8 DEF OneAtATime
<1> QED BY <1>6, <1>9

LEMMA TailFacts ==
  ASSUME NEW s \in Seq(Event), s # <<>>
  PROVE  /\ Head(s) \in Event /\ Head(s) = s[1]
         /\ Tail(s) \in Seq(Event) /\ Len(Tail(s)) = Len(s) - 1
         /\ DOMAIN Tail(s) = 1 .. Len(s) - 1
         /\ \A m \in DOMAIN Tail(s) : Tail(s)[m] = s[m + 1]
OBVIOUS

LEMMA AppendFacts ==
  ASSUME NEW s \in Seq(Event), NEW e \in Event
  PROVE  /\ Append(s, e) \in Seq(Event) /\ Len(Append(s, e)) = Len(s) + 1
         /\ DOMAIN Append(s, e) = 1 .. Len(s) + 1
         /\ Append(s, e)[Len(s) + 1] = e
         /\ \A m \in DOMAIN s : Append(s, e)[m] = s[m]
OBVIOUS

\* Sending an event leaves the events on their way as they are.
LEMMA SendKeepsPending == ASSUME EventType, Send PROVE Pending' = Pending /\ EventType'
<1>1. /\ channel \in Seq(Event) /\ outbox \in Seq(Event) /\ outbox # <<>>
      /\ channel' = Append(channel, Head(outbox)) /\ outbox' = Tail(outbox)
  BY DEF Send, EventType
<1>2. PICK e \in Event, t \in Seq(Event) :
        /\ e = Head(outbox) /\ t = Tail(outbox) /\ e = outbox[1]
        /\ Len(t) = Len(outbox) - 1 /\ DOMAIN t = 1 .. Len(outbox) - 1
        /\ \A m \in DOMAIN t : t[m] = outbox[m + 1]
  BY <1>1, TailFacts
<1>3. PICK a \in Seq(Event) :
        /\ a = Append(channel, e) /\ Len(a) = Len(channel) + 1 /\ DOMAIN a = 1 .. Len(channel) + 1
        /\ a[Len(channel) + 1] = e /\ \A m \in DOMAIN channel : a[m] = channel[m]
  BY <1>1, AppendFacts
<1>4. PICK p \in Seq(Event), p2 \in Seq(Event) : p = channel \o outbox /\ p2 = a \o t
  <2>1. channel \o outbox \in Seq(Event)
    BY <1>1, ConcatFacts
  <2>2. a \o t \in Seq(Event)
    BY ConcatFacts
  <2> QED BY <2>1, <2>2
<1>5. /\ Len(p2) = Len(p) /\ DOMAIN p = 1 .. Len(p) /\ DOMAIN p2 = 1 .. Len(p)
      /\ Len(p) = Len(channel) + Len(outbox) /\ Len(channel) \in Nat /\ Len(outbox) \in Nat
      /\ DOMAIN channel = 1 .. Len(channel) /\ DOMAIN outbox = 1 .. Len(outbox)
      /\ Len(outbox) # 0
  BY <1>1, <1>2, <1>3, <1>4
<1>6. ASSUME NEW m \in DOMAIN p PROVE p2[m] = p[m]
  <2>1. CASE m \in DOMAIN channel
    <3>1. m \in DOMAIN a /\ a[m] = channel[m]
      BY <1>3, <1>5, <2>1
    <3> QED BY <1>1, <1>2, <1>3, <1>4, <2>1, <3>1
  <2>2. CASE m = Len(channel) + 1
    <3>1. m \in DOMAIN a /\ a[m] = e
      BY <1>3, <1>5, <2>2
    <3>2. p2[m] = e
      BY <1>2, <1>3, <1>4, <3>1
    <3>3. p[m] = outbox[1]
      BY <1>1, <1>4, <1>5, <2>2
    <3> QED BY <1>2, <3>2, <3>3
  <2>3. CASE m > Len(channel) + 1
    <3>1. m - Len(a) \in DOMAIN t /\ m = Len(a) + (m - Len(a))
          /\ (m - Len(a)) + 1 \in DOMAIN outbox /\ m = Len(channel) + ((m - Len(a)) + 1)
      BY <1>2, <1>3, <1>5, <2>3
    <3>2. p2[m] = t[m - Len(a)]
      BY <1>2, <1>3, <1>4, <3>1
    <3>3. p[m] = outbox[(m - Len(a)) + 1]
      <4>1. PICK n \in DOMAIN outbox : n = (m - Len(a)) + 1 /\ m = Len(channel) + n
        BY <3>1
      <4>2. p[Len(channel) + n] = outbox[n]
        BY <1>1, <1>4, ConcatFacts
      <4> QED BY <4>1, <4>2
    <3> QED BY <1>2, <3>1, <3>2, <3>3
  <2> QED BY <1>5, <2>1, <2>2, <2>3
<1>7. p2 = p
  <2>1. p = [m \in 1 .. Len(p) |-> p[m]] /\ p2 = [m \in 1 .. Len(p) |-> p2[m]]
    BY <1>5
  <2> QED BY <1>5, <1>6, <2>1
<1>8. Pending' = p2 /\ Pending = p
  BY <1>1, <1>2, <1>3, <1>4 DEF Pending
<1> QED BY <1>1, <1>2, <1>3, <1>7, <1>8 DEF EventType

LEMMA SendPreserves ==
  ASSUME EventType, Settled, OneAtATime, Send PROVE Settled' /\ OneAtATime'
<1>1. Pending' = Pending
  BY SendKeepsPending
<1>2. pc' = pc /\ sessions' = sessions /\ rows' = rows
  BY DEF Send, LoopStep
<1>3. Settled'
  BY <1>1, <1>2 DEF Settled, RowAgrees
<1>4. OneAtATime'
  BY <1>1, <1>2 DEF OneAtATime, RowsOnePerProcess, Clear
<1> QED BY <1>3, <1>4

\* What is not sent any more leaves the rest in order.
LEMMA StopPreserves ==
  ASSUME EventType, OneAtATime, Stop PROVE Settled' /\ OneAtATime'
<1>1. /\ pc' = "stopped" /\ channel' = channel /\ outbox' = <<>> /\ rows' = rows
      /\ channel \in Seq(Event) /\ outbox \in Seq(Event)
  BY DEF Stop, LoopStep, EventType
<1>2. Pending' = channel
  BY <1>1 DEF Pending
<1>3. ASSUME NEW n \in DOMAIN channel, NEW k \in Key, channel[n].kind = "projection",
             k # channel[n].of.key, k.pid = channel[n].of.key.pid
      PROVE  Clear(channel, k, n)
  <2>1. n \in DOMAIN Pending /\ Pending[n] = channel[n]
    <3>1. n \in DOMAIN (channel \o outbox) /\ (channel \o outbox)[n] = channel[n]
      BY <1>1
    <3> QED BY <3>1 DEF Pending
  <2>2. Clear(Pending, k, n)
    BY <1>3, <2>1 DEF OneAtATime
  <2>3. Clear(channel \o outbox, k, n)
    BY <2>2 DEF Pending
  <2> QED BY <1>1, <2>3, ClearExtends
<1>4. ASSUME NEW n \in DOMAIN channel, NEW k \in Key, channel[n].kind = "projection",
             k # channel[n].of.key, k.pid = channel[n].of.key.pid
      PROVE  Clear(channel, k, n)'
  BY <1>1, <1>3, <1>4 DEF Clear
<1>5. OneAtATime'
  <2>1. RowsOnePerProcess'
    BY <1>1 DEF OneAtATime, RowsOnePerProcess
  <2> QED BY <1>1, <1>2, <1>4, <2>1 DEF OneAtATime, Clear
<1>6. Settled'
  BY <1>1 DEF Settled
<1> QED BY <1>5, <1>6

\* What the user does changes nothing but the attention of a row.
LEMMA UserPreserves ==
  ASSUME RowType, Settled, OneAtATime, NEW k \in DOMAIN rows, Dismiss(k) \/ Restore(k)
  PROVE  RowType' /\ Settled' /\ OneAtATime' /\ Pending' = Pending
<1>0. outbox' = outbox /\ channel' = channel /\ sessions' = sessions /\ pc' = pc
  BY DEF Dismiss, Restore, ViewStep, loopVars
<1>1. Pending' = Pending
  BY <1>0 DEF Pending
<1>2. PICK d : d \in Nat \cup {None} /\ rows' = [rows EXCEPT ![k].dismissed = d]
  <2>1. Occurrence(rows[k]) \in Nat \cup {None}
    BY DEF Occurrence, RowType, Row
  <2> QED BY <2>1 DEF Dismiss, Restore
<1>3. DOMAIN rows' = DOMAIN rows
  BY <1>2
<1>4. ASSUME NEW j \in DOMAIN rows
      PROVE  /\ rows'[j] \in Row
             /\ rows'[j].sid = rows[j].sid /\ rows'[j].stale = rows[j].stale
             /\ rows'[j].busy = rows[j].busy /\ rows'[j].ready = rows[j].ready
  <2>1. rows'[j] = IF j = k THEN [rows[j] EXCEPT !.dismissed = d] ELSE rows[j]
    BY <1>2
  <2>2. rows[j] \in Row
    BY DEF RowType
  <2> QED BY <1>2, <2>1, <2>2 DEF Row
<1>5. RowType'
  BY <1>3, <1>4 DEF RowType
<1>6. \A j : RowAgrees(j) => RowAgrees(j)'
  BY <1>0, <1>3, <1>4 DEF RowAgrees, Shows
<1>7. Settled'
  BY <1>0, <1>1, <1>6 DEF Settled
<1>8. OneAtATime'
  BY <1>1, <1>3 DEF OneAtATime, RowsOnePerProcess, Clear
<1> QED BY <1>1, <1>5, <1>7, <1>8

-----------------------------------------------------------------------------
(* The scan and the map.                                                   *)

LEMMA ScanPreserved ==
  ASSUME ScanState, [Next]_vars PROVE ScanState'
<1>1. CASE Tick
  <2>1. IsFiniteSet({})
    BY FS_EmptySet
  <2> QED BY <1>1, <2>1 DEF Tick, ScanState
<1>2. ASSUME NEW p \in Pids, ReadMarker(p) PROVE ScanState'
  <2>1. pc = "scan" /\ p \in todo /\ todo' = todo \ {p} /\ pc' = pc /\ outbox' = outbox
        /\ (observed' = observed \cup Sight(p) \/ observed' = observed)
    BY <1>2 DEF ReadMarker
  <2>2. PICK o : Sight(p) \subseteq {o} /\ (Sight(p) # {} => o.key.pid = p)
    <3> DEFINE o == [key |-> [pid |-> p, start |-> births[p]], sid |-> marker[p].sid,
                     tty |-> p \in tty, status |-> marker[p].status]
    <3>1. Sight(p) \subseteq {o} /\ o.key.pid = p
      BY DEF Sight
    <3> QED BY <3>1
  <2>3. IsFiniteSet(observed \cup Sight(p))
    <3>1. Sight(p) = {} \/ Sight(p) = {o}
      BY <2>2
    <3>2. IsFiniteSet(Sight(p))
      BY <3>1, FS_EmptySet, FS_Singleton
    <3> QED BY <3>2, FS_Union DEF ScanState
  <2>4. \A s \in observed : s.key.pid # p
    BY <2>1 DEF ScanState
  <2>5. IsFiniteSet(observed')
    BY <2>1, <2>3 DEF ScanState
  <2>6. \A s \in observed' : s \in observed \/ (s = o /\ o.key.pid = p)
    BY <2>1, <2>2
  <2>7. \A o1 \in observed', o2 \in observed' : o1.key.pid = o2.key.pid => o1 = o2
    BY <2>4, <2>6 DEF ScanState
  <2>8. \A s \in observed' : s.key.pid \notin todo'
    BY <2>1, <2>6 DEF ScanState
  <2> QED BY <2>1, <2>5, <2>7, <2>8 DEF ScanState
<1>3. CASE Scanned \/ ScanFails
  <2>1. IsFiniteSet({})
    BY FS_EmptySet
  <2> QED BY <1>3, <2>1 DEF Scanned, ScanFails, ScanState
<1>4. CASE Send
  BY <1>4 DEF Send, ScanState
<1>5. CASE Sent
  BY <1>5 DEF Sent, ScanState
<1>6. CASE Stop
  <2>1. IsFiniteSet({})
    BY FS_EmptySet
  <2> QED BY <1>6, <2>1 DEF Stop, ScanState
<1>7. CASE UNCHANGED <<pc, todo, observed, outbox>>
  BY <1>7 DEF ScanState
<1>8. ASSUME NEW p \in Pids, Change(p) PROVE UNCHANGED <<pc, todo, observed, outbox>>
  BY <1>8 DEF Change, Start, Exit, LoseTerminal, WriteMarker, WorldStep, loopVars
<1>9. Shutdown \/ Receive \/ (\E k \in DOMAIN rows : Dismiss(k) \/ Restore(k)) \/ Rest \/ UNCHANGED vars
      => UNCHANGED <<pc, todo, observed, outbox>>
  BY DEF Shutdown, Receive, Dismiss, Restore, ViewStep, Rest, vars, loopVars
<1> QED BY <1>1, <1>2, <1>3, <1>4, <1>5, <1>6, <1>7, <1>8, <1>9 DEF Next, Loop

LEMMA ScannedMapSound == ASSUME IInv, ScanState, MapSound, Scanned PROVE MapSound'
<1>1. MapAfter(sessions')
  BY AfterSuccessMap DEF Scanned
<1>2. DOMAIN sessions' =
        (Missing(sessions, observed) \ Lost(sessions, observed)) \cup SeenKeys(observed)
  BY <1>1 DEF MapAfter
<1>3. IsFiniteSet(SeenKeys(observed))
  <2> DEFINE f == [o \in observed |-> o.key]
  <2>1. f \in Surjection(observed, SeenKeys(observed))
    BY DEF Surjection, SeenKeys
  <2> QED BY <2>1, FS_Surjection DEF ScanState
<1>4. IsFiniteSet(DOMAIN sessions')
  <2>1. (Missing(sessions, observed) \ Lost(sessions, observed)) \in SUBSET DOMAIN sessions
    BY DEF Missing
  <2>2. IsFiniteSet(Missing(sessions, observed) \ Lost(sessions, observed))
    BY <2>1, FS_Subset DEF MapSound
  <2> QED BY <1>2, <1>3, <2>2, FS_Union
<1>5. \A j \in DOMAIN sessions', k \in DOMAIN sessions' : j.pid = k.pid => j = k
  BY <1>2, KeysApart
<1> QED BY <1>4, <1>5 DEF MapSound

LEMMA MapPreserved == ASSUME IInv, ScanState, MapSound, [Next]_vars PROVE MapSound'
<1>1. CASE Scanned
  BY <1>1, ScannedMapSound
<1>2. CASE ScanFails
  <2>1. DOMAIN sessions' = DOMAIN sessions
    BY <1>2 DEF ScanFails, AfterFailure
  <2> QED BY <2>1 DEF MapSound
<1>3. CASE ~Scanned /\ ~ScanFails
  BY <1>3, MapUntouched DEF MapSound
<1> QED BY <1>1, <1>2, <1>3

-----------------------------------------------------------------------------
(* The armed sessions.                                                     *)

LEMMA AnnouncedRange ==
  ASSUME NEW q PROVE Announced(q) = {Identity(e.of) : e \in {e2 \in Range(q) : e2.kind = "ready"}}
BY DEF Announced, Range

\* What a complete scan makes of the armed sessions.
LEMMA ScannedArmed ==
  ASSUME IInv, ScanState, MapSound, ArmedSound, Scanned PROVE ArmedSound'
<1>1. MapAfter(sessions') /\ outbox' \in SuccessEvents(sessions, observed)
  BY AfterSuccessMap DEF Scanned
<1>2. TellsReady(outbox')
  BY <1>1, SuccessTells
<1>3. worked' = ((worked \cup {Identity(o) : o \in {w \in observed : w.status \in Working}})
                  \ Announced(outbox'))
                 \cap {Identity(sessions'[k].observed) : k \in DOMAIN sessions'}
  BY DEF Scanned
<1>4. ASSUME NEW i
      PROVE  i \in Announced(outbox') <=>
               \E o \in observed : i = Identity(o) /\ Known(o) /\ BecameReady(sessions[o.key], o)
  <2>1. ASSUME NEW e \in Range(outbox'), e.kind = "ready", i = Identity(e.of)
        PROVE  \E o \in observed : i = Identity(o) /\ Known(o) /\ BecameReady(sessions[o.key], o)
    BY <1>2, <2>1 DEF TellsReady
  <2>2. ASSUME NEW o \in observed, i = Identity(o), Known(o), BecameReady(sessions[o.key], o)
        PROVE  i \in Announced(outbox')
    <3>1. Tell("ready", o) \in Range(outbox')
      BY <1>2, <2>2 DEF TellsReady
    <3>2. Tell("ready", o).kind = "ready" /\ Tell("ready", o).of = o
      BY DEF Tell
    <3> QED BY <2>2, <3>1, <3>2, AnnouncedRange
  <2> QED BY <2>1, <2>2, AnnouncedRange
<1>5. worked' \subseteq {Identity(sessions'[k].observed) : k \in DOMAIN sessions'}
  BY <1>3
<1>6. DOMAIN sessions' =
        (Missing(sessions, observed) \ Lost(sessions, observed)) \cup SeenKeys(observed)
  BY <1>1 DEF MapAfter
<1>7. \A k \in DOMAIN sessions : sessions[k] \in RetainedSession /\ sessions[k].observed.key = k
  BY DEF IInv, MapType
<1> DEFINE Sound(k) ==
      /\ sessions'[k].armed <=> Identity(sessions'[k].observed) \in worked'
      /\ sessions'[k].observed.status = "idle" => ~sessions'[k].armed
      /\ sessions'[k].observed.status \in Working => sessions'[k].armed
<1>8. ASSUME NEW k \in Missing(sessions, observed) \ Lost(sessions, observed) PROVE Sound(k)
  <2>1. k \in DOMAIN sessions /\ k \notin SeenKeys(observed) /\ k \in DOMAIN sessions'
    BY <1>6 DEF Missing
  <2>2. sessions'[k].observed = sessions[k].observed /\ sessions'[k].armed = sessions[k].armed
    BY <1>1 DEF MapAfter
  <2>3. \A o \in observed : Identity(o) # Identity(sessions[k].observed)
    BY <1>7, <2>1 DEF Identity, SeenKeys
  <2>4. Identity(sessions[k].observed) \notin Announced(outbox')
    BY <1>4, <2>3
  <2>5. Identity(sessions[k].observed) \in worked' <=> Identity(sessions[k].observed) \in worked
    BY <1>3, <2>1, <2>2, <2>3, <2>4
  <2> QED BY <2>1, <2>2, <2>5 DEF ArmedSound
<1>9. ASSUME NEW o \in observed PROVE Sound(o.key)
  <2> DEFINE k == o.key
             r == sessions[o.key]
             i == Identity(o)
  <2>1. /\ k \in DOMAIN sessions' /\ sessions'[k].observed = o
        /\ sessions'[k] = IF k \in DOMAIN sessions THEN Update(r, o) ELSE Fresh(o)
    BY <1>1, <1>6 DEF MapAfter, SeenKeys
  <2>2. \A w \in observed : Identity(w) = i => w = o
    BY DEF ScanState, Identity
  <2>3. i \in Announced(outbox') <=> Known(o) /\ BecameReady(r, o)
    BY <1>4, <2>2
  <2>4. i \in worked' <=> (i \in worked \/ o.status \in Working) /\ ~(Known(o) /\ BecameReady(r, o))
    <3>1. i \in {Identity(sessions'[j].observed) : j \in DOMAIN sessions'}
      BY <2>1
    <3>2. i \in {Identity(w) : w \in {w \in observed : w.status \in Working}} <=> o.status \in Working
      BY <2>2
    <3> HIDE DEF i
    <3> QED BY <1>3, <2>3, <3>1, <3>2
  <2>5. ~Known(o) => i \notin worked
    <3> SUFFICES ASSUME i \in worked PROVE Known(o)
      OBVIOUS
    <3>1. PICK j \in DOMAIN sessions : i = Identity(sessions[j].observed)
      BY DEF ArmedSound
    <3> QED BY <1>7, <3>1 DEF Identity, Known
  <2>6. CASE ~Known(o)
    <3>1. sessions'[k] = Fresh(o)
      BY <2>1, <2>6 DEF Known, Update
    <3>2. sessions'[k].armed = (o.status \in Working)
      BY <3>1 DEF Fresh
    <3>3. o.status = "idle" => ~(o.status \in Working)
      BY DEF Working
    <3> QED BY <2>1, <2>4, <2>5, <2>6, <3>2, <3>3
  <2>7. CASE Known(o)
    <3>1. /\ k \in DOMAIN sessions /\ r.observed.sid = o.sid /\ r.observed.key = k
          /\ r.armed \in BOOLEAN
      BY <1>7, <2>7 DEF Known, RetainedSession
    <3>2. sessions'[k].armed = Rearmed(r, o)
      BY <2>1, <3>1 DEF Update
    <3>3. i = Identity(r.observed)
      BY <3>1 DEF Identity
    <3>4. /\ r.armed <=> i \in worked
          /\ r.observed.status = "idle" => ~r.armed
          /\ r.observed.status \in Working => r.armed
      BY <3>1, <3>3 DEF ArmedSound
    <3>5. o.status = "idle" => ~(o.status \in Working)
      BY DEF Working
    <3>6. i \in worked' <=> (r.armed \/ o.status \in Working)
                            /\ ~(r.observed.status # o.status /\ o.status = "idle" /\ r.armed)
      BY <2>4, <2>7, <3>4 DEF BecameReady
    <3>7. CASE r.observed.status = o.status
      <4>1. sessions'[k].armed = r.armed
        BY <3>2, <3>7 DEF Rearmed
      <4> HIDE DEF r, i
      <4> QED BY <2>1, <3>3, <3>4, <3>6, <3>7, <4>1 DEF i
    <3>8. CASE r.observed.status # o.status
      <4>1. sessions'[k].armed <=> o.status \in Working \/ (r.armed /\ o.status # "idle")
        BY <3>2, <3>8 DEF Rearmed
      <4> HIDE DEF r
      <4> QED BY <2>1, <3>5, <3>6, <3>8, <4>1
    <3> QED BY <3>7, <3>8
  <2> QED BY <2>6, <2>7
<1>10. \A k \in DOMAIN sessions' : Sound(k)
  BY <1>6, <1>8, <1>9 DEF SeenKeys
<1> QED BY <1>5, <1>10 DEF ArmedSound

LEMMA FailedArmed ==
  ASSUME MapType, ArmedSound, ScanFails PROVE ArmedSound'
<1>1. sessions' = [k \in DOMAIN sessions |-> [sessions[k] EXCEPT !.stale = TRUE]] /\ worked' = worked
  BY DEF ScanFails, AfterFailure
<1>2. DOMAIN sessions' = DOMAIN sessions
  BY <1>1
<1>3. ASSUME NEW k \in DOMAIN sessions
      PROVE  sessions'[k].observed = sessions[k].observed /\ sessions'[k].armed = sessions[k].armed
  <2>1. sessions[k] \in RetainedSession
    BY DEF MapType
  <2> QED BY <1>1, <2>1 DEF RetainedSession
<1> QED BY <1>1, <1>2, <1>3 DEF ArmedSound

-----------------------------------------------------------------------------
(* The invariant of the loop, the channel and the dashboard.               *)

MonitorInv ==
  /\ IInv /\ ScanState /\ MapSound /\ EventType /\ RowType
  /\ ArmedSound /\ Settled /\ OneAtATime

LEMMA InitMonitorInv == Init => MonitorInv
<1> SUFFICES ASSUME Init PROVE MonitorInv
  OBVIOUS
<1>1. /\ observed = {} /\ pc = "wait" /\ outbox = <<>> /\ channel = <<>> /\ worked = {}
      /\ DOMAIN sessions = {} /\ DOMAIN rows = {}
  BY DEF Init
<1>2. ScanState /\ MapSound
  <2>1. IsFiniteSet({})
    BY FS_EmptySet
  <2> QED BY <1>1, <2>1 DEF ScanState, MapSound
<1>3. EventType /\ RowType /\ ArmedSound
  BY <1>1 DEF EventType, RowType, ArmedSound
<1>4. Pending = <<>> /\ DOMAIN Pending = {}
  <2>1. Pending = <<>>
    BY <1>1 DEF Pending
  <2> QED BY <2>1
<1>5. Settled /\ OneAtATime
  BY <1>1, <1>4 DEF Settled, Quiet, RowAgrees, OneAtATime, RowsOnePerProcess
<1> QED BY <1>2, <1>3, <1>5, InitIInv DEF MonitorInv

\* The steps of the world and those of the loop that neither tell nor send.
Unmoved == UNCHANGED <<sessions, outbox, channel, rows, worked>> /\ (pc = "stopped" => pc' = pc)

LEMMA UnmovedPreserves ==
  ASSUME MonitorInv, Unmoved
  PROVE  EventType' /\ RowType' /\ ArmedSound' /\ Settled' /\ OneAtATime'
<1>1. Pending' = Pending
  BY DEF Unmoved, Pending
<1>2. EventType' /\ RowType' /\ ArmedSound'
  BY DEF MonitorInv, Unmoved, EventType, RowType, ArmedSound
<1>3. Settled'
  BY <1>1 DEF MonitorInv, Unmoved, Settled, RowAgrees
<1>4. OneAtATime'
  BY <1>1 DEF MonitorInv, Unmoved, OneAtATime, RowsOnePerProcess, Clear
<1> QED BY <1>2, <1>3, <1>4

LEMMA StepKinds ==
  ASSUME [Next]_vars
  PROVE  \/ Scanned \/ ScanFails \/ Send \/ Stop \/ Receive \/ Unmoved
         \/ \E k \in DOMAIN rows : Dismiss(k) \/ Restore(k)
<1>1. ASSUME NEW p \in Pids, Change(p) PROVE Unmoved
  BY <1>1 DEF Change, Start, Exit, LoseTerminal, WriteMarker, WorldStep, loopVars, historyVars, Unmoved
<1>2. ASSUME NEW p \in Pids, ReadMarker(p) PROVE Unmoved
  BY <1>2 DEF ReadMarker, LoopStep, Unmoved
<1>3. CASE Tick \/ Sent
  BY <1>3 DEF Tick, Sent, LoopStep, Unmoved
<1>4. CASE Shutdown
  BY <1>4 DEF Shutdown, loopVars, historyVars, Unmoved
<1>5. CASE Rest \/ UNCHANGED vars
  BY <1>5 DEF Rest, vars, loopVars, historyVars, Unmoved
<1> QED BY <1>1, <1>2, <1>3, <1>4, <1>5 DEF Next, Loop

LEMMA NextMonitorInv == MonitorInv /\ [Next]_vars => MonitorInv'
<1> SUFFICES ASSUME MonitorInv, [Next]_vars PROVE MonitorInv'
  OBVIOUS
<1>1. IInv' /\ ScanState' /\ MapSound' /\ MapType
  BY NextIInv, ScanPreserved, MapPreserved DEF MonitorInv, IInv
<1> SUFFICES EventType' /\ RowType' /\ ArmedSound' /\ Settled' /\ OneAtATime'
  BY <1>1 DEF MonitorInv
<1>2. CASE Scanned
  <2>1. /\ pc = "scan" /\ sessions' = AfterSuccess(sessions, observed)
        /\ outbox' \in SuccessEvents(sessions, observed)
        /\ channel' = channel /\ rows' = rows
    BY <1>2 DEF Scanned, LoopStep
  <2>2. outbox' \in Seq(Event) /\ TellsAll(outbox', sessions') /\ TellsInOrder(outbox')
    BY <2>1, SuccessTells DEF MonitorInv
  <2>3. outbox = <<>> /\ pc # "stopped"
    BY <2>1 DEF MonitorInv, ScanState
  <2>4. Settled' /\ OneAtATime'
    BY <2>1, <2>2, <2>3, TellingPreserves DEF MonitorInv
  <2>5. EventType' /\ RowType'
    BY <2>1, <2>2 DEF MonitorInv, EventType, RowType
  <2>6. ArmedSound'
    BY <1>2, ScannedArmed DEF MonitorInv
  <2> QED BY <2>4, <2>5, <2>6
<1>3. CASE ScanFails
  <2>1. /\ pc = "scan" /\ sessions' = AfterFailure(sessions)
        /\ outbox' \in FailureEvents(sessions)
        /\ channel' = channel /\ rows' = rows
    BY <1>3 DEF ScanFails, LoopStep
  <2>2. outbox' \in Seq(Event) /\ TellsAll(outbox', sessions') /\ TellsInOrder(outbox')
    BY <2>1, FailureTells DEF MonitorInv
  <2>3. outbox = <<>> /\ pc # "stopped"
    BY <2>1 DEF MonitorInv, ScanState
  <2>4. Settled' /\ OneAtATime'
    BY <2>1, <2>2, <2>3, TellingPreserves DEF MonitorInv
  <2>5. EventType' /\ RowType'
    BY <2>1, <2>2 DEF MonitorInv, EventType, RowType
  <2>6. ArmedSound'
    BY <1>1, <1>3, FailedArmed DEF MonitorInv
  <2> QED BY <2>4, <2>5, <2>6
<1>4. CASE Send
  <2>1. EventType' /\ Settled' /\ OneAtATime'
    BY <1>4, SendKeepsPending, SendPreserves DEF MonitorInv
  <2>2. sessions' = sessions /\ rows' = rows /\ worked' = worked
    BY <1>4 DEF Send, LoopStep
  <2>3. RowType' /\ ArmedSound'
    BY <2>2 DEF MonitorInv, RowType, ArmedSound
  <2> QED BY <2>1, <2>3
<1>5. CASE Stop
  <2>1. Settled' /\ OneAtATime'
    BY <1>5, StopPreserves DEF MonitorInv
  <2>2. /\ sessions' = sessions /\ rows' = rows /\ worked' = worked
        /\ outbox' = <<>> /\ channel' = channel
    BY <1>5 DEF Stop, LoopStep
  <2>3. RowType' /\ ArmedSound' /\ EventType'
    BY <2>2 DEF MonitorInv, RowType, ArmedSound, EventType
  <2> QED BY <2>1, <2>3
<1>6. CASE Receive
  <2>1. Settled' /\ OneAtATime'
    BY <1>1, <1>6, ReceivePreserves DEF MonitorInv
  <2>2. /\ channel # <<>> /\ channel' = Tail(channel) /\ outbox' = outbox
        /\ rows' = Show(rows, Head(channel)) /\ sessions' = sessions /\ worked' = worked
    BY <1>6 DEF Receive, ViewStep, loopVars
  <2>3. Head(channel) \in Event /\ Tail(channel) \in Seq(Event)
    BY <2>2, TailFacts DEF MonitorInv, EventType
  <2>4. EventType' /\ ArmedSound'
    BY <2>2, <2>3 DEF MonitorInv, EventType, ArmedSound
  <2>5. RowType'
    BY <2>2, <2>3, ShowType DEF MonitorInv, RowType
  <2> QED BY <2>1, <2>4, <2>5
<1>7. ASSUME NEW k \in DOMAIN rows, Dismiss(k) \/ Restore(k)
      PROVE  EventType' /\ RowType' /\ ArmedSound' /\ Settled' /\ OneAtATime'
  <2>1. RowType' /\ Settled' /\ OneAtATime'
    BY <1>7, UserPreserves DEF MonitorInv
  <2>2. outbox' = outbox /\ channel' = channel /\ sessions' = sessions /\ worked' = worked
    BY <1>7 DEF Dismiss, Restore, ViewStep, loopVars
  <2>3. EventType' /\ ArmedSound'
    BY <2>2 DEF MonitorInv, EventType, ArmedSound
  <2> QED BY <2>1, <2>3
<1>8. CASE Unmoved
  BY <1>8, UnmovedPreserves
<1> QED BY <1>2, <1>3, <1>4, <1>5, <1>6, <1>7, <1>8, StepKinds

\* The invariant holds of every behaviour.
THEOREM EventsKeepStep == Spec => []MonitorInv
<1>1. Init => MonitorInv
  BY InitMonitorInv
<1>2. MonitorInv /\ [Next]_vars => MonitorInv'
  BY NextMonitorInv
<1> QED BY <1>1, <1>2, PTL DEF Spec

\* The dashboard shows at most one session of a process ID, between any two
\* events too: the removal of a session is told before its successor is
\* (apply_success, apply_claude_projection).
THEOREM OneRowPerProcess == Spec => []RowsOnePerProcess
<1>1. MonitorInv => RowsOnePerProcess
  BY DEF MonitorInv, OneAtATime
<1> QED BY <1>1, EventsKeepStep, PTL

\* When nothing is on its way, the rows are the sessions the tracker retains
\* that have a terminal, each as it was last observed (apply_success,
\* apply_failure, apply_at).
THEOREM RowsAreTheMap == Spec => []RowsFollow
<1>1. ASSUME MonitorInv, outbox = <<>>, channel = <<>>, pc # "stopped"
      PROVE  /\ DOMAIN rows = {k \in DOMAIN sessions : sessions[k].observed.tty}
             /\ \A k \in DOMAIN rows : Shows(rows[k], sessions[k].observed, sessions[k].stale)
  <2>1. Pending = <<>> /\ DOMAIN Pending = {}
    <3>1. Pending = <<>>
      BY <1>1 DEF Pending
    <3> QED BY <3>1
  <2>2. \A k \in Key : RowAgrees(k)
    BY <1>1, <2>1 DEF MonitorInv, Settled, Settles
  <2>3. DOMAIN rows \subseteq Key /\ DOMAIN sessions \subseteq Key
    BY <1>1 DEF MonitorInv, RowType, IInv, MapType
  <2> QED BY <2>2, <2>3 DEF RowAgrees
<1>2. MonitorInv => RowsFollow
  BY <1>1 DEF RowsFollow
<1> QED BY <1>2, EventsKeepStep, PTL

\* No session that worked and is idle is left unannounced, whatever the scans
\* missed or failed to read of it (apply_success, update_existing).
THEOREM WorkIsAnnounced == Spec => []NothingOwed
<1>1. MonitorInv => NothingOwed
  BY DEF MonitorInv, ArmedSound, NothingOwed
<1> QED BY <1>1, EventsKeepStep, PTL

\* Ready is announced only of work that was seen and not announced yet
\* (apply_success, update_existing).
THEOREM AnnouncementsAreEarned == Spec => ReadyEarned
<1> DEFINE Earned == Announced(outbox') \subseteq Announced(outbox) \cup worked
<1>1. ASSUME MonitorInv, Scanned PROVE Earned
  <2>1. TellsReady(outbox')
    <3>1. outbox' \in SuccessEvents(sessions, observed)
      BY <1>1 DEF Scanned
    <3> QED BY <1>1, <3>1, SuccessTells DEF MonitorInv
  <2>2. ASSUME NEW o \in observed, Known(o), BecameReady(sessions[o.key], o)
        PROVE  Identity(o) \in worked
    <3>1. o.key \in DOMAIN sessions /\ sessions[o.key].armed
      BY <2>2 DEF Known, BecameReady
    <3>2. sessions[o.key].observed.key = o.key /\ sessions[o.key].observed.sid = o.sid
      BY <1>1, <2>2, <3>1 DEF MonitorInv, IInv, MapType, Known
    <3>3. Identity(sessions[o.key].observed) = Identity(o)
      BY <3>2 DEF Identity
    <3> QED BY <1>1, <3>1, <3>3 DEF MonitorInv, ArmedSound
  <2>3. \A e \in Range(outbox') : e.kind = "ready" => Identity(e.of) \in worked
    BY <2>1, <2>2 DEF TellsReady
  <2> QED BY <2>3, AnnouncedRange
<1>2. ASSUME MonitorInv, ScanFails PROVE Earned
  <2>1. \A e \in Range(outbox') : e.kind = "projection"
    BY <1>2, FailureTells DEF MonitorInv, ScanFails
  <2> QED BY <2>1, AnnouncedRange
<1>3. ASSUME MonitorInv, Send PROVE Earned
  <2>1. outbox \in Seq(Event) /\ outbox # <<>> /\ outbox' = Tail(outbox)
    BY <1>3 DEF MonitorInv, EventType, Send
  <2>2. \A m \in DOMAIN Tail(outbox) : m + 1 \in DOMAIN outbox /\ Tail(outbox)[m] = outbox[m + 1]
    BY <2>1, TailFacts
  <2>3. Range(outbox') \subseteq Range(outbox)
    BY <2>1, <2>2 DEF Range
  <2> QED BY <2>3, AnnouncedRange
<1>4. ASSUME Stop PROVE Earned
  BY <1>4 DEF Stop, Announced
<1>5. ASSUME Receive \/ Unmoved \/ (\E k \in DOMAIN rows : Dismiss(k) \/ Restore(k)) PROVE Earned
  <2>1. outbox' = outbox
    BY <1>5 DEF Receive, Unmoved, Dismiss, Restore, ViewStep, loopVars
  <2> QED BY <2>1
<1>6. MonitorInv /\ [Next]_vars => [Earned]_vars
  <2> HIDE DEF Earned
  <2> QED BY <1>1, <1>2, <1>3, <1>4, <1>5, StepKinds
<1> QED BY <1>6, EventsKeepStep, PTL DEF Spec, ReadyEarned

\* What the user dismissed stays dismissed until the session goes on, is
\* announced anew or goes (update_row, dismiss_selected, restore_selected).
THEOREM DismissalsHold == Spec => []DismissalHolds
<1>1. Init => DismissalHolds
  BY DEF Init, DismissalHolds
<1>2. ASSUME MonitorInv, DismissalHolds, Receive PROVE DismissalHolds'
  <2>1. PICK e \in Event : /\ rows' = Show(rows, e)
                           /\ put' = IF EndsDismissal(e) THEN put \ {e.of.key} ELSE put
    <3>1. channel # <<>> /\ channel \in Seq(Event)
      BY <1>2 DEF MonitorInv, EventType, Receive
    <3>2. Head(channel) \in Event
      BY <3>1, TailFacts
    <3> QED BY <1>2, <3>2 DEF Receive
  <2>2. e.of \in ObservedSession /\ e.of.key \in Key /\ e.stale \in BOOLEAN
        /\ e.kind \in {"found", "removed", "transition", "ready", "projection"}
        /\ e.of.status \in Statuses
    BY DEF Event, ObservedSession
  <2> SUFFICES ASSUME NEW k \in put' PROVE k \in DOMAIN rows' /\ IsDismissed(rows'[k])
    BY DEF DismissalHolds
  <2>3. k \in put /\ k \in DOMAIN rows /\ IsDismissed(rows[k]) /\ k \in Key /\ rows[k] \in Row
    BY <1>2, <2>1 DEF DismissalHolds, MonitorInv, RowType
  <2>4. CASE ~About(e, k)
    <3>1. k \in DOMAIN rows' /\ rows'[k] = rows[k]
      BY <2>1, <2>3, <2>4, ShowFacts
    <3> QED BY <2>3, <3>1
  <2>5. CASE About(e, k)
    <3>1. e.of.key = k /\ ~EndsDismissal(e)
      BY <2>1, <2>5 DEF About
    <3>2. e.kind = "projection" /\ e.of.status = "idle" /\ e.of.tty
      BY <2>2, <2>5, <3>1 DEF EndsDismissal, About
    <3> DEFINE row == UpdateRow(rows[k], e.of, e.stale)
    <3>3. rows' = [j \in DOMAIN rows \cup {k} |-> IF j = k THEN row ELSE rows[j]]
      BY <2>1, <2>3, <3>1, <3>2 DEF Show, ShowProjection, With
    <3>4. k \in DOMAIN rows' /\ rows'[k] = row
      BY <3>3
    <3>5. Occurrence(rows[k]) # None /\ rows[k].dismissed = Occurrence(rows[k])
          /\ Occurrence(rows[k]) = rows[k].generation
      BY <2>3 DEF IsDismissed, Occurrence
    <3>6. /\ row.generation = rows[k].generation /\ row.dismissed = rows[k].dismissed
          /\ Shows(row, e.of, e.stale)
      BY <2>2, <2>3, <3>2, <3>5, UpdateRowType
    <3> HIDE DEF row
    <3>7. ~(e.of.status \in Working)
      BY <3>2 DEF Working
    <3>8. row.ready /\ ~row.busy
      BY <3>2, <3>6, <3>7 DEF Shows
    <3>9. IsDismissed(row)
      BY <3>5, <3>6, <3>8 DEF IsDismissed, Occurrence
    <3> QED BY <3>4, <3>9
  <2> QED BY <2>4, <2>5
<1>3. ASSUME MonitorInv, DismissalHolds, NEW k \in DOMAIN rows, Dismiss(k) \/ Restore(k)
      PROVE  DismissalHolds'
  <2>1. CASE Dismiss(k)
    <3>1. rows' = [rows EXCEPT ![k].dismissed = Occurrence(rows[k])]
          /\ put' = put \cup {k} /\ Occurrence(rows[k]) # None
      BY <2>1 DEF Dismiss
    <3>2. rows[k] \in Row
      BY <1>3 DEF MonitorInv, RowType
    <3>3. k \in DOMAIN rows' /\ rows'[k] = [rows[k] EXCEPT !.dismissed = Occurrence(rows[k])]
      BY <3>1
    <3>4. IsDismissed(rows'[k])
      BY <3>1, <3>2, <3>3 DEF IsDismissed, Occurrence, Row
    <3> QED BY <1>3, <3>1, <3>4 DEF DismissalHolds
  <2>2. CASE Restore(k)
    BY <1>3, <2>2 DEF Restore, DismissalHolds
  <2> QED BY <1>3, <2>1, <2>2
<1>4. ASSUME DismissalHolds, UNCHANGED <<rows, put>> PROVE DismissalHolds'
  BY <1>4 DEF DismissalHolds
<1>5. ASSUME [Next]_vars PROVE \/ Receive \/ UNCHANGED <<rows, put>>
                               \/ \E k \in DOMAIN rows : Dismiss(k) \/ Restore(k)
  <2>1. ASSUME NEW p \in Pids, Change(p) PROVE UNCHANGED <<rows, put>>
    BY <2>1 DEF Change, Start, Exit, LoseTerminal, WriteMarker, WorldStep, historyVars
  <2>2. ASSUME NEW p \in Pids, ReadMarker(p) PROVE UNCHANGED <<rows, put>>
    BY <2>2 DEF ReadMarker, LoopStep
  <2>3. CASE Tick \/ Scanned \/ Send \/ Sent \/ Stop \/ ScanFails
    BY <2>3 DEF Tick, Scanned, Send, Sent, Stop, ScanFails, LoopStep
  <2>4. CASE Shutdown \/ Rest \/ UNCHANGED vars
    BY <2>4 DEF Shutdown, Rest, vars, historyVars
  <2> QED BY <1>5, <2>1, <2>2, <2>3, <2>4 DEF Next, Loop
<1>6. MonitorInv /\ DismissalHolds /\ [Next]_vars => DismissalHolds'
  BY <1>2, <1>3, <1>4, <1>5
<1> QED BY <1>1, <1>6, EventsKeepStep, PTL DEF Spec
=============================================================================
