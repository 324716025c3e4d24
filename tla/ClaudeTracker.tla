---------------------------- MODULE ClaudeTracker ----------------------------
(***************************************************************************)
(* The reducer of the Claude Code sessions, ClaudeTracker of               *)
(* src/src/claude.rs: what Beacon retains of the live sessions, and which  *)
(* events a complete scan of their markers, or a failed one, gives rise    *)
(* to.  The module has no variables: `sessions' is the map of the tracker, *)
(* a function of the keys it holds.                                        *)
(*                                                                         *)
(* Abstracted: the working directory and the name of a session (a change   *)
(* of them is told like one of its terminal, and decides nothing).         *)
(***************************************************************************)
EXTENDS SequencesExt

CONSTANTS Pids,       \* process IDs
          SessionIds, \* session IDs
          MaxStarts   \* bound: how often a process ID comes into use

ASSUME TrackerAssumption == Pids \subseteq Nat /\ MaxStarts \in Nat

\* normalize_status.
Statuses == {"busy", "waiting", "idle", "unknown"}

Working == {"busy", "waiting"}

\* A process, told from another one of the same ID by its start time.
Key == [pid : Pids, start : 1 .. MaxStarts]

ObservedSession == [key : Key, sid : SessionIds, tty : BOOLEAN, status : Statuses]

\* An entry that has missed two scans is removed at once.
RetainedSession ==
  [observed : ObservedSession, misses : 0 .. 1, armed : BOOLEAN, stale : BOOLEAN]

Event ==
  [kind : {"found", "removed", "transition", "ready", "projection"},
   of : ObservedSession, stale : BOOLEAN]

Tell(kind, o) == [kind |-> kind, of |-> o, stale |-> FALSE]

Projection(o, stale) == [kind |-> "projection", of |-> o, stale |-> stale]

\* Keys of the map in the order it is iterated over, which is any order.
Orders(keys) == SetToSeqs(keys)

-----------------------------------------------------------------------------
(* apply_success.                                                          *)

SeenKeys(observed) == {o.key : o \in observed}

\* Entries whose process ID another process has now.
Replaced(sessions, observed) ==
  {k \in DOMAIN sessions : \E s \in SeenKeys(observed) : s.pid = k.pid /\ s # k}

Missing(sessions, observed) ==
  DOMAIN sessions \ (Replaced(sessions, observed) \cup SeenKeys(observed))

Missed(r) == [r EXCEPT !.misses = @ + 1, !.stale = TRUE]

\* Those of the missing ones that are removed.
Lost(sessions, observed) ==
  {k \in Missing(sessions, observed) : Missed(sessions[k]).misses >= 2}

\* A session seen for the first time is armed if it works, and is not ready.
Fresh(o) ==
  [observed |-> o, misses |-> 0, armed |-> o.status \in Working, stale |-> FALSE]

\* Mutant of Rearmed: whatever is not working is disarmed.
RearmedByWork(r, o) == o.status \in Working

\* Work arms the session, idleness disarms it, anything else leaves it be.
Rearmed(r, o) ==
  IF r.observed.status = o.status THEN r.armed
  ELSE o.status \in Working \/ (r.armed /\ o.status # "idle")

\* Mutant of Update: another session of the same process keeps the arm.
UpdateKeepingArm(r, o) ==
  [observed |-> o, misses |-> 0, armed |-> Rearmed(r, o), stale |-> FALSE]

\* A retained session is seen again, or another session of its process.
Update(r, o) ==
  IF r.observed.sid # o.sid THEN Fresh(o)
  ELSE [observed |-> o, misses |-> 0, armed |-> Rearmed(r, o), stale |-> FALSE]

BecameReady(r, o) == r.observed.status # o.status /\ o.status = "idle" /\ r.armed

\* Mutant of Changed: it is not told that a session is fresh again.
ChangedData(r, o) == r.observed # o

Changed(r, o) == r.observed # o \/ r.stale

\* What is told of a session seen again.
UpdateEvents(r, o) ==
  IF r.observed.sid # o.sid
  THEN <<Tell("removed", r.observed), Tell("found", o), Projection(o, FALSE)>>
  ELSE LET when(condition, event) == IF condition THEN <<event>> ELSE <<>>
       IN  when(r.observed.status # o.status, Tell("transition", o))
             \o when(BecameReady(r, o), Tell("ready", o))
             \o when(Changed(r, o), Projection(o, FALSE))

SeenEvents(sessions, o) ==
  IF o.key \in DOMAIN sessions
  THEN UpdateEvents(sessions[o.key], o)
  ELSE <<Tell("found", o), Projection(o, FALSE)>>

\* The retained sessions after a complete scan, at most one of each process ID.
AfterSuccess(sessions, observed) ==
  LET kept == DOMAIN sessions \ (Replaced(sessions, observed) \cup Lost(sessions, observed))
      sight(k) == CHOOSE o \in observed : o.key = k
  IN  [k \in kept \cup SeenKeys(observed) |->
         IF k \notin SeenKeys(observed)
         THEN Missed(sessions[k])
         ELSE IF k \in DOMAIN sessions THEN Update(sessions[k], sight(k))
         ELSE Fresh(sight(k))]

\* The sessions a scan has read, as scan sorts them: by process ID, of which
\* each has one.
ByPid(observed) ==
  {line \in SetToSeqs(observed) :
     \A m \in DOMAIN line, n \in DOMAIN line : m < n => line[m].key.pid < line[n].key.pid}

\* The parts of the events of a complete scan, for keys in the order they
\* are come upon.
RemovedEvents(sessions, order) ==
  [n \in DOMAIN order |-> Tell("removed", sessions[order[n]].observed)]

StaleEvents(sessions, order) ==
  [n \in DOMAIN order |-> Projection(sessions[order[n]].observed, TRUE)]

SightEvents(sessions, line) ==
  FlattenSeq([n \in DOMAIN line |-> SeenEvents(sessions, line[n])])

\* Those of the keys that are not stale yet.
Current(sessions, keys) == {k \in keys : ~sessions[k].stale}

\* Mutant of SuccessEvents: a replaced session is removed after its successor.
SuccessEventsReplacedLast(sessions, observed) ==
  {StaleEvents(sessions, stale) \o RemovedEvents(sessions, lost)
     \o SightEvents(sessions, line) \o RemovedEvents(sessions, replaced) :
     replaced \in Orders(Replaced(sessions, observed)),
     stale \in Orders(Current(sessions, Missing(sessions, observed))),
     lost \in Orders(Lost(sessions, observed)),
     line \in ByPid(observed)}

\* What a complete scan may tell, in the order of the code.
SuccessEvents(sessions, observed) ==
  {RemovedEvents(sessions, replaced) \o StaleEvents(sessions, stale)
     \o RemovedEvents(sessions, lost) \o SightEvents(sessions, line) :
     replaced \in Orders(Replaced(sessions, observed)),
     stale \in Orders(Current(sessions, Missing(sessions, observed))),
     lost \in Orders(Lost(sessions, observed)),
     line \in ByPid(observed)}

-----------------------------------------------------------------------------
(* apply_failure.                                                          *)

\* Mutant of AfterFailure: a failed scan counts as a miss.
AfterFailureCounted(sessions) == [k \in DOMAIN sessions |-> Missed(sessions[k])]

AfterFailure(sessions) ==
  [k \in DOMAIN sessions |-> [sessions[k] EXCEPT !.stale = TRUE]]

FailureEvents(sessions) ==
  {StaleEvents(sessions, order) : order \in Orders(Current(sessions, DOMAIN sessions))}
=============================================================================
