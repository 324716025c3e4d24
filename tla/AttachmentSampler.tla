--------------------------- MODULE AttachmentSampler ---------------------------
(***************************************************************************)
(* The attachment sampler of src/src/attachment.rs: which terminal of      *)
(* OpenCode talks to which server (the owner of the client side of a       *)
(* connection in the TCP tables), where the terminals of v1 servers and of *)
(* Claude sessions can be focused, and which attachments outlive a scan    *)
(* that did not find them.  Every read of procfs is a step of its own, and *)
(* the processes go on between two of them; but the reads that give one    *)
(* focus target (environment, kitty's process and socket) are one step, and*)
(* so are those that look at the process again before it is believed.      *)
(*                                                                         *)
(* A key identifies a process by ID and start time (TuiKey).  A focus      *)
(* target says in `of' whose environment it came from; a kitty target      *)
(* names the kitty process as well.                                        *)
(*                                                                         *)
(* Abstracted: what a terminal's arguments say is its program; the text of *)
(* the tables and of environments.                                         *)
(***************************************************************************)
EXTENDS ProcessTable
LOCAL INSTANCE Functions

CONSTANTS Servers,     \* instances of servers: [protocol, pid, endpoint, inode]
          Peer,        \* the peer of a connected socket: an endpoint, or none
          Interactive, \* programs: terminals of OpenCode, by classify_argv
          Claude,      \* programs: Claude
          Terminal,    \* programs that have a controlling terminal
          Konsole,     \* programs whose environment names a Konsole window
          Kitty,       \* the kitty process that a program's environment names, or none
          KittySocket, \* the listening socket of kitty
          MaxScans     \* bound: samples taken

VARIABLES
  targets,  \* v2 servers, by endpoint
  v1,       \* start times of the v1 servers; 0 where not known
  claude,   \* keys of the Claude sessions
  retained, \* terminals: [instance, program, focus, stale, misses], by key
  reader,   \* the sample in progress
  found,    \* terminals found by the scan in progress
  focused,  \* focus targets of v1 servers and of Claude sessions found by it
  scans,    \* samples begun
  lastScan  \* history: keys found by the last scan that succeeded

ASSUME SamplerAssumption == \A i \in Servers : DOMAIN i = {"protocol", "pid", "endpoint", "inode"}

samplerVars == <<targets, v1, claude, retained, reader, found, focused, scans, lastScan>>

KeyOf(p) == [pid |-> p, start |-> procs[p].start]

Reading(phase, todo, wanted) ==
  [phase |-> phase, todo |-> todo, wanted |-> wanted, at |-> None, step |-> "stat",
   key |-> None, peers |-> {}, focus |-> None]

Idle == Reading("idle", {}, {})

-----------------------------------------------------------------------------
(* Focus targets.                                                          *)

\* unix_listener_inode and valid_kitty_socket: the kitty process holds the one
\* listener of the socket that the environment names.
KittyListens(kitty) == KittySocket \in Fds(kitty)

\* kitty_target_matches, after kitty_target_from_environment: the kitty
\* process listens, and the terminal is still the one that was asked for.
KittyTarget(p, key) ==
  LET kitty == Kitty[procs[p].program]
  IN  IF kitty # 0 /\ KittyListens(kitty) /\ Matches(key)
      THEN [client |-> "kitty", of |-> KeyOf(p), kitty |-> KeyOf(kitty)]
      ELSE None

\* read_focus_target: kitty goes before Konsole.
FocusTarget(p, key) ==
  IF ~Lives(p) THEN None
  ELSE IF KittyTarget(p, key) # None THEN KittyTarget(p, key)
  ELSE IF procs[p].program \in Konsole THEN [client |-> "konsole", of |-> KeyOf(p)]
  ELSE None

-----------------------------------------------------------------------------
(* observe: between two samples.                                           *)

ServerFound(i) ==
  /\ reader = Idle
  /\ IF i.protocol = "v2"
     THEN targets' = With(targets, i.endpoint, i) /\ UNCHANGED v1
     ELSE /\ v1' = With(v1, i, IF i \in DOMAIN v1 /\ v1[i] # 0 THEN v1[i]
                               ELSE IF Lives(i.pid) THEN procs[i.pid].start ELSE 0)
          /\ UNCHANGED targets
  /\ UNCHANGED <<claude, retained, reader, found, focused, scans, lastScan>>

ServerRemoved(i) ==
  /\ reader = Idle
  /\ i \in DOMAIN v1 \cup Range(targets)
  /\ targets' = Without(targets, {i.endpoint})
  /\ v1' = Without(v1, {i})
  /\ retained' = Without(retained, {k \in DOMAIN retained : retained[k].instance = i})
  /\ UNCHANGED <<claude, reader, found, focused, scans, lastScan>>

ClaudeFound(p) ==
  /\ reader = Idle
  /\ Lives(p) /\ procs[p].program \in Claude
  /\ claude' = claude \cup {KeyOf(p)}
  /\ UNCHANGED <<targets, v1, retained, reader, found, focused, scans, lastScan>>

ClaudeRemoved(key) ==
  /\ reader = Idle
  /\ claude' = claude \ {key}
  /\ UNCHANGED <<targets, v1, retained, reader, found, focused, scans, lastScan>>

-----------------------------------------------------------------------------
(* apply_success and apply_failure.                                        *)

Stale(r) == [r EXCEPT !.stale = TRUE]

\* Mutant of Missed: one scan is enough.
MissedOnce(r) == [Stale(r) EXCEPT !.misses = 2]

Missed(r) == [Stale(r) EXCEPT !.misses = @ + 1]

Applied ==
  LET missed == [k \in DOMAIN retained \ DOMAIN found |-> Missed(retained[k])]
      kept == {k \in DOMAIN missed : missed[k].misses < 2}
  IN  [k \in kept \cup DOMAIN found |-> IF k \in DOMAIN found THEN found[k] ELSE missed[k]]

-----------------------------------------------------------------------------
(* sample: first the scan.                                                 *)

\* The sockets with a server at the other end, by their inodes; a connection
\* with itself is none.
Connected == {s \in UNION {Fds(p) : p \in DOMAIN procs} : Peer[s] \in DOMAIN targets}

\* The tables of established connections are read; without v2 servers
\* nothing is.
BeginScan ==
  /\ reader = Idle /\ scans < MaxScans
  /\ scans' = scans + 1
  /\ found' = Nothing /\ focused' = Nothing
  /\ Look
  /\ reader' =
       IF targets = Nothing THEN Reading("scanned", {}, {})
       ELSE Reading("scan", DOMAIN procs \ {i.pid : i \in Range(targets)},
                    Connected)
  /\ UNCHANGED <<targets, v1, claude, retained, lastScan>>

\* A table cannot be read or understood.
FailScan ==
  /\ reader = Idle /\ scans < MaxScans /\ targets # Nothing
  /\ scans' = scans + 1
  /\ found' = Nothing /\ focused' = Nothing
  /\ Look
  /\ retained' = [k \in DOMAIN retained |-> Stale(retained[k])]
  /\ reader' = Reading("claude", claude, {})
  /\ UNCHANGED <<targets, v1, claude, lastScan>>

\* What is read next; the process is passed over unless the condition holds.
Proceed(ok, next) ==
  reader' = IF ok THEN next ELSE Reading(reader.phase, reader.todo \ {reader.at}, reader.wanted)

Step(phase, step) == reader.phase = phase /\ reader.at # None /\ reader.step = step

\* The next one is taken up.
TakeUp(x) ==
  /\ reader.at = None /\ x \in reader.todo
  /\ reader' = [reader EXCEPT !.at = x]
  /\ UNCHANGED <<targets, v1, claude, retained, found, focused, scans, lastScan>>

StatProcess ==
  /\ Step("scan", "stat")
  /\ LET p == reader.at
     IN  Proceed(Lives(p) /\ procs[p].program \in Terminal,
                 [reader EXCEPT !.step = "files", !.key = KeyOf(p)])
  /\ UNCHANGED <<targets, v1, claude, retained, found, focused, scans, lastScan>>

\* The arguments, and whose client sockets are among the files.
ReadFiles ==
  /\ Step("scan", "files")
  /\ LET p == reader.at
     IN  Proceed(Lives(p) /\ procs[p].program \in Interactive,
                 [reader EXCEPT !.step = "confirm",
                    !.peers = {Peer[s] : s \in Fds(p) \cap reader.wanted}])
  /\ UNCHANGED <<targets, v1, claude, retained, found, focused, scans, lastScan>>

\* Mutant of Confirmed: the process is not looked at again.
ConfirmedUnread == \E e \in reader.peers : reader.peers = {e}

\* One server, and still the same process.
Confirmed == (\E e \in reader.peers : reader.peers = {e}) /\ Matches(reader.key)

Confirm ==
  /\ Step("scan", "confirm")
  /\ Proceed(Confirmed, [reader EXCEPT !.step = "focus"])
  /\ UNCHANGED <<targets, v1, claude, retained, found, focused, scans, lastScan>>

FindTui ==
  /\ Step("scan", "focus")
  /\ LET endpoint == CHOOSE e \in reader.peers : TRUE
     IN  found' = With(found, reader.key,
                       [instance |-> targets[endpoint], stale |-> FALSE, misses |-> 0,
                        focus |-> FocusTarget(reader.at, reader.key)])
  /\ Proceed(FALSE, reader)
  /\ UNCHANGED <<targets, v1, claude, retained, focused, scans, lastScan>>

EndScan ==
  /\ \/ reader.phase = "scan" /\ reader.at = None /\ reader.todo = {}
     \/ reader.phase = "scanned"
  /\ retained' = Applied
  /\ lastScan' = DOMAIN found
  /\ reader' = Reading("v1", DOMAIN v1, {})
  /\ UNCHANGED <<targets, v1, claude, found, focused, scans>>

-----------------------------------------------------------------------------
(* scan_v1_focus: the owner of the listening socket, looked at before and  *)
(* after its environment.                                                  *)

\* process_owns_socket
OwnsSocket(i) == i.inode \in Fds(i.pid)

\* A start time that is known has to be that of the process.
V1Stat ==
  /\ Step("v1", "stat")
  /\ LET i == reader.at
         p == i.pid
     IN  Proceed(/\ Lives(p) /\ procs[p].program \in Terminal /\ OwnsSocket(i)
                 /\ v1[i] \in {0, procs[p].start},
                 [reader EXCEPT !.step = "focus", !.key = KeyOf(p)])
  /\ UNCHANGED <<targets, v1, claude, retained, found, focused, scans, lastScan>>

V1Focus ==
  /\ Step("v1", "focus")
  /\ LET target == FocusTarget(reader.at.pid, reader.key)
     IN  Proceed(target # None, [reader EXCEPT !.step = "confirm", !.focus = target])
  /\ UNCHANGED <<targets, v1, claude, retained, found, focused, scans, lastScan>>

V1Confirm ==
  /\ Step("v1", "confirm")
  /\ LET i == reader.at
         owns == Matches(reader.key) /\ OwnsSocket(i)
     IN  /\ focused' = IF owns THEN With(focused, i, reader.focus) ELSE focused
         /\ v1' = IF owns THEN [v1 EXCEPT ![i] = reader.key.start] ELSE v1
  /\ Proceed(FALSE, reader)
  /\ UNCHANGED <<targets, claude, retained, found, scans, lastScan>>

EndV1 ==
  /\ reader.phase = "v1" /\ reader.at = None /\ reader.todo = {}
  /\ reader' = Reading("claude", claude, {})
  /\ UNCHANGED <<targets, v1, claude, retained, found, focused, scans, lastScan>>

-----------------------------------------------------------------------------
(* scan_claude_focus: the environment, then focus_process_matches.         *)

ClaudeFocus ==
  /\ Step("claude", "stat")
  /\ LET target == FocusTarget(reader.at.pid, reader.at)
     IN  Proceed(target # None, [reader EXCEPT !.step = "confirm", !.focus = target])
  /\ UNCHANGED <<targets, v1, claude, retained, found, focused, scans, lastScan>>

\* claude_focus_process_matches: the process, its program and the identifiers
\* of the target.
ClaudeConfirm ==
  /\ Step("claude", "confirm")
  /\ LET key == reader.at
         program == procs[key.pid].program
         named == IF reader.focus.client = "konsole" THEN program \in Konsole
                  ELSE Kitty[program] = reader.focus.kitty.pid
     IN  focused' = IF Matches(key) /\ program \in Claude \cap Terminal /\ named
                    THEN With(focused, key, reader.focus) ELSE focused
  /\ Proceed(FALSE, reader)
  /\ UNCHANGED <<targets, v1, claude, retained, found, scans, lastScan>>

EndSample ==
  /\ reader.phase = "claude" /\ reader.at = None /\ reader.todo = {}
  /\ reader' = Idle
  /\ UNCHANGED <<targets, v1, claude, retained, found, focused, scans, lastScan>>

-----------------------------------------------------------------------------
SamplerInit ==
  /\ targets = Nothing /\ v1 = Nothing /\ claude = {} /\ retained = Nothing
  /\ reader = Idle /\ found = Nothing /\ focused = Nothing
  /\ scans = 0 /\ lastScan = {}

\* The steps that leave the processes alone.
SamplerStep ==
  \/ /\ \/ \E i \in Servers : ServerFound(i) \/ ServerRemoved(i)
        \/ \E p \in DOMAIN procs : ClaudeFound(p)
        \/ \E key \in claude : ClaudeRemoved(key)
        \/ \E x \in reader.todo : TakeUp(x)
        \/ StatProcess \/ ReadFiles \/ Confirm \/ FindTui \/ EndScan
        \/ V1Stat \/ V1Focus \/ V1Confirm \/ EndV1
        \/ ClaudeFocus \/ ClaudeConfirm \/ EndSample
     /\ UNCHANGED tableVars
  \/ (BeginScan \/ FailScan) /\ UNCHANGED <<procs, changes>>

-----------------------------------------------------------------------------
(* Properties.                                                             *)

\* Whatever the processes do while they are read: a terminal is attached only
\* to a server it was connected to during this scan, a v1 server's focus is
\* that of the terminal that held its listening socket, and no focus target
\* leads to the terminal of another process while the process that it stands
\* for still runs.
Correlated ==
  /\ \A k \in DOMAIN found :
       /\ Was(k, LAMBDA process : process.program \in Interactive)
       /\ Was(k, LAMBDA process :
                   found[k].instance.endpoint \in {Peer[s] : s \in process.fds})
       /\ found[k].focus # None /\ Matches(k) => found[k].focus.of = k
  /\ \A x \in DOMAIN focused :
       IF x \in Servers
       THEN /\ focused[x].of.pid = x.pid
            /\ Was(focused[x].of, LAMBDA process : x.inode \in process.fds)
       ELSE Matches(x) => focused[x].of = x

\* A terminal is detached by the second scan in a row that succeeds without
\* it and by no other, nor by any that failed; or else with its server.
DetachedLate ==
  [][\A k \in DOMAIN retained :
       \/ k \in DOMAIN retained'
       \/ reader.phase \in {"scan", "scanned"} /\ k \notin lastScan \cup DOMAIN found
       \/ retained[k].instance \notin {targets'[e] : e \in DOMAIN targets'}]_retained
================================================================================
