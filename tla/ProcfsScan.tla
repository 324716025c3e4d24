------------------------------ MODULE ProcfsScan ------------------------------
(***************************************************************************)
(* The scan of procfs in src/src/discovery.rs: who owns the listening      *)
(* sockets of the TCP tables, which of the owners look like OpenCode, which*)
(* are excluded because an orchestrator launched them, and with what       *)
(* credentials a standalone v2 server is probed.  Every read of procfs is  *)
(* a step of its own, and the processes go on between two of them.         *)
(*                                                                         *)
(* Abstracted: the text of the tables; a listener is its socket.  A        *)
(* password is told by the process whose environment it was read from.     *)
(***************************************************************************)
EXTENDS ProcessTable, Sequences

CONSTANTS Listening, \* sockets that listen
          Outward,   \* of them: on an address that is neither loopback nor unspecified
          Likely,    \* programs that look like OpenCode
          Stdio,     \* of them: standalone v2 servers, started to serve with --stdio
          Passwords, \* programs with a password in their environment
          Launchers, \* programs whose offspring is excluded
          MaxAncestryDepth \* MAX_ANCESTRY_DEPTH: how far up they are looked for

\* Nothing that is not there looks like a process or a program.
ASSUME ScanAssumption ==
  /\ None \notin [pid : Nat, start : Nat, parent : Nat]
  /\ None \notin Likely \cup Stdio \cup Passwords \cup Launchers
  /\ MaxAncestryDepth \in Nat \ {0}

VARIABLES
  scanner,    \* the scan in progress
  owners,     \* owners found, by socket
  excluded,   \* keys of processes that were excluded
  candidates  \* what the scan returned

scanVars == <<scanner, owners, excluded, candidates>>

Inspecting(phase, todo, wanted) ==
  [phase |-> phase, todo |-> todo, wanted |-> wanted, at |-> None, step |-> "likely",
   before |-> None, files |-> {}, chain |-> <<>>, parent |-> None, marker |-> 0, verified |-> 0,
   protocol |-> None, auth |-> None]

\* process_stat: None if it cannot be read.
Stat(p) ==
  IF p \in DOMAIN procs /\ Lives(p)
  THEN [pid |-> p, start |-> procs[p].start, parent |-> procs[p].parent]
  ELSE None

\* launcher_identity
Identity(p) == IF p \in DOMAIN procs /\ Lives(p) THEN procs[p].program ELSE None

At == scanner.at

Stage(step) == scanner.at # None /\ scanner.step = step

Advance(step) == scanner' = [scanner EXCEPT !.step = step]

\* The process is passed over.
PassOver == scanner' = Inspecting(scanner.phase, scanner.todo \ {At}, scanner.wanted)

-----------------------------------------------------------------------------
(* scan_with_namespace_source                                              *)

\* parse_listeners: the rows in state 0A.
Listeners == Listening \cap UNION {Fds(p) : p \in DOMAIN procs}

\* read_listener_table, with eligible_listener.
ListenerTable == Listeners \ Outward

BeginListing ==
  /\ scanner.phase = "idle"
  /\ scanner' = Inspecting("scan", DOMAIN procs, ListenerTable)
  /\ owners' = Nothing /\ excluded' = {} /\ candidates' = {}
  /\ Look

Inspect(p) ==
  /\ scanner.at = None /\ p \in scanner.todo
  /\ scanner' = [scanner EXCEPT !.at = p]
  /\ UNCHANGED <<owners, excluded, candidates>>

\* likely_opencode: its executable, its name or its arguments say so.
LikelyOpencode(p) == Identity(p) \in Likely

LooksLikely ==
  /\ Stage("likely")
  /\ IF LikelyOpencode(At) THEN Advance("stat") ELSE PassOver
  /\ UNCHANGED <<owners, excluded, candidates>>

\* The namespace is read too, and cannot be of a process that is gone.
StatBefore ==
  /\ Stage("stat")
  /\ \/ scanner' = [scanner EXCEPT !.step = "files", !.before = Stat(At)]
     \/ ~Lives(At) /\ PassOver
  /\ UNCHANGED <<owners, excluded, candidates>>

MatchFiles ==
  /\ Stage("files")
  /\ IF Fds(At) \cap scanner.wanted # {}
     THEN scanner' = [scanner EXCEPT !.step = "ancestry", !.files = Fds(At) \cap scanner.wanted]
     ELSE PassOver
  /\ UNCHANGED <<owners, excluded, candidates>>

-----------------------------------------------------------------------------
(* excluded_ancestor_launcher_from: the chain of parents is read up to     *)
(* init, and then all of it once more.                                     *)

Youngest == scanner.before

Eldest == scanner.chain[Len(scanner.chain)]

BeginAncestry ==
  /\ Stage("ancestry")
  /\ scanner' = IF Youngest = None \/ Stat(At) # Youngest
                THEN [scanner EXCEPT !.step = "protocol"]
                ELSE [scanner EXCEPT !.step = "parent", !.chain = <<Youngest>>]
  /\ UNCHANGED <<owners, excluded, candidates>>

\* Mutant of TooFar: one round less.
TooFarEarly == Len(scanner.chain) >= MaxAncestryDepth

\* The rounds of the walk are over.
TooFar == Len(scanner.chain) > MaxAncestryDepth

\* A chain that is too long or cut off, a cycle or a parent younger than its
\* child: not excluded.
ReadParent ==
  /\ Stage("parent")
  /\ LET child == Eldest
         parent == Stat(child.parent)
         visited == {scanner.chain[i].pid : i \in DOMAIN scanner.chain}
     IN  scanner' =
           IF TooFar
           THEN [scanner EXCEPT !.step = "protocol"]
           ELSE IF child.parent = 1 /\ scanner.marker # 0
           THEN [scanner EXCEPT !.step = "verify"]
           ELSE IF \/ child.parent \in {0, 1} \cup visited
                   \/ parent = None
                   \/ parent.start > child.start
           THEN [scanner EXCEPT !.step = "protocol"]
           ELSE [scanner EXCEPT !.step = "identity", !.parent = parent]
  /\ UNCHANGED <<owners, excluded, candidates>>

\* The first launcher counts.
ReadIdentity ==
  /\ Stage("identity")
  /\ LET identity == Identity(scanner.parent.pid)
         chain == Append(scanner.chain, scanner.parent)
     IN  scanner' =
           IF identity = None THEN [scanner EXCEPT !.step = "protocol"]
           ELSE [scanner EXCEPT !.step = "parent", !.chain = chain,
                   !.marker = IF @ = 0 /\ identity \in Launchers THEN Len(chain) ELSE @]
  /\ UNCHANGED <<owners, excluded, candidates>>

\* Mutant of Unchanged: the chain is not read again.
UnchangedUnread(i) == TRUE

Unchanged(i) == Stat(scanner.chain[i].pid) = scanner.chain[i]

\* One process of the chain after the other.
VerifyChain ==
  /\ Stage("verify") /\ scanner.verified < Len(scanner.chain)
  /\ scanner' = IF Unchanged(scanner.verified + 1) THEN [scanner EXCEPT !.verified = @ + 1]
                ELSE [scanner EXCEPT !.step = "protocol"]
  /\ UNCHANGED <<owners, excluded, candidates>>

VerifyLauncher ==
  /\ Stage("verify") /\ scanner.verified = Len(scanner.chain)
  /\ IF Identity(scanner.chain[scanner.marker].pid) \in Launchers
     THEN excluded' = excluded \cup {[pid |-> At, start |-> Youngest.start]} /\ PassOver
     ELSE Advance("protocol") /\ UNCHANGED excluded
  /\ UNCHANGED <<owners, candidates>>

-----------------------------------------------------------------------------
(* The protocol and, for a standalone server, its credentials.             *)

\* is_stdio_v2_server: what cannot be read is no such server.
ReadProtocol ==
  /\ Stage("protocol")
  /\ scanner' = IF Identity(At) \in Stdio
                THEN [scanner EXCEPT !.step = "credentials", !.protocol = "v2"]
                ELSE [scanner EXCEPT !.step = "own", !.protocol = "v1"]
  /\ UNCHANGED <<owners, excluded, candidates>>

\* standalone_auth
ReadCredentials ==
  /\ Stage("credentials")
  /\ IF Identity(At) \in Passwords
     THEN scanner' = [scanner EXCEPT !.step = "confirm",
                        !.auth = [pid |-> At, start |-> procs[At].start]]
     ELSE PassOver
  /\ UNCHANGED <<owners, excluded, candidates>>

\* Mutant of SameServer: the process is not read again.
SameServerUnread == Youngest # None

SameServer == Youngest # None /\ Stat(At) = Youngest

ConfirmServer ==
  /\ Stage("confirm")
  /\ IF SameServer THEN Advance("own") ELSE PassOver
  /\ UNCHANGED <<owners, excluded, candidates>>

Owner == [pid |-> At, protocol |-> scanner.protocol, auth |-> scanner.auth]

Own ==
  /\ Stage("own")
  /\ owners' = [s \in DOMAIN owners \cup scanner.files |->
                  (IF s \in DOMAIN owners THEN owners[s] ELSE {})
                  \cup (IF s \in scanner.files THEN {Owner} ELSE {})]
  /\ PassOver
  /\ UNCHANGED <<excluded, candidates>>

\* Of several owners the one with the lowest ID.
EndListing ==
  /\ scanner.phase = "scan" /\ scanner.at = None /\ scanner.todo = {}
  /\ candidates' =
       {[socket |-> s, owner |-> CHOOSE o \in owners[s] : \A q \in owners[s] : o.pid <= q.pid] :
          s \in DOMAIN owners}
  /\ scanner' = Inspecting("ended", {}, {})
  /\ UNCHANGED <<owners, excluded>>

-----------------------------------------------------------------------------
ScanInit ==
  /\ scanner = Inspecting("idle", {}, {})
  /\ owners = Nothing /\ excluded = {} /\ candidates = {}

ScanStep ==
  \/ /\ \/ \E p \in DOMAIN procs : Inspect(p)
        \/ LooksLikely \/ StatBefore \/ MatchFiles
        \/ BeginAncestry \/ ReadParent \/ ReadIdentity \/ VerifyChain \/ VerifyLauncher
        \/ ReadProtocol \/ ReadCredentials \/ ConfirmServer \/ Own \/ EndListing
     /\ UNCHANGED tableVars
  \/ BeginListing /\ UNCHANGED <<procs, changes>>

-----------------------------------------------------------------------------
(* Properties.                                                             *)

\* Is a launcher among the ancestors of the process, in this table: does a way
\* up, from child to parent, end at one?
Launched(table, p) ==
  \E n \in 1 .. Cardinality(DOMAIN table) : \E up \in [0 .. n -> DOMAIN table] :
    /\ up[0] = p
    /\ \A i \in 1 .. n : table[up[i - 1]] # None /\ table[up[i - 1]].parent = up[i]
    /\ table[up[n]] # None /\ table[up[n]].program \in Launchers

\* Is init too far up from the process, in this table: are more processes on
\* the way than the walk goes through?
Far(table, p) ==
  \E up \in [0 .. MaxAncestryDepth -> DOMAIN table] :
    /\ up[0] = p
    /\ \A i \in 1 .. MaxAncestryDepth :
         table[up[i - 1]] # None /\ table[up[i - 1]].parent = up[i]

\* Whatever the processes do meanwhile: a password goes with the socket of
\* the very process it was read from, which was a standalone server; a process
\* is excluded only if at one moment a launcher was among its ancestors; and
\* while nothing changes each local listener of a likely process that no launcher
\* is above, or that init is too far above, is found, and no other.
ScanSound ==
  /\ \A c \in candidates :
       c.owner.auth # None =>
         /\ c.owner.pid = c.owner.auth.pid
         /\ Was(c.owner.auth, LAMBDA process : c.socket \in process.fds)
         /\ Was(c.owner.auth, LAMBDA process : process.program \in Stdio)
  /\ \A key \in excluded : \E table \in seen :
       /\ table[key.pid] # None /\ table[key.pid].start = key.start
       /\ Launched(table, key.pid)
  /\ scanner.phase = "ended" /\ seen = {procs} =>
       {c.socket : c \in candidates} =
         (Listening \ Outward) \cap UNION {Fds(p) : p \in
           {q \in DOMAIN procs : /\ Lives(q) /\ procs[q].program \in Likely
                                 /\ procs[q].program \in Stdio => procs[q].program \in Passwords
                                 /\ Launched(procs, q) => Far(procs, q)}}
===============================================================================
