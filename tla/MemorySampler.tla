----------------------------- MODULE MemorySampler -----------------------------
(***************************************************************************)
(* The memory sampler of src/src/memory.rs: which control group an         *)
(* instance's process is in and how much memory the group uses.  A sample  *)
(* resolves the scope of each instance, validates each scope once more,    *)
(* reads its files and tells every instance its view.  Processes move,     *)
(* end and are replaced, and directories of groups with them, between any  *)
(* two reads.                                                              *)
(*                                                                         *)
(* A group is its directory's identity (CgroupKey); one path may be that   *)
(* of several groups, one after the other.  The values that are read are   *)
(* told apart by the group they are of.  Abstracted: their history, peak   *)
(* and slope, which decide nothing.                                        *)
(***************************************************************************)
EXTENDS ProcessTable

CONSTANTS Instances,  \* instances found in procfs
          PidOf,      \* their process IDs
          Path,       \* the path of each group
          MaxSamples  \* bound: samples taken

VARIABLES
  directory, \* the group whose directory is at each path, or None
  instances, \* [start, scope] of the registered instances; start is 0 where not known
  scopes,    \* [path, values, at] of the groups they are in
  memory,    \* the registration or sample in progress
  resolved,  \* scopes resolved in this sample, by instance
  views,     \* what the last sample told
  now        \* samples begun

ASSUME MemoryAssumption ==
  /\ None \notin Instances /\ DOMAIN PidOf = Instances
  /\ None \notin DOMAIN Path

memoryVars == <<directory, instances, scopes, memory, resolved, views, now>>

\* At work on `at', one of `todo': an instance, or a scope to validate by one
\* of `tries'.
Doing(phase, todo) ==
  [phase |-> phase, todo |-> todo, at |-> None, step |-> "none", tries |-> {},
   key |-> None, path |-> None, group |-> None]

Resting == Doing("idle", {})

Done == Doing(memory.phase, memory.todo \ {memory.at})

-----------------------------------------------------------------------------
(* resolve_scope, read by read.                                            *)

\* Mutant of StillThere: the start time is not read again.
StillThereUnread == TRUE

StillThere == Matches(memory.key)

Read(step, ok, next) ==
  /\ memory.step = step
  /\ memory' = IF ok THEN next ELSE [memory EXCEPT !.step = "failed"]

ResolveScope ==
  /\ \/ Read("stat", Matches(memory.key), [memory EXCEPT !.step = "group"])
     \/ Read("group", Lives(memory.key.pid),
             [memory EXCEPT !.step = "directory", !.path = Path[procs[memory.key.pid].group]])
     \/ Read("directory", directory[memory.path] # None, [memory EXCEPT !.step = "again"])
     \/ Read("again", StillThere, [memory EXCEPT !.step = "metadata"])
     \/ Read("metadata", directory[memory.path] # None,
             [memory EXCEPT !.step = "last", !.group = directory[memory.path]])
     \/ Read("last", StillThere, [memory EXCEPT !.step = "resolved"])
  /\ UNCHANGED <<directory, instances, scopes, resolved, views, now>>

-----------------------------------------------------------------------------
(* register and remove.                                                    *)

\* Mutant of Purged: the scope of an instance that left is kept.
PurgedNever(all, targets) == all

\* purge_unreferenced_scopes
Purged(all, targets) ==
  Without(all, DOMAIN all \ {targets[i].scope : i \in DOMAIN targets})

\* The scope's history, begun if there is none.
Entered(path) ==
  With(scopes, memory.group,
         [path |-> path,
          values |-> IF memory.group \in DOMAIN scopes THEN scopes[memory.group].values ELSE None,
          at |-> IF memory.group \in DOMAIN scopes THEN scopes[memory.group].at ELSE 0])

Register(i) ==
  /\ memory = Resting
  /\ memory' = [Doing("register", {}) EXCEPT !.at = i, !.step = "start"]
  /\ UNCHANGED <<directory, instances, scopes, resolved, views, now>>

\* A scope that is known already keeps its path.
Registered ==
  /\ memory.phase = "register" /\ memory.step \in {"resolved", "failed"}
  /\ instances' = With(instances, memory.at,
                         [start |-> IF memory.key = None THEN 0 ELSE memory.key.start,
                          scope |-> IF memory.step = "resolved" THEN memory.group ELSE None])
  /\ scopes' = Purged(IF memory.step = "resolved" /\ memory.group \notin DOMAIN scopes
                      THEN Entered(memory.path) ELSE scopes, instances')
  /\ memory' = Resting
  /\ UNCHANGED <<directory, resolved, views, now>>

RemoveInstance(i) ==
  /\ memory = Resting
  /\ i \in DOMAIN instances
  /\ instances' = Without(instances, {i})
  /\ scopes' = Purged(scopes, instances')
  /\ UNCHANGED <<directory, memory, resolved, views, now>>

-----------------------------------------------------------------------------
(* sample: first the scope of each instance.                               *)

BeginSample ==
  /\ memory = Resting /\ now < MaxSamples
  /\ now' = now + 1
  /\ memory' = Doing("resolve", DOMAIN instances)
  /\ resolved' = Nothing /\ views' = Nothing
  /\ Look
  /\ UNCHANGED <<directory, instances, scopes>>

TakeInstance(i) ==
  /\ memory.phase = "resolve" /\ memory.at = None /\ i \in memory.todo
  /\ memory' = [memory EXCEPT !.at = i, !.step = "start"]
  /\ UNCHANGED <<directory, instances, scopes, resolved, views, now>>

\* The start time is learned once; a new registration learns it anew.
LearnStart ==
  /\ memory.step = "start"
  /\ LET i == memory.at
         known == memory.phase = "resolve" /\ instances[i].start # 0
         start == IF known THEN instances[i].start
                  ELSE IF Lives(PidOf[i]) THEN procs[PidOf[i]].start ELSE 0
     IN  /\ memory' = IF start = 0 THEN [memory EXCEPT !.step = "failed"]
                      ELSE [memory EXCEPT !.step = "stat",
                              !.key = [pid |-> PidOf[i], start |-> start]]
         /\ instances' = IF memory.phase = "resolve"
                         THEN [instances EXCEPT ![i].start = start] ELSE instances
  /\ UNCHANGED <<directory, scopes, resolved, views, now>>

EndInstance ==
  /\ memory.phase = "resolve" /\ memory.step \in {"resolved", "failed"}
  /\ IF memory.step = "resolved"
     THEN /\ instances' = [instances EXCEPT ![memory.at].scope = memory.group]
          /\ scopes' = Entered(memory.path)
          /\ resolved' = With(resolved, memory.at, memory.group)
     ELSE UNCHANGED <<instances, scopes, resolved>>
  /\ memory' = Done
  /\ UNCHANGED <<directory, views, now>>

EndInstances ==
  /\ memory.phase = "resolve" /\ memory.at = None /\ memory.todo = {}
  /\ scopes' = Purged(scopes, instances)
  /\ memory' = Doing("validate", {resolved[i] : i \in DOMAIN resolved})
  /\ UNCHANGED <<directory, instances, resolved, views, now>>

-----------------------------------------------------------------------------
(* Then each scope that was resolved: it is read if one of its processes   *)
(* is in it still.                                                         *)

TakeScope(g) ==
  /\ memory.phase = "validate" /\ memory.at = None /\ g \in memory.todo
  /\ memory' = [memory EXCEPT !.at = g, !.step = "next",
                  !.tries = {i \in DOMAIN resolved : resolved[i] = g}]
  /\ UNCHANGED <<directory, instances, scopes, resolved, views, now>>

Validate(i) ==
  /\ memory.step = "next" /\ i \in memory.tries
  /\ memory' = [memory EXCEPT !.step = "stat", !.tries = @ \ {i},
                  !.key = [pid |-> PidOf[i], start |-> instances[i].start]]
  /\ UNCHANGED <<directory, instances, scopes, resolved, views, now>>

Valid == memory.step = "resolved" /\ memory.group = memory.at /\ memory.path = scopes[memory.at].path

Validated ==
  /\ memory.phase = "validate" /\ memory.step \in {"resolved", "failed"}
  /\ memory' = IF Valid THEN [memory EXCEPT !.step = "read"]
               ELSE IF memory.tries # {} THEN [memory EXCEPT !.step = "next"]
               ELSE Done
  /\ UNCHANGED <<directory, instances, scopes, resolved, views, now>>

\* read_memory_values, of the directory that is at the path now; nothing if
\* that fails.
ReadValues ==
  /\ memory.step = "read"
  /\ LET group == directory[scopes[memory.at].path]
     IN  \/ /\ group # None
            /\ scopes' = [scopes EXCEPT ![memory.at].values = group, ![memory.at].at = now]
         \/ UNCHANGED scopes
  /\ memory' = Done
  /\ UNCHANGED <<directory, instances, resolved, views, now>>

-----------------------------------------------------------------------------
(* Then the views.                                                         *)

\* Mutant of Fresh: the scope was read, whoever is in it.
FreshByScope(i) == scopes[instances[i].scope].at = now

Fresh(i) == i \in DOMAIN resolved /\ scopes[instances[i].scope].at = now

View(i) ==
  LET scope == instances[i].scope
      start == instances[i].start
  IN  IF scope = None \/ scopes[scope].values = None
      THEN [start |-> start, scope |-> scope, values |-> None, availability |-> "unavailable"]
      ELSE [start |-> start, scope |-> scope, values |-> scopes[scope].values,
            availability |-> IF Fresh(i) THEN "fresh" ELSE "stale"]

EndSampling ==
  /\ memory.phase = "validate" /\ memory.at = None /\ memory.todo = {}
  /\ views' = [i \in DOMAIN instances |-> View(i)]
  /\ memory' = Resting
  /\ UNCHANGED <<directory, instances, scopes, resolved, now>>

-----------------------------------------------------------------------------
MemoryInit ==
  /\ directory \in [{Path[g] : g \in DOMAIN Path} -> DOMAIN Path]
  /\ \A path \in DOMAIN directory : Path[directory[path]] = path
  /\ instances = Nothing /\ scopes = Nothing /\ memory = Resting
  /\ resolved = Nothing /\ views = Nothing /\ now = 0

MemoryStep ==
  \/ /\ \/ \E i \in Instances : Register(i) \/ RemoveInstance(i)
        \/ LearnStart \/ ResolveScope \/ Registered
        \/ \E i \in DOMAIN instances : TakeInstance(i) \/ Validate(i)
        \/ EndInstance \/ EndInstances
        \/ \E g \in memory.todo : TakeScope(g)
        \/ Validated \/ ReadValues \/ EndSampling
     /\ UNCHANGED tableVars
  \/ BeginSample /\ UNCHANGED <<procs, changes>>

\* The groups there are.
Groups == {directory[path] : path \in DOMAIN directory} \ {None}

\* A group that no process is in is removed, and another one made or not.
ReplaceDirectory(path, group) ==
  /\ directory[path] # group
  /\ \A p \in DOMAIN procs : Lives(p) => procs[p].group # directory[path]
  /\ changes < MaxChanges /\ changes' = changes + 1
  /\ directory' = [directory EXCEPT ![path] = group]
  /\ UNCHANGED <<procs, seen>>

-----------------------------------------------------------------------------
(* Properties.                                                             *)

\* Was the process in the group at some moment of the sample?
WasIn(pid, start, g) ==
  \E table \in seen : table[pid] # None /\ table[pid].start = start /\ table[pid].group = g

\* Was the group without processes then, so that its directory could go?
Deserted(g) ==
  \E table \in seen : \A p \in DOMAIN table : table[p] # None => table[p].group # g

\* Memory told as fresh belongs to the instance: during this sample its process
\* was in a group of that path, and the group whose identity is told and the one
\* whose values are told are that one, unless it was left by all its processes
\* meanwhile; and no scope is retained that no instance is in.
MemoryOwn ==
  /\ \A i \in DOMAIN views :
       LET view == views[i]
       IN  view.availability = "fresh" =>
             /\ \E g \in DOMAIN Path :
                  /\ Path[g] = Path[view.scope] /\ WasIn(PidOf[i], view.start, g)
                  /\ g = view.scope \/ Deserted(g)
             /\ view.values = view.scope \/ Deserted(view.scope)
  /\ memory = Resting =>
       DOMAIN scopes = {instances[i].scope : i \in DOMAIN instances} \ {None}
================================================================================
