----------------------------- MODULE ProcessTable -----------------------------
(***************************************************************************)
(* What Linux shows Beacon of other processes, the ground under its        *)
(* readers of procfs: a table of processes that start, end, whose IDs come *)
(* into use again, that open, close and inherit sockets and move between   *)
(* control groups, while a reader takes one look after the other.          *)
(*                                                                         *)
(* Abstracted: only processes of the user and of Beacon's network          *)
(* namespace appear (those of others are passed over, whatever they do).   *)
(***************************************************************************)
EXTENDS Integers, FiniteSets

CONSTANTS None,      \* no process, no value

          MaxChanges \* bound: changes of the table

VARIABLES
  procs,   \* what procfs shows of each process ID
  changes, \* changes so far
  seen     \* history: every table there was since the reader began its work

tableVars == <<procs, changes, seen>>

\* Maps: a function of the keys they hold.
Nothing == [k \in {} |-> None]

With(f, k, value) == [j \in DOMAIN f \cup {k} |-> IF j = k THEN value ELSE f[j]]

Without(f, gone) == [j \in DOMAIN f \ gone |-> f[j]]

\* A process of the table: `start' tells it from others of the same ID.
Process(program, start, parent, fds, group) ==
  [program |-> program, start |-> start, parent |-> parent, fds |-> fds, group |-> group]

Lives(p) == procs[p] # None

\* The process that is told by the key.
Matches(key) == Lives(key.pid) /\ procs[key.pid].start = key.start

\* The files of a process: none if it is gone.
Fds(p) == IF Lives(p) THEN procs[p].fds ELSE {}

\* Did the process look like this at some moment of the reader's work?
Was(key, Holds(_)) ==
  \E table \in seen :
    table[key.pid] # None /\ table[key.pid].start = key.start /\ Holds(table[key.pid])

\* The reader begins.
Look == seen' = {procs}

-----------------------------------------------------------------------------
Becomes(table) ==
  /\ changes < MaxChanges
  /\ changes' = changes + 1
  /\ procs' = table
  /\ seen' = seen \cup {table}

\* Start times grow, over all process IDs; those of a first table are at most 3.
NextStart == 4 + changes

\* A process starts as the child of another one, whose files it inherits.
Fork(p, parent, program, group) ==
  /\ ~Lives(p) /\ Lives(parent)
  /\ Becomes([procs EXCEPT ![p] =
                Process(program, NextStart, parent, procs[parent].fds, group)])

\* A process of another session starts.
Start(p, program, fds, group) ==
  /\ ~Lives(p)
  /\ Becomes([procs EXCEPT ![p] = Process(program, NextStart, 1, fds, group)])

\* The children of a process that ends are those of init.
Ends(p) ==
  /\ Lives(p)
  /\ Becomes([q \in DOMAIN procs |->
                IF q = p THEN None
                ELSE IF Lives(q) /\ procs[q].parent = p THEN [procs[q] EXCEPT !.parent = 1]
                ELSE procs[q]])

\* A process goes on with another program.
Execute(p, program) ==
  /\ Lives(p) /\ procs[p].program # program
  /\ Becomes([procs EXCEPT ![p].program = program])

OpenSocket(p, s) ==
  /\ Lives(p) /\ s \notin procs[p].fds
  /\ Becomes([procs EXCEPT ![p].fds = @ \cup {s}])

CloseSocket(p, s) ==
  /\ s \in Fds(p)
  /\ Becomes([procs EXCEPT ![p].fds = @ \ {s}])

MoveTo(p, group) ==
  /\ Lives(p) /\ procs[p].group # group
  /\ Becomes([procs EXCEPT ![p].group = group])

TableInit(table) == procs = table /\ changes = 0 /\ seen = {table}
===============================================================================
