---------------------------- MODULE MCReaders_proofs ----------------------------
(***************************************************************************)
(* Proofs about the readers of files, of attachments, of memory and of     *)
(* procfs, for any number of changes of the files, of the processes and of *)
(* their IDs.  What is accepted of a registration or a marker is whole,    *)
(* nothing is refused without a cause; an attachment and a focus target    *)
(* are those of the process they are told for, and so is memory that is    *)
(* told as fresh; and the scan finds servers, excludes the offspring of    *)
(* launchers and hands out passwords of the processes that had them.  What *)
(* comes in pieces is treated in Pieces_proofs.                            *)
(*                                                                         *)
(* The argument: stamps only grow, so that a file that still bears the     *)
(* stamp it was first seen with is as it was then; and start times only    *)
(* grow, so that a process that still has the key it was first seen with   *)
(* has been there all the time.  The samplers are first reasoned about     *)
(* over any table of processes (Turns), any groups (MemoryTurns) and any   *)
(* tree of processes (TreeTurns); the small instances of MCReaders are     *)
(* special cases of these.                                                 *)
(***************************************************************************)
EXTENDS MCReaders, Pieces_proofs

-----------------------------------------------------------------------------
(* Files.                                                                  *)

FileState == [first : Nat, second : Nat, safe : BOOLEAN, stamp : Nat]

\* Whoever is not writing it has left every file whole, and no stamp is ahead
\* of the changes.
FilesOrdered ==
  /\ edits \in Nat
  /\ IsFiniteSet(DOMAIN files) /\ DOMAIN files \subseteq Nat
  /\ files \in [DOMAIN files -> FileState]
  /\ named \in DOMAIN files \cup {NoFile}
  /\ \A f \in DOMAIN files : files[f].stamp <= edits /\ files[f].first = files[f].second
  /\ edits = 0 => named = 1 /\ 1 \in DOMAIN files /\ files[1].first = 1

\* What a change may do: a file it touches gets a stamp that none has had.
Restamped ==
  /\ edits' = edits + 1
  /\ DOMAIN files \subseteq DOMAIN files'
  /\ \A f \in DOMAIN files : files'[f] = files[f] \/ files'[f].stamp > edits

\* An entry that was seen, and whether its file is still as it was.
Noted(entry) ==
  /\ entry \in Edition /\ entry.safe
  /\ entry.file \in DOMAIN files /\ entry.stamp <= edits

AsNoted(entry) == files[entry.file].stamp = entry.stamp

-----------------------------------------------------------------------------
(* Registrations.                                                          *)

ReadingRecord ==
  [step : {"before", "open", "opened", "first", "second", "after", "path", "accepted", "rejected"},
   before : Edition \cup {NoFile}, file : Nat \cup {NoFile}, after : Edition \cup {NoFile},
   first : Nat, second : Nat]

ReadingSound ==
  /\ reading.step \notin {"before", "rejected"} => Noted(reading.before)
  /\ reading.step \notin {"before", "open", "rejected"} => reading.file \in DOMAIN files
  /\ reading.step \in {"first", "second", "after", "path", "accepted"} =>
       reading.file = reading.before.file
  /\ reading.step \in {"second", "after", "path"} /\ AsNoted(reading.before) =>
       reading.first = files[reading.file].first
  /\ reading.step \in {"after", "path"} /\ AsNoted(reading.before) =>
       reading.second = files[reading.file].second
  /\ reading.step = "accepted" => reading.first = reading.second

\* While nobody touches the file.
ReadingQuiet ==
  edits = 0 /\ files[1].safe =>
    /\ reading.step # "rejected"
    /\ reading.step # "before" => reading.before = Entry(1)
    /\ reading.step \notin {"before", "open"} => reading.file = 1
    /\ reading.step \in {"second", "after", "path"} => reading.first = 1
    /\ reading.step \in {"after", "path"} => reading.second = 1
    /\ reading.step = "path" => reading.after = Entry(1)

ReadingInv == reading \in ReadingRecord /\ ReadingSound /\ ReadingQuiet

-----------------------------------------------------------------------------
(* Markers.                                                                *)

ProcessState ==
  [program : {"claude", "other"}, start : Nat, parent : {1}, fds : {{}}, group : {None}]

\* The table of the processes, and that start times are not ahead of it.
ProcessesOrdered ==
  /\ changes \in Nat
  /\ procs \in [{Marked} -> ProcessState \cup {None}]
  /\ procs \in seen
  /\ procs[Marked] # None => procs[Marked].start <= 3 + changes

MarkerRecord ==
  [step : {"entry", "stat", "program", "open", "opened", "first", "second", "read",
           "stat again", "program again", "found", "none"},
   expected : Edition \cup {NoFile}, key : [pid : {Marked}, start : Nat] \cup {None},
   file : Nat \cup {NoFile}, first : Nat, second : Nat]

MarkerSound ==
  /\ marker.step \notin {"entry", "none"} => Noted(marker.expected)
  /\ marker.step \notin {"entry", "stat", "program", "open", "none"} => marker.file \in DOMAIN files
  /\ marker.step \in {"first", "second", "read", "stat again", "program again", "found"} =>
       marker.file = marker.expected.file
  /\ marker.step \in {"second", "read"} /\ AsNoted(marker.expected) =>
       marker.first = files[marker.file].first
  /\ marker.step = "read" /\ AsNoted(marker.expected) => marker.second = files[marker.file].second
  /\ marker.step \in {"stat again", "program again", "found"} => marker.first = marker.second

WasClaude ==
  \E table \in seen :
    /\ table[Marked] # None /\ table[Marked].start = marker.key.start
    /\ table[Marked].program \in ClaudeProgram

Written == writer # None /\ writer.start = marker.key.start

OwnerSound ==
  /\ marker.step \notin {"entry", "stat", "none"} =>
       marker.key \in [pid : {Marked}, start : Nat] /\ marker.key.start <= 3 + changes
  /\ marker.step \in {"open", "opened", "first", "second", "read", "stat again"} =>
       (Matches(marker.key) => WasClaude)
  /\ marker.step \in {"read", "stat again"} => (Matches(marker.key) => Written)
  /\ marker.step \in {"program again", "found"} => WasClaude /\ Written

\* While nobody touches the file and the process.
MarkerQuiet ==
  edits = 0 /\ changes = 0 /\ ~foreign /\ files[1].safe =>
    /\ marker.step # "none"
    /\ marker.step # "entry" => IsClaude /\ marker.expected = Entry(1)
    /\ marker.step \notin {"entry", "stat"} => Matches(marker.key)
    /\ marker.step \notin {"entry", "stat", "program", "open"} => marker.file = 1
    /\ marker.step \in {"second", "read"} => marker.first = 1
    /\ marker.step = "read" => marker.second = 1

MarkerInv ==
  /\ ProcessesOrdered
  /\ marker \in MarkerRecord /\ foreign \in BOOLEAN
  /\ MarkerSound /\ OwnerSound /\ MarkerQuiet

\* A behavior about markers keeps to this; in any other nothing was read.
MarkerSide == IF part = "marker" THEN MarkerInv ELSE marker.step = "entry"

IInv == FilesOrdered /\ ReadingInv /\ MarkerSide

-----------------------------------------------------------------------------
(* A change of the file.                                                   *)

\* What a text is written to is a file as it should be.
LEMMA WriteOrdered ==
  ASSUME FilesOrdered, edits' = edits + 1, NEW f \in Nat, NEW body \in Nat, NEW safe \in BOOLEAN,
         Write(f, body, body, safe), named' \in {f, named} \ (IF f \in DOMAIN files THEN {} ELSE {NoFile})
  PROVE  FilesOrdered' /\ Restamped
<1>1. DOMAIN files' = DOMAIN files \cup {f}
  BY DEF Write
<1>2. /\ files'[f] = [first |-> body, second |-> body, safe |-> safe, stamp |-> edits + 1]
      /\ \A g \in DOMAIN files : g # f => files'[g] = files[g]
  BY DEF Write
<1>3. IsFiniteSet(DOMAIN files')
  BY <1>1, FS_AddElement DEF FilesOrdered
<1>4. files' \in [DOMAIN files' -> FileState]
  <2>1. \A g \in DOMAIN files' : files'[g] \in FileState
    BY <1>1, <1>2 DEF FilesOrdered, FileState
  <2> QED BY <2>1 DEF Write
<1>5. Restamped
  BY <1>1, <1>2 DEF Restamped, FilesOrdered, FileState
<1> QED BY <1>1, <1>2, <1>3, <1>4, <1>5 DEF FilesOrdered, FileState

LEMMA EditedOrdered == ASSUME FilesOrdered, FileEdited PROVE FilesOrdered' /\ Restamped
<1>1. CASE \E safe \in BOOLEAN : ReplaceFile(safe)
  <2>1. PICK safe \in BOOLEAN : ReplaceFile(safe)
    BY <1>1
  <2> DEFINE f == Cardinality(DOMAIN files) + 1
  <2>2. f \in Nat
    BY FS_CardinalityType DEF FilesOrdered
  <2>3. edits' = edits + 1 /\ Write(f, edits + 2, edits + 2, safe) /\ named' = f
    BY <2>1 DEF ReplaceFile, Edits
  <2>4. f # NoFile /\ edits + 2 \in Nat
    BY <2>2, FileAssumption DEF FilesOrdered
  <2> HIDE DEF f
  <2> QED BY <2>2, <2>3, <2>4, WriteOrdered
<1>2. CASE Truncate \/ Rewrite \/ ChangeMode
  <2>1. /\ named \in DOMAIN files /\ named \in Nat /\ named' = named
        /\ edits' = edits + 1 /\ Missing \in Nat /\ edits + 2 \in Nat
        /\ files[named] \in FileState
    BY <1>2 DEF FilesOrdered, Truncate, Rewrite, ChangeMode, Edits, Missing
  <2>2. /\ files[named].safe \in BOOLEAN /\ files[named].first \in Nat
        /\ files[named].second = files[named].first
    BY <2>1 DEF FilesOrdered, FileState
  <2>3. \E body \in Nat, safe \in BOOLEAN : Write(named, body, body, safe)
    BY <1>2, <2>1, <2>2 DEF Truncate, Rewrite, ChangeMode
  <2> QED BY <2>1, <2>3, WriteOrdered
<1>3. CASE RemoveFile
  <2>1. edits' = edits + 1 /\ named' = NoFile /\ UNCHANGED files
    BY <1>3 DEF RemoveFile, Edits
  <2>2. /\ edits \in Nat
        /\ \A f \in DOMAIN files : files[f].stamp \in Nat /\ files[f].stamp <= edits
    BY DEF FilesOrdered, FileState
  <2>3. edits + 1 \in Nat /\ edits + 1 # 0 /\ \A f \in DOMAIN files : files[f].stamp <= edits + 1
    BY <2>2
  <2> QED BY <2>1, <2>3 DEF FilesOrdered, Restamped
<1> QED BY <1>1, <1>2, <1>3 DEF FileEdited

\* A file that is as it was noted was so before the change as well.
LEMMA StaysNoted ==
  ASSUME FilesOrdered, Restamped, NEW entry, Noted(entry)
  PROVE  /\ entry.file \in DOMAIN files' /\ entry.stamp <= edits'
         /\ files'[entry.file].stamp = entry.stamp =>
              AsNoted(entry) /\ files'[entry.file] = files[entry.file]
BY DEF FilesOrdered, Restamped, Noted, AsNoted, Edition, FileState

LEMMA EditedReading == ASSUME FilesOrdered, ReadingInv, FileEdited, UNCHANGED reading PROVE ReadingInv'
<1>1. Restamped
  BY EditedOrdered
<1>2. edits' # 0
  BY <1>1 DEF Restamped, FilesOrdered
<1>3. ReadingSound'
  <2>1. reading.step \notin {"before", "rejected"} =>
          /\ Noted(reading.before)
          /\ reading.before.file \in DOMAIN files' /\ reading.before.stamp <= edits'
          /\ files'[reading.before.file].stamp = reading.before.stamp =>
               AsNoted(reading.before) /\ files'[reading.before.file] = files[reading.before.file]
    BY <1>1, StaysNoted DEF ReadingInv, ReadingSound
  <2> QED BY <1>1, <2>1 DEF ReadingInv, ReadingSound, Noted, AsNoted, Restamped
<1> QED BY <1>2, <1>3 DEF ReadingInv, ReadingQuiet

-----------------------------------------------------------------------------
(* The reading of a registration.                                          *)

\* What stat tells of a file.
LEMMA EntryOf ==
  ASSUME FilesOrdered, NEW f \in DOMAIN files
  PROVE  /\ Entry(f) = [file |-> f, safe |-> files[f].safe, stamp |-> files[f].stamp]
         /\ Entry(f) \in Edition /\ Entry(f) # NoFile
         /\ Entry(f).safe => Noted(Entry(f)) /\ AsNoted(Entry(f))
<1>1. f # NoFile /\ f \in Nat /\ files[f] \in FileState
  BY FileAssumption DEF FilesOrdered
<1>2. Entry(f) = [file |-> f, safe |-> files[f].safe, stamp |-> files[f].stamp]
  BY <1>1 DEF Entry
<1>3. Entry(f) \in Edition
  BY <1>1, <1>2 DEF Edition, FileState
<1> QED BY <1>1, <1>2, <1>3, FileAssumption DEF Noted, AsNoted, FilesOrdered

LEMMA NamedEntry ==
  ASSUME FilesOrdered, Entry(named) # NoFile
  PROVE  named \in DOMAIN files
BY DEF FilesOrdered, Entry

\* While nobody touched the file.
LEMMA FirstEdition ==
  ASSUME FilesOrdered, edits = 0
  PROVE  /\ named = 1 /\ 1 \in DOMAIN files /\ 1 # NoFile
         /\ files[1].first = 1 /\ files[1].second = 1
         /\ Entry(1) # NoFile /\ Entry(1).safe = files[1].safe /\ Entry(1).file = 1
BY EntryOf, FileAssumption DEF FilesOrdered

LEMMA ReadingKeeps == ASSUME FilesOrdered, ReadingInv, ReadingStep PROVE ReadingInv'
<1>0. UNCHANGED fileVars
  BY DEF ReadingStep, LookBefore, OpenFile, LookOpened, ReadFirst, ReadSecond, LookAfter, LookPath, Stands
<1>1. CASE LookBefore
  <2>1. CASE SafeMetadata(Entry(named))
    <3>1. reading' = [reading EXCEPT !.step = "open", !.before = Entry(named)]
      BY <1>1, <2>1 DEF LookBefore, Goes
    <3>2. named \in DOMAIN files /\ Noted(Entry(named)) /\ Entry(named) \in Edition
      BY <2>1, NamedEntry, EntryOf DEF SafeMetadata
    <3> QED BY <1>0, <3>1, <3>2, FirstEdition
            DEF ReadingInv, ReadingRecord, ReadingSound, ReadingQuiet, fileVars, Noted, AsNoted, Entry
  <2>2. CASE ~SafeMetadata(Entry(named))
    <3>1. reading' = [reading EXCEPT !.step = "rejected"]
      BY <1>1, <2>2 DEF LookBefore, Goes, Rejected
    <3>2. ~(edits = 0 /\ files[1].safe)
      BY <2>2, FirstEdition DEF SafeMetadata
    <3> QED BY <1>0, <3>1, <3>2 DEF ReadingInv, ReadingRecord, ReadingSound, ReadingQuiet, fileVars
  <2> QED BY <2>1, <2>2
<1>2. CASE OpenFile
  <2>1. CASE named # NoFile
    <3>1. reading.step = "open" /\ reading' = [reading EXCEPT !.step = "opened", !.file = named]
      BY <1>2, <2>1 DEF OpenFile, Goes, Stands
    <3>2. named \in DOMAIN files /\ named \in Nat
      BY <2>1 DEF FilesOrdered
    <3> QED BY <1>0, <3>1, <3>2, FirstEdition
            DEF ReadingInv, ReadingRecord, ReadingSound, ReadingQuiet, fileVars, Noted, AsNoted, Entry
  <2>2. CASE named = NoFile
    <3>1. reading' = [reading EXCEPT !.step = "rejected"]
      BY <1>2, <2>2 DEF OpenFile, Goes, Rejected
    <3>2. ~(edits = 0 /\ files[1].safe)
      BY <2>2, FirstEdition
    <3> QED BY <1>0, <3>1, <3>2 DEF ReadingInv, ReadingRecord, ReadingSound, ReadingQuiet, fileVars
  <2> QED BY <2>1, <2>2
<1>3. CASE LookOpened
  <2> DEFINE entry == Entry(reading.file)
  <2>0. reading.step = "opened"
    BY <1>3 DEF LookOpened, Stands
  <2>1. CASE SafeMetadata(entry) /\ entry = reading.before
    <3>1. reading' = [reading EXCEPT !.step = "first"]
      BY <1>3, <2>1 DEF LookOpened, Goes
    <3>2. reading.file \in DOMAIN files /\ entry.file = reading.file
      BY <2>0, EntryOf DEF ReadingInv, ReadingSound
    <3> QED BY <1>0, <2>0, <2>1, <3>1, <3>2
            DEF ReadingInv, ReadingRecord, ReadingSound, ReadingQuiet, fileVars, Noted, AsNoted, Entry
  <2>2. CASE ~(SafeMetadata(entry) /\ entry = reading.before)
    <3>1. reading' = [reading EXCEPT !.step = "rejected"]
      BY <1>3, <2>2 DEF LookOpened, Goes, Rejected
    <3>2. ~(edits = 0 /\ files[1].safe)
      BY <2>0, <2>2, FirstEdition DEF SafeMetadata, ReadingInv, ReadingQuiet
    <3> QED BY <1>0, <3>1, <3>2 DEF ReadingInv, ReadingRecord, ReadingSound, ReadingQuiet, fileVars
  <2> QED BY <2>1, <2>2
<1>4. CASE ReadFirst
  <2>1. reading.step = "first" /\ reading' = [reading EXCEPT !.step = "second", !.first = files[reading.file].first]
    BY <1>4 DEF ReadFirst, Goes, Stands
  <2>2. reading.file \in DOMAIN files /\ files[reading.file].first \in Nat
    BY <2>1 DEF ReadingInv, ReadingSound, FilesOrdered, FileState
  <2> QED BY <1>0, <2>1, <2>2, FirstEdition
          DEF ReadingInv, ReadingRecord, ReadingSound, ReadingQuiet, fileVars, Noted, AsNoted, Entry
<1>5. CASE ReadSecond
  <2>1. reading.step = "second" /\ reading' = [reading EXCEPT !.step = "after", !.second = files[reading.file].second]
    BY <1>5 DEF ReadSecond, Goes, Stands
  <2>2. reading.file \in DOMAIN files /\ files[reading.file].second \in Nat
    BY <2>1 DEF ReadingInv, ReadingSound, FilesOrdered, FileState
  <2> QED BY <1>0, <2>1, <2>2, FirstEdition
          DEF ReadingInv, ReadingRecord, ReadingSound, ReadingQuiet, fileVars, Noted, AsNoted, Entry
<1>6. CASE LookAfter
  <2>1. reading.step = "after" /\ reading' = [reading EXCEPT !.step = "path", !.after = Entry(reading.file)]
    BY <1>6 DEF LookAfter, Goes, Stands
  <2>2. Entry(reading.file) \in Edition
    BY <2>1, EntryOf DEF ReadingInv, ReadingSound
  <2> QED BY <1>0, <2>1, <2>2
          DEF ReadingInv, ReadingRecord, ReadingSound, ReadingQuiet, fileVars, Noted, AsNoted, Entry
<1>7. CASE LookPath
  <2>0. reading.step = "path"
    BY <1>7 DEF LookPath, Stands
  <2>1. CASE Untouched(Entry(named)) /\ reading' = [reading EXCEPT !.step = "accepted"]
    <3>1. reading.before = Entry(named) /\ reading.before # NoFile
      BY <2>0, <2>1, FileAssumption DEF Untouched, ReadingInv, ReadingSound, Noted
    <3>2. named \in DOMAIN files /\ Entry(named).file = named /\ AsNoted(Entry(named))
      BY <2>0, <3>1, NamedEntry, EntryOf DEF ReadingInv, ReadingSound, Noted
    <3>3. reading.first = reading.second
      BY <2>0, <3>1, <3>2 DEF ReadingInv, ReadingSound, FilesOrdered
    <3> QED BY <1>0, <2>0, <2>1, <3>3 DEF ReadingInv, ReadingRecord, ReadingSound, ReadingQuiet, fileVars, Noted, AsNoted, Entry
  <2>2. CASE /\ \/ ~Untouched(Entry(named))
                \/ reading.first # reading.second
                \/ Missing \in {reading.first, reading.second}
             /\ Rejected
    <3>1. reading' = [reading EXCEPT !.step = "rejected"]
      BY <2>2 DEF Rejected
    <3>2. ~(edits = 0 /\ files[1].safe)
      BY <2>0, <2>2, FirstEdition DEF Untouched, Missing, ReadingInv, ReadingQuiet
    <3> QED BY <1>0, <3>1, <3>2 DEF ReadingInv, ReadingRecord, ReadingSound, ReadingQuiet, fileVars
  <2> QED BY <1>7, <2>1, <2>2 DEF LookPath
<1> QED BY <1>1, <1>2, <1>3, <1>4, <1>5, <1>6, <1>7 DEF ReadingStep

-----------------------------------------------------------------------------
(* Changes around a marker.                                                *)

LEMMA EditedMarker ==
  ASSUME FilesOrdered, MarkerInv, FileEdited, UNCHANGED <<tableVars, markerVars>>
  PROVE  MarkerInv'
<1>1. Restamped
  BY EditedOrdered
<1>2. edits' # 0
  BY <1>1 DEF Restamped, FilesOrdered
<1>3. MarkerSound'
  <2>1. marker.step \notin {"entry", "none"} =>
          /\ Noted(marker.expected)
          /\ marker.expected.file \in DOMAIN files' /\ marker.expected.stamp <= edits'
          /\ files'[marker.expected.file].stamp = marker.expected.stamp =>
               AsNoted(marker.expected) /\ files'[marker.expected.file] = files[marker.expected.file]
    BY <1>1, StaysNoted DEF MarkerInv, MarkerSound
  <2> QED BY <1>1, <2>1 DEF MarkerInv, MarkerSound, Noted, AsNoted, Restamped, markerVars
<1>4. ProcessesOrdered' /\ OwnerSound'
  BY DEF MarkerInv, ProcessesOrdered, OwnerSound, tableVars, markerVars, WasClaude, Written,
         Matches, Lives
<1> QED BY <1>2, <1>3, <1>4 DEF MarkerInv, MarkerQuiet, markerVars

\* A process that starts is younger than any before it, and one that is there
\* after a change with the key it had was there before.
LEMMA WorldOrdered ==
  ASSUME ProcessesOrdered, MarkerWorld
  PROVE  /\ ProcessesOrdered'
         /\ changes' = changes + 1
         /\ seen \subseteq seen'
         /\ \A start \in Nat :
              start <= 3 + changes /\ procs'[Marked] # None /\ procs'[Marked].start = start =>
                procs[Marked] # None /\ procs[Marked].start = start
<1>0. /\ DOMAIN procs = {Marked} /\ changes \in Nat
      /\ Lives(Marked) => procs[Marked] \in ProcessState
  BY DEF ProcessesOrdered, Lives
<1>1. CASE Ends(Marked)
  <2>1. /\ procs' = [q \in {Marked} |-> None] /\ changes' = changes + 1 /\ seen' = seen \cup {procs'}
    BY <1>0, <1>1 DEF Ends, Becomes
  <2> QED BY <1>0, <2>1 DEF ProcessesOrdered
<1>2. CASE \E program \in {"claude", "other"} : Start(Marked, program, {}, None)
  <2>1. PICK program \in {"claude", "other"} : Start(Marked, program, {}, None)
    BY <1>2
  <2> DEFINE new == Process(program, NextStart, 1, {}, None)
  <2>2. /\ procs' = [procs EXCEPT ![Marked] = new] /\ changes' = changes + 1
        /\ seen' = seen \cup {procs'}
    BY <1>0, <2>1 DEF Start, Becomes
  <2>3. NextStart = 4 + changes /\ NextStart \in Nat
    BY <1>0 DEF NextStart
  <2>4. new \in ProcessState /\ new.start = 4 + changes
    BY <2>3 DEF Process, ProcessState
  <2> HIDE DEF new
  <2>5. procs'[Marked] = new /\ procs' \in [{Marked} -> ProcessState \cup {None}]
    BY <1>0, <2>2, <2>4 DEF ProcessesOrdered
  <2> QED BY <1>0, <2>2, <2>4, <2>5 DEF ProcessesOrdered
<1>3. CASE \E program \in {"claude", "other"} : Execute(Marked, program)
  <2>1. PICK program \in {"claude", "other"} : Execute(Marked, program)
    BY <1>3
  <2> DEFINE new == [procs[Marked] EXCEPT !.program = program]
  <2>2. /\ procs' = [procs EXCEPT ![Marked] = new] /\ changes' = changes + 1
        /\ seen' = seen \cup {procs'} /\ procs[Marked] # None
    BY <1>0, <2>1 DEF Execute, Becomes, Lives
  <2>3. new \in ProcessState /\ new.start = procs[Marked].start
    BY <1>0, <2>2 DEF Lives, ProcessState
  <2> HIDE DEF new
  <2>4. procs'[Marked] = new /\ procs' \in [{Marked} -> ProcessState \cup {None}]
    BY <1>0, <2>2, <2>3 DEF ProcessesOrdered
  <2>5. procs[Marked].start \in Nat /\ procs[Marked].start <= 3 + changes
    BY <1>0, <2>2 DEF ProcessesOrdered, ProcessState, Lives
  <2> QED BY <1>0, <2>2, <2>3, <2>4, <2>5 DEF ProcessesOrdered
<1> QED BY <1>1, <1>2, <1>3 DEF MarkerWorld

LEMMA WorldMarker ==
  ASSUME MarkerInv, MarkerWorld, UNCHANGED <<fileVars, markerVars>>
  PROVE  MarkerInv'
<1>1. /\ ProcessesOrdered' /\ changes \in Nat /\ changes' = changes + 1 /\ seen \subseteq seen'
      /\ \A start \in Nat :
           start <= 3 + changes /\ procs'[Marked] # None /\ procs'[Marked].start = start =>
             procs[Marked] # None /\ procs[Marked].start = start
  BY WorldOrdered DEF MarkerInv, ProcessesOrdered
<1>2. WasClaude => WasClaude'
  BY <1>1 DEF WasClaude, markerVars
<1>3. ASSUME marker.step \notin {"entry", "stat", "none"}
      PROVE  /\ marker.key \in [pid : {Marked}, start : Nat] /\ marker.key.start <= 3 + changes'
             /\ Matches(marker.key)' => Matches(marker.key)
  <2>1. /\ marker.key \in [pid : {Marked}, start : Nat] /\ marker.key.start <= 3 + changes
        /\ marker' = marker
    BY <1>3 DEF MarkerInv, OwnerSound, markerVars
  <2>2. marker.key.pid = Marked /\ marker.key.start \in Nat
    BY <2>1
  <2> QED BY <1>1, <2>1, <2>2 DEF Matches, Lives
<1>4. OwnerSound'
  BY <1>2, <1>3 DEF MarkerInv, OwnerSound, Written, markerVars
<1>5. MarkerSound'
  BY DEF MarkerInv, MarkerSound, Noted, AsNoted, fileVars, markerVars
<1>6. changes' # 0
  BY <1>1
<1> QED BY <1>1, <1>4, <1>5, <1>6 DEF MarkerInv, MarkerQuiet, markerVars

-----------------------------------------------------------------------------
(* The reading of a marker.                                                *)

\* It is passed over only if there was a cause.
LEMMA PassedOver ==
  ASSUME FilesOrdered, MarkerInv, UNCHANGED <<procs, changes, fileVars>>,
         marker' = [marker EXCEPT !.step = "none"], seen' \in {seen, {procs}}, foreign' \in BOOLEAN,
         ~(edits = 0 /\ changes = 0 /\ ~foreign' /\ files[1].safe)
  PROVE  MarkerInv'
BY DEF MarkerInv, ProcessesOrdered, MarkerRecord, MarkerSound, OwnerSound, MarkerQuiet, fileVars

\* The parts of the invariant that a step of the reading may disturb.
LEMMA MarkerStays ==
  ASSUME MarkerInv, UNCHANGED <<procs, changes, fileVars>>, seen' \in {seen, {procs}},
         foreign' \in BOOLEAN, marker' \in MarkerRecord, MarkerSound', OwnerSound', MarkerQuiet'
  PROVE  MarkerInv'
BY DEF MarkerInv, ProcessesOrdered

LEMMA TakeMarkerKeeps ==
  ASSUME FilesOrdered, MarkerInv, TakeMarker, UNCHANGED <<procs, changes, fileVars>>
  PROVE  MarkerInv'
<1>0. /\ marker.step = "entry" /\ foreign' = ~IsClaude /\ UNCHANGED <<seen, writer>>
      /\ foreign' \in BOOLEAN
  BY DEF TakeMarker
<1>1. CASE Entry(named) # NoFile /\ Entry(named).safe
  <2>1. marker' = [marker EXCEPT !.step = "stat", !.expected = Entry(named)]
    BY <1>1 DEF TakeMarker, Takes
  <2>2. named \in DOMAIN files /\ Noted(Entry(named)) /\ Entry(named) \in Edition
    BY <1>1, NamedEntry, EntryOf
  <2>3. marker' \in MarkerRecord /\ marker'.step = "stat" /\ marker'.expected = Entry(named)
    BY <2>1, <2>2 DEF MarkerInv, MarkerRecord
  <2>4. MarkerSound' /\ OwnerSound'
    BY <2>2, <2>3 DEF MarkerSound, OwnerSound, Noted, fileVars
  <2>5. MarkerQuiet'
    BY <1>0, <2>3, FirstEdition DEF MarkerQuiet, fileVars, Entry, IsClaude, Lives
  <2> QED BY <1>0, <2>3, <2>4, <2>5, MarkerStays
<1>2. CASE ~(Entry(named) # NoFile /\ Entry(named).safe)
  <2>1. marker' = [marker EXCEPT !.step = "none"]
    BY <1>2 DEF TakeMarker, Takes, NoMarker
  <2>2. ~(edits = 0 /\ files[1].safe)
    BY <1>2, FirstEdition
  <2> QED BY <1>0, <2>1, <2>2, PassedOver
<1> QED BY <1>1, <1>2

LEMMA StatClaudeKeeps ==
  ASSUME FilesOrdered, MarkerInv, StatClaude, UNCHANGED <<procs, changes, fileVars>>
  PROVE  MarkerInv'
<1>0. marker.step = "stat" /\ UNCHANGED <<foreign, writer>> /\ seen' = {procs} /\ foreign' \in BOOLEAN
  BY DEF StatClaude, Awaits, Look, MarkerInv
<1>1. CASE Lives(Marked)
  <2>1. marker' = [marker EXCEPT !.step = "program",
                     !.key = [pid |-> Marked, start |-> procs[Marked].start]]
    BY <1>1 DEF StatClaude, Takes
  <2>2. procs[Marked].start \in Nat /\ procs[Marked].start <= 3 + changes
    BY <1>1 DEF MarkerInv, ProcessesOrdered, ProcessState, Lives
  <2>3. /\ marker' \in MarkerRecord /\ marker'.step = "program"
        /\ marker'.expected = marker.expected
        /\ marker'.key = [pid |-> Marked, start |-> procs[Marked].start]
    BY <2>1, <2>2 DEF MarkerInv, MarkerRecord
  <2>4. MarkerSound' /\ OwnerSound'
    BY <1>0, <2>2, <2>3 DEF MarkerInv, MarkerSound, OwnerSound, Noted, fileVars
  <2>5. MarkerQuiet'
    BY <1>0, <1>1, <2>3 DEF MarkerInv, MarkerQuiet, fileVars, Entry, IsClaude, Lives, Matches
  <2> QED BY <1>0, <2>3, <2>4, <2>5, MarkerStays
<1>2. CASE ~Lives(Marked)
  <2>1. marker' = [marker EXCEPT !.step = "none"]
    BY <1>2 DEF StatClaude, Takes, NoMarker
  <2>2. ~(edits = 0 /\ changes = 0 /\ ~foreign' /\ files[1].safe)
    BY <1>0, <1>2 DEF MarkerInv, MarkerQuiet, IsClaude
  <2> QED BY <1>0, <2>1, <2>2, PassedOver
<1> QED BY <1>1, <1>2

LEMMA IdentifyClaudeKeeps ==
  ASSUME FilesOrdered, MarkerInv, IdentifyClaude, UNCHANGED <<procs, changes, fileVars>>
  PROVE  MarkerInv'
<1>0. marker.step = "program" /\ UNCHANGED <<foreign, writer, seen>> /\ foreign' \in BOOLEAN
  BY DEF IdentifyClaude, Awaits, MarkerInv
<1>1. CASE IsClaude
  <2>1. marker' = [marker EXCEPT !.step = "open"]
    BY <1>1 DEF IdentifyClaude, Takes
  <2>2. /\ marker' \in MarkerRecord /\ marker'.step = "open"
        /\ marker'.expected = marker.expected /\ marker'.key = marker.key
    BY <2>1 DEF MarkerInv, MarkerRecord
  <2>3. marker.key \in [pid : {Marked}, start : Nat] /\ procs \in seen
    BY <1>0 DEF MarkerInv, OwnerSound, ProcessesOrdered
  <2>4. MarkerSound'
    BY <1>0, <2>2 DEF MarkerInv, MarkerSound, Noted, fileVars
  <2>5. OwnerSound'
    BY <1>0, <1>1, <2>2, <2>3 DEF MarkerInv, OwnerSound, WasClaude, Matches, IsClaude, Lives
  <2>6. MarkerQuiet'
    BY <1>0, <2>2 DEF MarkerInv, MarkerQuiet, fileVars, Entry, IsClaude, Lives, Matches
  <2> QED BY <1>0, <2>2, <2>4, <2>5, <2>6, MarkerStays
<1>2. CASE ~IsClaude
  <2>1. marker' = [marker EXCEPT !.step = "none"]
    BY <1>2 DEF IdentifyClaude, Takes, NoMarker
  <2>2. ~(edits = 0 /\ changes = 0 /\ ~foreign' /\ files[1].safe)
    BY <1>0, <1>2 DEF MarkerInv, MarkerQuiet
  <2> QED BY <1>0, <2>1, <2>2, PassedOver
<1> QED BY <1>1, <1>2

\* A step between the two looks at the process says nothing of it.
LEMMA OwnerStays ==
  ASSUME MarkerInv, UNCHANGED <<procs, changes, foreign, writer, seen, fileVars>>,
         marker.step \in {"open", "opened", "first", "read"},
         marker'.step \in {"opened", "first", "second", "stat again"},
         marker.step = "read" <=> marker'.step = "stat again",
         marker'.key = marker.key
  PROVE  OwnerSound'
BY DEF MarkerInv, OwnerSound, WasClaude, Written, Matches, Lives

LEMMA OpenMarkerKeeps ==
  ASSUME FilesOrdered, MarkerInv, OpenMarker, UNCHANGED <<procs, changes, fileVars>>
  PROVE  MarkerInv'
<1>0. marker.step = "open" /\ UNCHANGED <<foreign, writer, seen>> /\ foreign' \in BOOLEAN
  BY DEF OpenMarker, Awaits, MarkerInv
<1>1. CASE named # NoFile
  <2>1. marker' = [marker EXCEPT !.step = "opened", !.file = named]
    BY <1>1 DEF OpenMarker, Takes
  <2>2. named \in DOMAIN files /\ named \in Nat
    BY <1>1 DEF FilesOrdered
  <2>3. /\ marker' \in MarkerRecord /\ marker'.step = "opened" /\ marker'.file = named
        /\ marker'.expected = marker.expected /\ marker'.key = marker.key
    BY <2>1, <2>2 DEF MarkerInv, MarkerRecord
  <2>4. MarkerSound' /\ OwnerSound'
    BY <1>0, <2>2, <2>3, OwnerStays DEF MarkerInv, MarkerSound, Noted, fileVars
  <2>5. MarkerQuiet'
    BY <1>0, <2>3, FirstEdition DEF MarkerInv, MarkerQuiet, fileVars, Entry, IsClaude, Lives, Matches
  <2> QED BY <1>0, <2>3, <2>4, <2>5, MarkerStays
<1>2. CASE named = NoFile
  <2>1. marker' = [marker EXCEPT !.step = "none"]
    BY <1>2 DEF OpenMarker, Takes, NoMarker
  <2>2. ~(edits = 0 /\ files[1].safe)
    BY <1>2, FirstEdition
  <2> QED BY <1>0, <2>1, <2>2, PassedOver
<1> QED BY <1>1, <1>2

LEMMA LookMarkerOpenedKeeps ==
  ASSUME FilesOrdered, MarkerInv, LookMarkerOpened, UNCHANGED <<procs, changes, fileVars>>
  PROVE  MarkerInv'
<1>0. marker.step = "opened" /\ UNCHANGED <<foreign, writer, seen>> /\ foreign' \in BOOLEAN
  BY DEF LookMarkerOpened, Awaits, MarkerInv
<1>1. CASE SameMarker(marker.expected, Entry(marker.file))
  <2>1. marker' = [marker EXCEPT !.step = "first"]
    BY <1>1 DEF LookMarkerOpened, Takes
  <2>2. marker.file \in DOMAIN files /\ marker.expected.file = marker.file
    BY <1>0, <1>1, EntryOf DEF MarkerInv, MarkerSound, SameMarker
  <2>3. /\ marker' \in MarkerRecord /\ marker'.step = "first" /\ marker'.file = marker.file
        /\ marker'.expected = marker.expected /\ marker'.key = marker.key
    BY <2>1 DEF MarkerInv, MarkerRecord
  <2>4. MarkerSound' /\ OwnerSound'
    BY <1>0, <2>2, <2>3, OwnerStays DEF MarkerInv, MarkerSound, Noted, fileVars
  <2>5. MarkerQuiet'
    BY <1>0, <2>3 DEF MarkerInv, MarkerQuiet, fileVars, Entry, IsClaude, Lives, Matches
  <2> QED BY <1>0, <2>3, <2>4, <2>5, MarkerStays
<1>2. CASE ~SameMarker(marker.expected, Entry(marker.file))
  <2>1. marker' = [marker EXCEPT !.step = "none"]
    BY <1>2 DEF LookMarkerOpened, Takes, NoMarker
  <2>2. ~(edits = 0 /\ changes = 0 /\ ~foreign' /\ files[1].safe)
    BY <1>0, <1>2 DEF MarkerInv, MarkerQuiet, SameMarker
  <2> QED BY <1>0, <2>1, <2>2, PassedOver
<1> QED BY <1>1, <1>2

LEMMA ReadMarkerKeeps ==
  ASSUME FilesOrdered, MarkerInv, ReadMarker, UNCHANGED <<procs, changes, fileVars>>
  PROVE  MarkerInv'
<1>0. UNCHANGED <<foreign, seen>> /\ foreign' \in BOOLEAN
  BY DEF ReadMarker, MarkerInv
<1>1. CASE marker.step = "first"
  <2>1. marker' = [marker EXCEPT !.step = "second", !.first = files[marker.file].first] /\ UNCHANGED writer
    BY <1>1 DEF ReadMarker
  <2>2. marker.file \in DOMAIN files /\ files[marker.file].first \in Nat
    BY <1>1 DEF MarkerInv, MarkerSound, FilesOrdered, FileState
  <2>3. /\ marker' \in MarkerRecord /\ marker'.step = "second" /\ marker'.file = marker.file
        /\ marker'.first = files[marker.file].first
        /\ marker'.expected = marker.expected /\ marker'.key = marker.key
    BY <2>1, <2>2 DEF MarkerInv, MarkerRecord
  <2>4. MarkerSound' /\ OwnerSound'
    BY <1>0, <1>1, <2>1, <2>2, <2>3, OwnerStays DEF MarkerInv, MarkerSound, Noted, AsNoted, fileVars
  <2>5. MarkerQuiet'
    BY <1>0, <1>1, <2>3, FirstEdition
    DEF MarkerInv, MarkerQuiet, fileVars, Entry, IsClaude, Lives, Matches
  <2> QED BY <1>0, <2>3, <2>4, <2>5, MarkerStays
<1>2. CASE marker.step = "second"
  <2>1. marker' = [marker EXCEPT !.step = "read", !.second = files[marker.file].second] /\ writer' = procs[Marked]
    BY <1>2 DEF ReadMarker
  <2>2. marker.file \in DOMAIN files /\ files[marker.file].second \in Nat
    BY <1>2 DEF MarkerInv, MarkerSound, FilesOrdered, FileState
  <2>3. /\ marker' \in MarkerRecord /\ marker'.step = "read" /\ marker'.file = marker.file
        /\ marker'.first = marker.first /\ marker'.second = files[marker.file].second
        /\ marker'.expected = marker.expected /\ marker'.key = marker.key
    BY <2>1, <2>2 DEF MarkerInv, MarkerRecord
  <2>4. MarkerSound'
    BY <1>2, <2>2, <2>3 DEF MarkerInv, MarkerSound, Noted, AsNoted, fileVars
  <2>5. OwnerSound'
    <3>1. marker.key \in [pid : {Marked}, start : Nat] /\ marker.key.pid = Marked
      BY <1>2 DEF MarkerInv, OwnerSound
    <3> QED BY <1>0, <1>2, <2>1, <2>3, <3>1 DEF MarkerInv, OwnerSound, WasClaude, Written, Matches, Lives
  <2>6. MarkerQuiet'
    BY <1>0, <1>2, <2>3, FirstEdition
    DEF MarkerInv, MarkerQuiet, fileVars, Entry, IsClaude, Lives, Matches
  <2> QED BY <1>0, <2>3, <2>4, <2>5, <2>6, MarkerStays
<1> QED BY <1>1, <1>2 DEF ReadMarker

LEMMA LookMarkerReadKeeps ==
  ASSUME FilesOrdered, MarkerInv, LookMarkerRead, UNCHANGED <<procs, changes, fileVars>>
  PROVE  MarkerInv'
<1>0. marker.step = "read" /\ UNCHANGED <<foreign, writer, seen>> /\ foreign' \in BOOLEAN
  BY DEF LookMarkerRead, Awaits, MarkerInv
<1>1. CASE /\ SameMarker(marker.expected, Entry(marker.file))
           /\ marker' = [marker EXCEPT !.step = "stat again"]
  <2>1. marker.file \in DOMAIN files /\ AsNoted(marker.expected)
    BY <1>0, <1>1, EntryOf DEF MarkerInv, MarkerSound, SameMarker, Noted
  <2>2. marker.first = marker.second
    BY <1>0, <2>1 DEF MarkerInv, MarkerSound, FilesOrdered
  <2>3. /\ marker' \in MarkerRecord /\ marker'.step = "stat again" /\ marker'.file = marker.file
        /\ marker'.first = marker.first /\ marker'.second = marker.second
        /\ marker'.expected = marker.expected /\ marker'.key = marker.key
    BY <1>1 DEF MarkerInv, MarkerRecord
  <2>4. MarkerSound' /\ OwnerSound'
    BY <1>0, <2>2, <2>3, OwnerStays DEF MarkerInv, MarkerSound, Noted, fileVars
  <2>5. MarkerQuiet'
    BY <1>0, <2>3 DEF MarkerInv, MarkerQuiet, fileVars, Entry, IsClaude, Lives, Matches
  <2> QED BY <1>0, <2>3, <2>4, <2>5, MarkerStays
<1>2. CASE /\ \/ ~SameMarker(marker.expected, Entry(marker.file))
              \/ marker.first # marker.second
              \/ Missing \in {marker.first, marker.second}
           /\ NoMarker
  <2>1. marker' = [marker EXCEPT !.step = "none"]
    BY <1>2 DEF NoMarker
  <2>2. ~(edits = 0 /\ changes = 0 /\ ~foreign' /\ files[1].safe)
    BY <1>0, <1>2 DEF MarkerInv, MarkerQuiet, SameMarker, Missing
  <2> QED BY <1>0, <2>1, <2>2, PassedOver
<1> QED BY <1>1, <1>2 DEF LookMarkerRead

LEMMA StatClaudeAgainKeeps ==
  ASSUME FilesOrdered, MarkerInv, StatClaudeAgain, UNCHANGED <<procs, changes, fileVars>>
  PROVE  MarkerInv'
<1>0. marker.step = "stat again" /\ UNCHANGED <<foreign, writer, seen>> /\ foreign' \in BOOLEAN
  BY DEF StatClaudeAgain, Awaits, MarkerInv
<1>1. CASE Matches(marker.key)
  <2>1. marker' = [marker EXCEPT !.step = "program again"]
    BY <1>1 DEF StatClaudeAgain, Takes, SameClaude
  <2>2. /\ marker' \in MarkerRecord /\ marker'.step = "program again" /\ marker'.file = marker.file
        /\ marker'.first = marker.first /\ marker'.second = marker.second
        /\ marker'.expected = marker.expected /\ marker'.key = marker.key
    BY <2>1 DEF MarkerInv, MarkerRecord
  <2>3. MarkerSound'
    BY <1>0, <2>2 DEF MarkerInv, MarkerSound, Noted, fileVars
  <2>4. OwnerSound'
    BY <1>0, <1>1, <2>2 DEF MarkerInv, OwnerSound, WasClaude, Written
  <2>5. MarkerQuiet'
    BY <1>0, <2>2 DEF MarkerInv, MarkerQuiet, fileVars, Entry, IsClaude, Lives, Matches
  <2> QED BY <1>0, <2>2, <2>3, <2>4, <2>5, MarkerStays
<1>2. CASE ~Matches(marker.key)
  <2>1. marker' = [marker EXCEPT !.step = "none"]
    BY <1>2 DEF StatClaudeAgain, Takes, NoMarker, SameClaude
  <2>2. ~(edits = 0 /\ changes = 0 /\ ~foreign' /\ files[1].safe)
    BY <1>0, <1>2 DEF MarkerInv, MarkerQuiet
  <2> QED BY <1>0, <2>1, <2>2, PassedOver
<1> QED BY <1>1, <1>2

LEMMA IdentifyClaudeAgainKeeps ==
  ASSUME FilesOrdered, MarkerInv, IdentifyClaudeAgain, UNCHANGED <<procs, changes, fileVars>>
  PROVE  MarkerInv'
<1>0. marker.step = "program again" /\ UNCHANGED <<foreign, writer, seen>> /\ foreign' \in BOOLEAN
  BY DEF IdentifyClaudeAgain, Awaits, MarkerInv
<1>1. CASE IsClaude
  <2>1. marker' = [marker EXCEPT !.step = "found"]
    BY <1>1 DEF IdentifyClaudeAgain, Takes
  <2>2. /\ marker' \in MarkerRecord /\ marker'.step = "found" /\ marker'.file = marker.file
        /\ marker'.first = marker.first /\ marker'.second = marker.second
        /\ marker'.expected = marker.expected /\ marker'.key = marker.key
    BY <2>1 DEF MarkerInv, MarkerRecord
  <2>3. MarkerSound' /\ OwnerSound'
    BY <1>0, <2>2 DEF MarkerInv, MarkerSound, OwnerSound, WasClaude, Written, Noted, fileVars
  <2>4. MarkerQuiet'
    BY <1>0, <2>2 DEF MarkerInv, MarkerQuiet, fileVars, Entry, IsClaude, Lives, Matches
  <2> QED BY <1>0, <2>2, <2>3, <2>4, MarkerStays
<1>2. CASE ~IsClaude
  <2>1. marker' = [marker EXCEPT !.step = "none"]
    BY <1>2 DEF IdentifyClaudeAgain, Takes, NoMarker
  <2>2. ~(edits = 0 /\ changes = 0 /\ ~foreign' /\ files[1].safe)
    BY <1>0, <1>2 DEF MarkerInv, MarkerQuiet
  <2> QED BY <1>0, <2>1, <2>2, PassedOver
<1> QED BY <1>1, <1>2

LEMMA MarkerKeeps == ASSUME FilesOrdered, MarkerInv, MarkerStep PROVE MarkerInv'
BY TakeMarkerKeeps, StatClaudeKeeps, IdentifyClaudeKeeps, OpenMarkerKeeps, LookMarkerOpenedKeeps,
   ReadMarkerKeeps, LookMarkerReadKeeps, StatClaudeAgainKeeps, IdentifyClaudeAgainKeeps DEF MarkerStep

-----------------------------------------------------------------------------
(* All of it.                                                              *)

LEMMA InitIInv == Init => IInv
<1> SUFFICES ASSUME Init PROVE IInv
  OBVIOUS
<1>1. FilesOrdered
  <2>1. PICK safe \in BOOLEAN : files = [f \in {1} |-> [first |-> 1, second |-> 1, safe |-> safe, stamp |-> 0]]
    BY DEF Init, FileInit
  <2>2. IsFiniteSet({1})
    BY FS_Singleton
  <2> QED BY <2>1, <2>2 DEF Init, FileInit, FilesOrdered, FileState
<1>2. ReadingInv
  BY DEF Init, ReadingInit, ReadingInv, ReadingRecord, ReadingSound, ReadingQuiet, Missing
<1>3. MarkerSide
  <2>1. /\ marker = [step |-> "entry", expected |-> NoFile, key |-> None, file |-> NoFile,
                     first |-> Missing, second |-> Missing]
        /\ foreign = FALSE
    BY DEF Init, MarkerInit
  <2>2. CASE part = "marker"
    <3>1. PICK table \in MarkerTables : TableInit(table)
      BY <2>2 DEF Init
    <3>2. PICK state \in {None} \cup {Process(program, 1, 1, {}, None) : program \in {"claude", "other"}} :
            procs = [p \in {Marked} |-> state]
      BY <3>1 DEF MarkerTables, TableInit
    <3>3. state # None => state \in ProcessState /\ state.start = 1
      BY <3>2 DEF Process, ProcessState
    <3>4. ProcessesOrdered
      BY <3>1, <3>2, <3>3 DEF TableInit, ProcessesOrdered
    <3> QED BY <2>1, <2>2, <3>4
            DEF MarkerSide, MarkerInv, MarkerRecord, MarkerSound, OwnerSound, MarkerQuiet, Missing
  <2> QED BY <2>1, <2>2 DEF MarkerSide
<1> QED BY <1>1, <1>2, <1>3 DEF IInv

\* What does not touch files, readings and markers does not matter.
LEMMA OthersKeep ==
  ASSUME IInv, part # "marker", UNCHANGED <<part, fileVars, reading, markerVars>>
  PROVE  IInv'
BY DEF IInv, FilesOrdered, ReadingInv, ReadingSound, ReadingQuiet, MarkerSide, Noted, AsNoted, Entry,
       fileVars, markerVars

LEMMA SameFiles ==
  ASSUME FilesOrdered, UNCHANGED fileVars
  PROVE  FilesOrdered' /\ (ReadingInv /\ UNCHANGED reading => ReadingInv')
BY DEF FilesOrdered, ReadingInv, ReadingSound, ReadingQuiet, Noted, AsNoted, Entry, fileVars

LEMMA NextIInv ==
  IInv /\ [Next]_<<tableVars, samplerVars, memoryVars, scanVars, fileVars, reading, markerVars,
                   streamVars, pagesVars, argumentVars, part>> => IInv'
<1> SUFFICES ASSUME IInv,
                    [Next]_<<tableVars, samplerVars, memoryVars, scanVars, fileVars, reading, markerVars,
                             streamVars, pagesVars, argumentVars, part>>
             PROVE  IInv'
  OBVIOUS
<1>1. CASE part' = part /\ RegistrationPart
  <2>0. part = "registration" /\ UNCHANGED markerVars
    BY <1>1 DEF RegistrationPart
  <2>1. MarkerSide'
    BY <1>1, <2>0 DEF IInv, MarkerSide, markerVars
  <2>2. CASE ReadingStep
    <3>1. UNCHANGED fileVars
      BY <2>2 DEF ReadingStep, LookBefore, OpenFile, LookOpened, ReadFirst, ReadSecond, LookAfter,
                  LookPath, Stands
    <3> QED BY <2>1, <2>2, <3>1, ReadingKeeps, SameFiles DEF IInv
  <2>3. CASE FileEdited /\ UNCHANGED reading
    BY <2>1, <2>3, EditedOrdered, EditedReading DEF IInv
  <2> QED BY <1>1, <2>2, <2>3 DEF RegistrationPart
<1>2. CASE part' = part /\ MarkerPart
  <2>0. part = "marker" /\ part' = "marker" /\ UNCHANGED reading /\ MarkerInv
    BY <1>2 DEF MarkerPart, IInv, MarkerSide
  <2>1. CASE MarkerStep
    BY <2>0, <2>1, MarkerKeeps, SameFiles DEF IInv, MarkerSide, MarkerStep
  <2>2. CASE MarkerWorld /\ UNCHANGED <<fileVars, markerVars>>
    BY <2>0, <2>2, WorldMarker, SameFiles DEF IInv, MarkerSide
  <2>3. CASE FileEdited /\ UNCHANGED <<tableVars, markerVars>>
    BY <2>0, <2>3, EditedOrdered, EditedReading, EditedMarker DEF IInv, MarkerSide
  <2> QED BY <1>2, <2>1, <2>2, <2>3 DEF MarkerPart
<1>3. CASE part' = part /\ (AttachmentPart \/ MemoryPart \/ ScanPart \/ StreamPart \/ PagesPart \/ ArgumentsPart)
  BY <1>3, OthersKeep DEF AttachmentPart, MemoryPart, ScanPart, StreamPart, PagesPart, ArgumentsPart
<1>4. CASE UNCHANGED <<tableVars, samplerVars, memoryVars, scanVars, fileVars, reading, markerVars,
                       streamVars, pagesVars, argumentVars, part>>
  <2>1. FilesOrdered' /\ ReadingInv'
    BY <1>4, SameFiles DEF IInv
  <2>2. UNCHANGED <<procs, changes, seen, files, named, edits, marker, foreign, writer, part>>
    BY <1>4 DEF tableVars, fileVars, markerVars
  <2>3. MarkerInv => MarkerInv'
    <3> SUFFICES ASSUME MarkerInv PROVE MarkerInv'
      OBVIOUS
    <3>1. ProcessesOrdered' /\ marker' \in MarkerRecord /\ foreign' \in BOOLEAN
      BY <2>2 DEF MarkerInv, ProcessesOrdered
    <3>2. MarkerSound'
      BY <2>2 DEF MarkerInv, MarkerSound, Noted, AsNoted
    <3>3. OwnerSound'
      BY <2>2 DEF MarkerInv, OwnerSound, WasClaude, Written, Matches, Lives
    <3>4. MarkerQuiet'
      BY <2>2 DEF MarkerInv, MarkerQuiet, Entry, IsClaude, Matches, Lives
    <3> QED BY <3>1, <3>2, <3>3, <3>4 DEF MarkerInv
  <2>4. MarkerSide'
    BY <2>2, <2>3 DEF IInv, MarkerSide
  <2> QED BY <2>1, <2>4 DEF IInv
<1> QED BY <1>1, <1>2, <1>3, <1>4 DEF Next

\* What is read of a registration or of a marker, while others change it and
\* the process it is named for, is whole and of that process; and nothing is
\* passed over without a cause.
THEOREM FilesStayWhole == Spec => []FilesWhole
<1>1. IInv => FilesWhole
  <2> SUFFICES ASSUME IInv PROVE FilesWhole
    OBVIOUS
  <2>1. RegistrationWhole
    BY DEF IInv, ReadingInv, ReadingSound, ReadingQuiet, RegistrationWhole, Noted, FilesOrdered
  <2>2. MarkerWhole
    <3>1. CASE part = "marker"
      <4>1. MarkerInv
        BY <3>1 DEF IInv, MarkerSide
      <4>2. marker.step = "found" =>
              /\ marker.first = marker.second
              /\ marker.expected.safe /\ marker.file = marker.expected.file
              /\ WasClaude /\ Written /\ marker.key.pid = Marked
        BY <4>1 DEF MarkerInv, MarkerSound, OwnerSound, Noted
      <4>3. marker.step = "found" => Was(marker.key, LAMBDA process : process.program \in ClaudeProgram)
        BY <4>2 DEF Was, WasClaude
      <4>4. marker.step = "none" => foreign \/ edits > 0 \/ changes > 0 \/ ~files[1].safe
        BY <4>1 DEF MarkerInv, MarkerQuiet, ProcessesOrdered, IInv, FilesOrdered
      <4> QED BY <4>2, <4>3, <4>4 DEF MarkerWhole, Written
    <3>2. CASE part # "marker"
      BY <3>2 DEF IInv, MarkerSide, MarkerWhole
    <3> QED BY <3>1, <3>2
  <2> QED BY <2>1, <2>2 DEF FilesWhole
<1> QED BY <1>1, InitIInv, NextIInv, PTL DEF Spec
-----------------------------------------------------------------------------
(* Any table of processes, and whatever becomes of it.                     *)

ProcessFields == {"program", "start", "parent", "fds", "group"}

TableSound ==
  /\ changes \in Nat /\ procs \in seen
  /\ \A p \in DOMAIN procs : Lives(p) =>
       DOMAIN procs[p] = ProcessFields /\ procs[p].start \in 0 .. 3 + changes

\* Processes end, go on with anything changed but their start, or start.
Turns ==
  /\ changes' = changes + 1 /\ seen' = seen \cup {procs'}
  /\ DOMAIN procs' = DOMAIN procs
  /\ \A p \in DOMAIN procs : procs'[p] # None =>
       /\ DOMAIN procs'[p] = ProcessFields
       /\ \/ procs[p] # None /\ procs'[p].start = procs[p].start
          \/ procs'[p].start = NextStart

\* A key that was read: whoever has its process ID now is not older.
Sighted(key) ==
  /\ key = [pid |-> key.pid, start |-> key.start]
  /\ key.pid \in DOMAIN procs /\ key.start \in 0 .. 3 + changes
  /\ Lives(key.pid) => key.start <= procs[key.pid].start

\* Tables stay sound.
LEMMA TurnsSound == ASSUME TableSound, Turns PROVE TableSound'
BY DEF TableSound, Turns, Lives, NextStart

\* What was read stays read, and a process with its key was there before.
LEMMA TurnsSighted ==
  ASSUME TableSound, Turns, NEW key, Sighted(key)
  PROVE  /\ Sighted(key)'
         /\ Matches(key)' => Matches(key)
<1>1. /\ key = [pid |-> key.pid, start |-> key.start]
      /\ key.pid \in DOMAIN procs /\ key.start \in 0 .. 3 + changes
      /\ Lives(key.pid) => key.start <= procs[key.pid].start
  BY DEF Sighted
<1>2. /\ changes \in Nat /\ changes' = changes + 1 /\ DOMAIN procs' = DOMAIN procs
      /\ Lives(key.pid) => procs[key.pid].start \in 0 .. 3 + changes
  BY <1>1 DEF TableSound, Turns
<1>3. CASE procs'[key.pid] = None
  BY <1>1, <1>2, <1>3 DEF Sighted, Lives, Matches
<1>4. CASE procs'[key.pid] # None
  <2>1. \/ procs[key.pid] # None /\ procs'[key.pid].start = procs[key.pid].start
        \/ procs'[key.pid].start = 4 + changes
    BY <1>1, <1>4 DEF Turns, NextStart
  <2> QED BY <1>1, <1>2, <1>4, <2>1 DEF Sighted, Lives, Matches
<1> QED BY <1>3, <1>4

\* The key of a process that is there.
LEMMA KeySighted ==
  ASSUME TableSound, NEW p \in DOMAIN procs, Lives(p)
  PROVE  /\ Sighted(KeyOf(p)) /\ Matches(KeyOf(p))
         /\ KeyOf(p).pid = p /\ KeyOf(p).start = procs[p].start
<1>1. KeyOf(p) = [pid |-> p, start |-> procs[p].start]
  BY DEF KeyOf
<1>2. procs[p].start \in 0 .. 3 + changes
  BY DEF TableSound
<1> QED BY <1>1, <1>2 DEF Sighted, Matches

\* What the worlds of the readers do with processes are such turns.
LEMMA ActionsTurn ==
  ASSUME TableSound, NEW p \in DOMAIN procs,
         \/ Ends(p)
         \/ \E parent, program, group : Fork(p, parent, program, group)
         \/ \E program, fds, group : Start(p, program, fds, group)
         \/ \E program : Execute(p, program)
         \/ \E s : OpenSocket(p, s) \/ CloseSocket(p, s)
         \/ \E group : MoveTo(p, group)
  PROVE  Turns
<1>0. \A q \in DOMAIN procs : procs[q] # None => DOMAIN procs[q] = ProcessFields
  BY DEF TableSound, Lives
<1>1. CASE Ends(p)
  BY <1>0, <1>1 DEF Ends, Becomes, Turns, Lives, ProcessFields
<1>2. CASE \/ \E parent, program, group : Fork(p, parent, program, group)
           \/ \E program, fds, group : Start(p, program, fds, group)
  <2>1. PICK program, parent, fds, group :
          Becomes([procs EXCEPT ![p] = Process(program, NextStart, parent, fds, group)])
    BY <1>2 DEF Fork, Start
  <2> DEFINE new == Process(program, NextStart, parent, fds, group)
  <2>2. DOMAIN new = ProcessFields /\ new.start = NextStart
    BY DEF Process, ProcessFields
  <2>3. Becomes([procs EXCEPT ![p] = new])
    BY <2>1
  <2> HIDE DEF new
  <2> QED BY <1>0, <2>2, <2>3 DEF Becomes, Turns
<1>3. CASE \/ \E program : Execute(p, program)
           \/ \E s : OpenSocket(p, s) \/ CloseSocket(p, s)
           \/ \E group : MoveTo(p, group)
  BY <1>0, <1>3 DEF Execute, OpenSocket, CloseSocket, MoveTo, Fds, Becomes, Turns, Lives, ProcessFields
<1> QED BY <1>1, <1>2, <1>3

-----------------------------------------------------------------------------
(* Attachments: what was seen of whom.                                     *)

WasInteractive(key) ==
  \E table \in seen :
    /\ table[key.pid] # None /\ table[key.pid].start = key.start
    /\ table[key.pid].program \in Interactive

WasConnected(key, endpoint) ==
  \E table \in seen :
    /\ table[key.pid] # None /\ table[key.pid].start = key.start
    /\ endpoint \in {Peer[s] : s \in table[key.pid].fds}

WasListening(key, s) ==
  \E table \in seen :
    /\ table[key.pid] # None /\ table[key.pid].start = key.start
    /\ s \in table[key.pid].fds

Evidence(key, peers) == WasInteractive(key) /\ \A e \in peers : WasConnected(key, e)

\* A focus target of the process of the key, or of a later one of its ID.
Leads(target, key) ==
  Sighted(target.of) /\ target.of.pid = key.pid /\ target.of.start >= key.start

ServersSound ==
  /\ \A i \in Servers : i.protocol # "v2" => i.pid \in DOMAIN procs
  /\ \A e \in DOMAIN targets : targets[e].endpoint = e
  /\ \A i \in DOMAIN v1 : i \in Servers /\ i.protocol # "v2"
  /\ \A x \in claude : Sighted(x)

\* The part of the sample that is in progress.
ScanReading ==
  /\ \A p \in reader.todo : p \in DOMAIN procs
  /\ reader.at # None => reader.at \in DOMAIN procs
  /\ \A s \in reader.wanted : Peer[s] \in DOMAIN targets
  /\ reader.step \in {"stat", "files", "confirm", "focus"}
  /\ reader.step # "stat" => Sighted(reader.key) /\ reader.key.pid = reader.at
  /\ reader.step \in {"confirm", "focus"} => reader.peers \subseteq DOMAIN targets
  /\ reader.step = "confirm" => (Matches(reader.key) => Evidence(reader.key, reader.peers))
  /\ reader.step = "focus" => (\E e \in reader.peers : reader.peers = {e}) /\ Evidence(reader.key, reader.peers)

V1Reading ==
  /\ \A i \in reader.todo : i \in DOMAIN v1
  /\ reader.at # None => reader.at \in DOMAIN v1
  /\ reader.step \in {"stat", "focus", "confirm"}
  /\ reader.step # "stat" => Sighted(reader.key) /\ reader.key.pid = reader.at.pid
  /\ reader.step = "confirm" => Leads(reader.focus, reader.key)

ClaudeReading ==
  /\ \A x \in reader.todo : x \in claude
  /\ reader.at # None => reader.at \in claude
  /\ reader.step \in {"stat", "confirm"}
  /\ reader.step = "confirm" => Leads(reader.focus, reader.at)

ReaderSound ==
  /\ DOMAIN reader = DOMAIN Idle
  /\ reader.phase \in {"idle", "scan", "scanned", "v1", "claude"}
  /\ reader.at = None => reader.step = "stat"
  /\ reader.phase \in {"idle", "scanned"} => reader.at = None /\ reader.todo = {}
  /\ reader.phase = "scan" => ScanReading
  /\ reader.phase = "v1" => V1Reading
  /\ reader.phase = "claude" => ClaudeReading

FoundFields == {"instance", "stale", "misses", "focus"}

FoundSound ==
  \A k \in DOMAIN found :
    /\ Sighted(k) /\ WasInteractive(k) /\ WasConnected(k, found[k].instance.endpoint)
    /\ found[k].focus # None => Leads(found[k].focus, k)
    /\ DOMAIN found[k] = FoundFields /\ found[k].misses = 0

FocusedSound ==
  \A x \in DOMAIN focused :
    IF x \in Servers
    THEN focused[x].of.pid = x.pid /\ WasListening(focused[x].of, x.inode)
    ELSE Sighted(x) /\ Leads(focused[x], x)

\* A terminal that the last scan found has missed none.
RetainedSound ==
  \A k \in DOMAIN retained :
    /\ DOMAIN retained[k] = FoundFields /\ retained[k].misses \in Nat
    /\ k \in lastScan => retained[k].misses = 0

AttachmentInv ==
  /\ TableSound /\ ServersSound /\ ReaderSound
  /\ FoundSound /\ FocusedSound /\ RetainedSound

\* What was seen was seen, however the processes go on.
LEMMA TurnsLeads ==
  ASSUME TableSound, Turns, NEW target, NEW key, Leads(target, key)
  PROVE  Leads(target, key)'
BY TurnsSighted DEF Leads

\* What was seen of a process in this sample stays seen.
LEMMA SeenGrows ==
  ASSUME seen \subseteq seen', NEW key
  PROVE  /\ WasInteractive(key) => WasInteractive(key)'
         /\ \A e : WasConnected(key, e) => WasConnected(key, e)'
         /\ \A s : WasListening(key, s) => WasListening(key, s)'
         /\ \A peers : Evidence(key, peers) => Evidence(key, peers)'
<1>1. WasInteractive(key) => WasInteractive(key)'
  BY DEF WasInteractive
<1>2. \A e : WasConnected(key, e) => WasConnected(key, e)'
  BY DEF WasConnected
<1>3. \A s : WasListening(key, s) => WasListening(key, s)'
  BY DEF WasListening
<1> QED BY <1>1, <1>2, <1>3 DEF Evidence

\* What processes do leaves all that is known of them sound.
LEMMA AttachmentTurns ==
  ASSUME AttachmentInv, Turns, UNCHANGED samplerVars
  PROVE  AttachmentInv'
<1>1. /\ TableSound' /\ seen \subseteq seen' /\ DOMAIN procs' = DOMAIN procs
      /\ UNCHANGED <<targets, v1, claude, retained, reader, found, focused, scans, lastScan>>
  BY TurnsSound DEF AttachmentInv, Turns, samplerVars
<1>2. \A key : Sighted(key) => Sighted(key)' /\ (Matches(key)' => Matches(key))
  BY TurnsSighted DEF AttachmentInv
<1>3. \A target, key : Leads(target, key) => Leads(target, key)'
  BY TurnsLeads DEF AttachmentInv
<1>4. ServersSound'
  BY <1>1, <1>2 DEF AttachmentInv, ServersSound
<1>5. ReaderSound'
  <2>1. reader.phase = "scan" => ScanReading'
    <3> SUFFICES ASSUME reader.phase = "scan" PROVE ScanReading'
      OBVIOUS
    <3>1. ScanReading
      BY DEF AttachmentInv, ReaderSound
    <3>2. reader.step # "stat" => Sighted(reader.key)' /\ (Matches(reader.key)' => Matches(reader.key))
      BY <1>1, <1>2, <3>1 DEF ScanReading
    <3>3. Evidence(reader.key, reader.peers) => Evidence(reader.key, reader.peers)'
      BY <1>1, SeenGrows
    <3> QED BY <1>1, <3>1, <3>2, <3>3 DEF ScanReading
  <2>2. reader.phase = "v1" => V1Reading'
    BY <1>1, <1>2, <1>3 DEF AttachmentInv, ReaderSound, V1Reading
  <2>3. reader.phase = "claude" => ClaudeReading'
    BY <1>1, <1>3 DEF AttachmentInv, ReaderSound, ClaudeReading
  <2> QED BY <1>1, <2>1, <2>2, <2>3 DEF AttachmentInv, ReaderSound
<1>6. FoundSound'
  BY <1>1, <1>2, <1>3, SeenGrows DEF AttachmentInv, FoundSound
<1>7. FocusedSound'
  BY <1>1, <1>2, <1>3, SeenGrows DEF AttachmentInv, FocusedSound
<1>8. RetainedSound'
  BY <1>1 DEF AttachmentInv, RetainedSound
<1> QED BY <1>1, <1>4, <1>5, <1>6, <1>7, <1>8 DEF AttachmentInv

\* While the processes stand still, what is said of a key stands.
LEMMA TableStands ==
  ASSUME UNCHANGED tableVars
  PROVE  /\ TableSound <=> TableSound'
         /\ \A key : /\ Sighted(key) <=> Sighted(key)'
                     /\ Matches(key) <=> Matches(key)'
                     /\ WasInteractive(key) <=> WasInteractive(key)'
                     /\ \A e : WasConnected(key, e) <=> WasConnected(key, e)'
                     /\ \A s : WasListening(key, s) <=> WasListening(key, s)'
                     /\ \A peers : Evidence(key, peers) <=> Evidence(key, peers)'
                     /\ \A target : Leads(target, key) <=> Leads(target, key)'
<1>1. procs' = procs /\ changes' = changes /\ seen' = seen
  BY DEF tableVars
<1> QED BY <1>1 DEF TableSound, Sighted, Matches, Lives, WasInteractive, WasConnected, WasListening,
                    Evidence, Leads

\* What a reader that begins a part, or passes on, is at.
LEMMA IdleReads ==
  /\ Idle.phase = "idle" /\ Idle.at = None /\ Idle.todo = {} /\ Idle.step = "stat"
  /\ \A phase, todo, wanted :
       LET r == Reading(phase, todo, wanted)
       IN  /\ r.phase = phase /\ r.todo = todo /\ r.wanted = wanted /\ r.at = None /\ r.step = "stat"
           /\ DOMAIN r = DOMAIN Idle
BY DEF Idle, Reading

\* The servers and terminals that are announced or leave change what is kept.
LEMMA ObservedAttachments ==
  ASSUME AttachmentInv, UNCHANGED tableVars,
         \/ \E i \in Servers : ServerFound(i) \/ ServerRemoved(i)
         \/ \E p \in DOMAIN procs : ClaudeFound(p)
         \/ \E x \in claude : ClaudeRemoved(x)
  PROVE  AttachmentInv'
<1>1. /\ reader = Idle /\ reader' = reader
      /\ UNCHANGED <<found, focused, scans, lastScan>>
  BY DEF ServerFound, ServerRemoved, ClaudeFound, ClaudeRemoved
<1>2. TableSound'
  BY TableStands DEF AttachmentInv
<1>3. ReaderSound'
  BY <1>1, IdleReads DEF ReaderSound
<1>4. FoundSound'
  BY <1>1, TableStands DEF AttachmentInv, FoundSound
<1>5. FocusedSound'
  BY <1>1, TableStands DEF AttachmentInv, FocusedSound
<1>6. ServersSound'
  <2>0. /\ \A i \in Servers : i.protocol # "v2" => i.pid \in DOMAIN procs'
        /\ \A e \in DOMAIN targets : targets[e].endpoint = e
        /\ \A i \in DOMAIN v1 : i \in Servers /\ i.protocol # "v2"
        /\ \A x \in claude : Sighted(x) /\ Sighted(x)'
    BY TableStands DEF AttachmentInv, ServersSound, tableVars
  <2>1. CASE \E i \in Servers : ServerFound(i)
    <3>1. PICK i \in Servers : ServerFound(i)
      BY <2>1
    <3>2. CASE i.protocol = "v2"
      <4>1. targets' = With(targets, i.endpoint, i) /\ v1' = v1 /\ claude' = claude
        BY <3>1, <3>2 DEF ServerFound
      <4> QED BY <2>0, <4>1 DEF ServersSound, With, Without
    <3>3. CASE i.protocol # "v2"
      <4>1. \E start : v1' = With(v1, i, start)
        BY <3>1, <3>3 DEF ServerFound
      <4>2. targets' = targets /\ claude' = claude
        BY <3>1, <3>3 DEF ServerFound
      <4>3. DOMAIN v1' = DOMAIN v1 \cup {i}
        BY <4>1 DEF With
      <4> QED BY <2>0, <3>3, <4>2, <4>3 DEF ServersSound
    <3> QED BY <3>2, <3>3
  <2>2. CASE \E i \in Servers : ServerRemoved(i)
    <3>1. PICK i \in Servers : ServerRemoved(i)
      BY <2>2
    <3>2. targets' = Without(targets, {i.endpoint}) /\ v1' = Without(v1, {i}) /\ claude' = claude
      BY <3>1 DEF ServerRemoved
    <3> QED BY <2>0, <3>2 DEF ServersSound, With, Without
  <2>3. CASE \E p \in DOMAIN procs : ClaudeFound(p)
    <3>1. PICK p \in DOMAIN procs : ClaudeFound(p)
      BY <2>3
    <3>2. claude' = claude \cup {KeyOf(p)} /\ Lives(p) /\ targets' = targets /\ v1' = v1
      BY <3>1 DEF ClaudeFound
    <3>3. Sighted(KeyOf(p))
      BY <3>2, KeySighted DEF AttachmentInv
    <3> QED
      <4> DEFINE mine == KeyOf(p)
      <4>1. Sighted(mine) /\ claude' = claude \cup {mine}
        BY <3>2, <3>3
      <4> HIDE DEF mine
      <4> QED BY <2>0, <3>2, <4>1, TableStands DEF ServersSound
  <2>4. CASE \E x \in claude : ClaudeRemoved(x)
    <3>1. claude' \subseteq claude /\ targets' = targets /\ v1' = v1
      BY <2>4 DEF ClaudeRemoved
    <3> QED BY <2>0, <3>1 DEF ServersSound
  <2> QED BY <2>1, <2>2, <2>3, <2>4
<1>7. RetainedSound'
  <2>1. \A k \in DOMAIN retained' : k \in DOMAIN retained /\ retained'[k] = retained[k]
    <3>1. CASE \E i \in Servers : ServerRemoved(i)
      BY <3>1 DEF ServerRemoved, Without
    <3>2. CASE ~\E i \in Servers : ServerRemoved(i)
      BY <3>2 DEF ServerFound, ClaudeFound, ClaudeRemoved
    <3> QED BY <3>1, <3>2
  <2> QED BY <1>1, <2>1 DEF AttachmentInv, RetainedSound
<1> QED BY <1>2, <1>3, <1>4, <1>5, <1>6, <1>7 DEF AttachmentInv

\* What is not of a step.
OthersKept == UNCHANGED <<targets, v1, claude, retained, found, focused, scans, lastScan>>

\* A step of the reader alone leaves what is known and told sound.
LEMMA KeptAttachments ==
  ASSUME AttachmentInv, UNCHANGED tableVars, OthersKept
  PROVE  TableSound' /\ ServersSound' /\ FoundSound' /\ FocusedSound' /\ RetainedSound'
<1>1. TableSound'
  BY TableStands DEF AttachmentInv
<1>2. ServersSound'
  BY TableStands DEF AttachmentInv, ServersSound, OthersKept, tableVars
<1>3. FoundSound' /\ FocusedSound'
  BY TableStands DEF AttachmentInv, FoundSound, FocusedSound, OthersKept
<1>4. RetainedSound'
  BY DEF AttachmentInv, RetainedSound, OthersKept
<1> QED BY <1>1, <1>2, <1>3, <1>4

\* The reader passes over what it is at, takes up another one or ends a part.
LEMMA ReaderPassed ==
  ASSUME AttachmentInv, UNCHANGED tableVars, UNCHANGED <<targets, claude>>, DOMAIN v1' = DOMAIN v1,
         reader.phase \in {"scan", "v1", "claude"},
         reader' = Reading(reader.phase, reader.todo \ {reader.at}, reader.wanted)
  PROVE  ReaderSound'
<1>1. /\ reader'.phase = reader.phase /\ reader'.todo = reader.todo \ {reader.at}
      /\ reader'.wanted = reader.wanted /\ reader'.at = None /\ reader'.step = "stat"
      /\ DOMAIN reader' = DOMAIN Idle
  BY IdleReads
<1>2. reader.phase = "scan" => ScanReading'
  BY <1>1 DEF AttachmentInv, ReaderSound, ScanReading, tableVars
<1>3. reader.phase = "v1" => V1Reading'
  BY <1>1 DEF AttachmentInv, ReaderSound, V1Reading
<1>4. reader.phase = "claude" => ClaudeReading'
  BY <1>1 DEF AttachmentInv, ReaderSound, ClaudeReading
<1> QED BY <1>1, <1>2, <1>3, <1>4 DEF ReaderSound

\* A reader that takes up a process has read nothing of it yet.
LEMMA TakenUp ==
  ASSUME AttachmentInv, UNCHANGED tableVars, NEW x \in reader.todo, TakeUp(x)
  PROVE  AttachmentInv'
<1>1. /\ reader.at = None /\ reader.step = "stat" /\ reader' = [reader EXCEPT !.at = x]
      /\ OthersKept
  BY DEF TakeUp, AttachmentInv, ReaderSound, OthersKept
<1>2. DOMAIN reader = DOMAIN Idle
  BY DEF AttachmentInv, ReaderSound
<1>3. /\ reader'.phase = reader.phase /\ reader'.todo = reader.todo /\ reader'.wanted = reader.wanted
      /\ reader'.at = x /\ reader'.step = "stat"
  BY <1>1, <1>2 DEF Idle, Reading
<1>4. reader.phase = "scan" => ScanReading'
  BY <1>1, <1>3 DEF AttachmentInv, ReaderSound, ScanReading, tableVars, OthersKept
<1>5. reader.phase = "v1" => V1Reading'
  BY <1>1, <1>3 DEF AttachmentInv, ReaderSound, V1Reading, OthersKept
<1>6. reader.phase = "claude" => ClaudeReading'
  BY <1>1, <1>3 DEF AttachmentInv, ReaderSound, ClaudeReading, OthersKept
<1>7. DOMAIN reader' = DOMAIN Idle
  BY <1>1, <1>2
<1>8. ReaderSound'
  BY <1>3, <1>4, <1>5, <1>6, <1>7 DEF ReaderSound, AttachmentInv
<1> QED BY <1>1, <1>8, KeptAttachments DEF AttachmentInv

\* The sample begins: the sampler looks anew.
LEMMA BegunAttachments ==
  ASSUME AttachmentInv, UNCHANGED <<procs, changes>>, BeginScan \/ FailScan
  PROVE  AttachmentInv'
<1>1. /\ seen' = {procs} /\ procs' = procs /\ changes' = changes
      /\ UNCHANGED <<targets, v1, claude, lastScan>>
      /\ found' = Nothing /\ focused' = Nothing
  BY DEF BeginScan, FailScan, Look
<1>2. \A key : Sighted(key) <=> Sighted(key)'
  BY <1>1 DEF Sighted, Lives
<1>3. TableSound'
  BY <1>1 DEF AttachmentInv, TableSound, Lives
<1>4. ServersSound'
  BY <1>1, <1>2 DEF AttachmentInv, ServersSound
<1>5. FoundSound' /\ FocusedSound'
  BY <1>1 DEF FoundSound, FocusedSound, Nothing
<1>6. ReaderSound'
  <2>1. CASE reader' = Reading("scanned", {}, {})
    BY <2>1, IdleReads DEF ReaderSound
  <2>2. CASE reader' = Reading("claude", claude, {})
    <3>1. ClaudeReading'
      BY <1>1, <2>2, IdleReads DEF ClaudeReading
    <3> QED BY <2>2, <3>1, IdleReads DEF ReaderSound
  <2>3. CASE \E todo \in SUBSET DOMAIN procs : reader' = Reading("scan", todo, Connected)
    <3>1. PICK todo \in SUBSET DOMAIN procs : reader' = Reading("scan", todo, Connected)
      BY <2>3
    <3>2. ScanReading'
      BY <1>1, <3>1, IdleReads DEF ScanReading, Connected
    <3> QED BY <3>1, <3>2, IdleReads DEF ReaderSound
  <2> QED BY <2>1, <2>2, <2>3 DEF BeginScan, FailScan
<1>7. RetainedSound'
  BY <1>1 DEF BeginScan, FailScan, Stale, AttachmentInv, RetainedSound, FoundFields
<1> QED BY <1>3, <1>4, <1>5, <1>6, <1>7 DEF AttachmentInv

\* The scan of the terminals, read by read.
LEMMA ScannedAttachments ==
  ASSUME AttachmentInv, UNCHANGED tableVars, StatProcess \/ ReadFiles \/ Confirm
  PROVE  AttachmentInv'
<1>0. /\ reader.phase = "scan" /\ reader.at # None /\ ScanReading /\ DOMAIN reader = DOMAIN Idle
      /\ OthersKept
  BY DEF StatProcess, ReadFiles, Confirm, Step, AttachmentInv, ReaderSound, OthersKept
<1>1. CASE reader' = Reading(reader.phase, reader.todo \ {reader.at}, reader.wanted)
  BY <1>0, <1>1, ReaderPassed, KeptAttachments DEF AttachmentInv, OthersKept
<1>2. CASE StatProcess /\ Lives(reader.at) /\ reader' = [reader EXCEPT !.step = "files", !.key = KeyOf(reader.at)]
  <2>1. Sighted(KeyOf(reader.at)) /\ KeyOf(reader.at).pid = reader.at
    BY <1>0, <1>2, KeySighted DEF ScanReading, AttachmentInv
  <2>2. /\ reader'.key = KeyOf(reader.at) /\ reader'.step = "files" /\ DOMAIN reader' = DOMAIN reader
        /\ reader'.phase = "scan" /\ reader'.at = reader.at /\ reader'.todo = reader.todo
        /\ reader'.wanted = reader.wanted
    BY <1>0, <1>2 DEF Idle, Reading
  <2>3. Sighted(reader'.key) /\ reader'.key.pid = reader'.at
    BY <2>1, <2>2
  <2>4. Sighted(reader.key)'
    BY <2>3, TableStands
  <2>5. ScanReading'
    BY <1>0, <2>2, <2>3, <2>4 DEF ScanReading, OthersKept, tableVars
  <2>6. ReaderSound'
    BY <1>0, <2>2, <2>5 DEF ReaderSound
  <2> QED BY <1>0, <2>6, KeptAttachments DEF AttachmentInv
<1>3. CASE /\ ReadFiles /\ Lives(reader.at) /\ procs[reader.at].program \in Interactive
           /\ reader' = [reader EXCEPT !.step = "confirm",
                           !.peers = {Peer[s] : s \in Fds(reader.at) \cap reader.wanted}]
  <2>1. reader.step = "files"
    BY <1>3 DEF ReadFiles, Step
  <2>2. /\ reader'.step = "confirm" /\ DOMAIN reader' = DOMAIN reader
        /\ reader'.peers = {Peer[s] : s \in Fds(reader.at) \cap reader.wanted}
        /\ reader'.phase = "scan" /\ reader'.at = reader.at /\ reader'.todo = reader.todo
        /\ reader'.wanted = reader.wanted /\ reader'.key = reader.key
    BY <1>0, <1>3 DEF Idle, Reading
  <2>3. Sighted(reader.key)' /\ reader'.key.pid = reader'.at /\ reader'.peers \subseteq DOMAIN targets'
    BY <1>0, <2>1, <2>2, TableStands DEF ScanReading, OthersKept
  <2>4. ASSUME Matches(reader.key) PROVE Evidence(reader.key, reader'.peers)
    <3>1. /\ procs \in seen /\ procs[reader.key.pid] # None /\ reader.key.pid = reader.at
          /\ procs[reader.key.pid].start = reader.key.start
      BY <1>0, <2>1, <2>4 DEF AttachmentInv, TableSound, ScanReading, Matches, Lives
    <3>2. WasInteractive(reader.key)
      BY <1>3, <3>1 DEF WasInteractive
    <3>3. \A e \in reader'.peers : e \in {Peer[s] : s \in procs[reader.key.pid].fds}
      BY <1>3, <2>2, <3>1 DEF Fds
    <3>4. \A e \in reader'.peers : WasConnected(reader.key, e)
      BY <3>1, <3>3 DEF WasConnected
    <3> QED BY <3>2, <3>4 DEF Evidence
  <2>5. Matches(reader.key)' => Evidence(reader.key, reader.peers)'
    <3>1. Matches(reader'.key) => Evidence(reader'.key, reader'.peers)
      BY <2>2, <2>4
    <3> QED BY <3>1, TableStands
  <2>6. ScanReading'
    BY <1>0, <2>2, <2>3, <2>5 DEF ScanReading, OthersKept, tableVars
  <2>7. ReaderSound'
    BY <1>0, <2>2, <2>6 DEF ReaderSound
  <2> QED BY <1>0, <2>7, KeptAttachments DEF AttachmentInv
<1>4. CASE Confirm /\ Confirmed /\ reader' = [reader EXCEPT !.step = "focus"]
  <2>1. /\ reader.step = "confirm" /\ (\E e \in reader.peers : reader.peers = {e}) /\ Matches(reader.key)
    BY <1>4 DEF Confirm, Step, Confirmed
  <2>2. /\ reader'.step = "focus" /\ DOMAIN reader' = DOMAIN reader /\ reader'.peers = reader.peers
        /\ reader'.phase = "scan" /\ reader'.at = reader.at /\ reader'.todo = reader.todo
        /\ reader'.wanted = reader.wanted /\ reader'.key = reader.key
    BY <1>0, <1>4 DEF Idle, Reading
  <2>3. Sighted(reader.key) /\ reader.key.pid = reader.at /\ Evidence(reader.key, reader.peers)
    BY <1>0, <2>1 DEF ScanReading
  <2>4. Sighted(reader.key)' /\ Evidence(reader.key, reader.peers)'
    <3>1. Sighted(reader'.key) /\ Evidence(reader'.key, reader'.peers)
      BY <2>2, <2>3
    <3> QED BY <3>1, TableStands
  <2>5. ScanReading'
    BY <1>0, <2>1, <2>2, <2>3, <2>4 DEF ScanReading, OthersKept, tableVars
  <2>6. ReaderSound'
    BY <1>0, <2>2, <2>5 DEF ReaderSound
  <2> QED BY <1>0, <2>6, KeptAttachments DEF AttachmentInv
<1>5. CASE StatProcess
  BY <1>1, <1>2, <1>5 DEF StatProcess, Proceed
<1>6. CASE ReadFiles
  BY <1>1, <1>3, <1>6 DEF ReadFiles, Proceed
<1>7. CASE Confirm
  BY <1>1, <1>4, <1>7 DEF Confirm, Proceed
<1> QED BY <1>5, <1>6, <1>7

\* A focus target is of who has the process ID now.
LEMMA FocusLeads ==
  ASSUME AttachmentInv, NEW key, Sighted(key), NEW other,
         LET target == FocusTarget(key.pid, other) IN target # None
  PROVE  Leads(FocusTarget(key.pid, other), key)
<1> DEFINE p == key.pid
           target == FocusTarget(p, other)
<1>0. target # None
  OBVIOUS
<1>1. p \in DOMAIN procs /\ Lives(p) /\ target.of = KeyOf(p)
  BY <1>0 DEF Sighted, FocusTarget, KittyTarget
<1>2. Sighted(target.of) /\ target.of.pid = p /\ target.of.start = procs[p].start
  BY <1>1, KeySighted DEF AttachmentInv
<1>3. key.start <= procs[p].start
  BY <1>1 DEF Sighted
<1>4. target.of.start >= key.start
  BY <1>2, <1>3 DEF Sighted
<1>5. Leads(target, key)
  BY <1>2, <1>4 DEF Leads
<1> QED BY <1>5

\* A terminal is found.
LEMMA FoundAttachments == ASSUME AttachmentInv, UNCHANGED tableVars, FindTui PROVE AttachmentInv'
<1> DEFINE key      == reader.key
           endpoint == CHOOSE e \in reader.peers : TRUE
           target   == FocusTarget(reader.at, key)
           tui      == [instance |-> targets[endpoint], stale |-> FALSE, misses |-> 0, focus |-> target]
<1>1. /\ reader.phase = "scan" /\ reader.at # None /\ reader.step = "focus"
      /\ found' = With(found, key, tui)
      /\ reader' = Reading(reader.phase, reader.todo \ {reader.at}, reader.wanted)
      /\ UNCHANGED <<targets, v1, claude, retained, focused, scans, lastScan>>
  BY DEF FindTui, Step, Proceed
<1>2. ScanReading
  BY <1>1 DEF AttachmentInv, ReaderSound
<1>3. /\ Sighted(key) /\ key.pid = reader.at
      /\ endpoint \in reader.peers /\ endpoint \in DOMAIN targets
      /\ WasInteractive(key) /\ WasConnected(key, endpoint)
  BY <1>1, <1>2 DEF ScanReading, Evidence
<1>4. tui.instance.endpoint = endpoint
  BY <1>3 DEF AttachmentInv, ServersSound
<1>5. tui.focus # None => Leads(tui.focus, key)
  BY <1>3, FocusLeads
<1>6. DOMAIN tui = FoundFields /\ tui.misses = 0
  BY DEF FoundFields
<1>7. ReaderSound'
  BY <1>1, ReaderPassed
<1>8. TableSound' /\ ServersSound' /\ FocusedSound' /\ RetainedSound'
  <2>1. TableSound' /\ ServersSound'
    BY <1>1, TableStands DEF AttachmentInv, ServersSound, tableVars
  <2>2. FocusedSound'
    BY <1>1, TableStands DEF AttachmentInv, FocusedSound
  <2>3. RetainedSound'
    BY <1>1 DEF AttachmentInv, RetainedSound
  <2> QED BY <2>1, <2>2, <2>3
<1>9. FoundSound'
  <2> HIDE DEF key, tui
  <2>1. \A k \in DOMAIN found' :
          /\ Sighted(k) /\ WasInteractive(k) /\ WasConnected(k, found'[k].instance.endpoint)
          /\ found'[k].focus # None => Leads(found'[k].focus, k)
          /\ DOMAIN found'[k] = FoundFields /\ found'[k].misses = 0
    BY <1>1, <1>3, <1>4, <1>5, <1>6 DEF AttachmentInv, FoundSound, With
  <2> QED BY <2>1, TableStands DEF FoundSound
<1> QED BY <1>7, <1>8, <1>9 DEF AttachmentInv

\* The scan of the terminals is over.
LEMMA EndedAttachments == ASSUME AttachmentInv, UNCHANGED tableVars, EndScan PROVE AttachmentInv'
<1>1. /\ retained' = Applied /\ lastScan' = DOMAIN found
      /\ reader' = Reading("v1", DOMAIN v1, {})
      /\ UNCHANGED <<targets, v1, claude, found, focused, scans>>
  BY DEF EndScan
<1>2. TableSound' /\ ServersSound' /\ FoundSound' /\ FocusedSound'
  <2>1. TableSound' /\ ServersSound'
    BY <1>1, TableStands DEF AttachmentInv, ServersSound, tableVars
  <2>2. FocusedSound'
    BY <1>1, TableStands DEF AttachmentInv, FocusedSound
  <2>3. FoundSound'
    BY <1>1, TableStands DEF AttachmentInv, FoundSound
  <2> QED BY <2>1, <2>2, <2>3
<1>3. ReaderSound'
  <2>1. V1Reading'
    BY <1>1, IdleReads DEF V1Reading
  <2> QED BY <1>1, <2>1, IdleReads DEF ReaderSound
<1>4. RetainedSound'
  <2>1. \A k \in DOMAIN retained :
          /\ DOMAIN Missed(retained[k]) = FoundFields
          /\ Missed(retained[k]).misses = retained[k].misses + 1
    BY DEF AttachmentInv, RetainedSound, Missed, Stale, FoundFields
  <2>2. \A k \in DOMAIN retained' :
          IF k \in DOMAIN found THEN retained'[k] = found[k]
          ELSE k \in DOMAIN retained /\ retained'[k] = Missed(retained[k])
    BY <1>1 DEF Applied
  <2> QED BY <1>1, <2>1, <2>2 DEF AttachmentInv, RetainedSound, FoundSound
<1> QED BY <1>2, <1>3, <1>4 DEF AttachmentInv

\* The focus of v1 servers.
LEMMA V1Attachments ==
  ASSUME AttachmentInv, UNCHANGED tableVars, V1Stat \/ V1Focus \/ V1Confirm \/ EndV1
  PROVE  AttachmentInv'
<1>0. /\ reader.phase = "v1" /\ V1Reading /\ DOMAIN reader = DOMAIN Idle
      /\ reader.at # None => reader.at \in DOMAIN v1 /\ reader.at.pid \in DOMAIN procs /\ reader.at \in Servers
  BY DEF V1Stat, V1Focus, V1Confirm, EndV1, Step, AttachmentInv, ReaderSound, ServersSound, V1Reading
<1>1. CASE OthersKept /\ reader' = Reading(reader.phase, reader.todo \ {reader.at}, reader.wanted)
  BY <1>0, <1>1, ReaderPassed, KeptAttachments DEF AttachmentInv, OthersKept
<1>2. CASE V1Stat
  <2>1. OthersKept /\ reader.at # None
    BY <1>2 DEF V1Stat, OthersKept, Step
  <2>2. CASE Lives(reader.at.pid) /\ reader' = [reader EXCEPT !.step = "focus", !.key = KeyOf(reader.at.pid)]
    <3>1. Sighted(KeyOf(reader.at.pid)) /\ KeyOf(reader.at.pid).pid = reader.at.pid
      BY <1>0, <2>1, <2>2, KeySighted DEF AttachmentInv
    <3>2. /\ reader'.key = KeyOf(reader.at.pid) /\ reader'.step = "focus" /\ DOMAIN reader' = DOMAIN reader
          /\ reader'.phase = "v1" /\ reader'.at = reader.at /\ reader'.todo = reader.todo
      BY <1>0, <2>2 DEF Idle, Reading
    <3>3. Sighted(reader'.key) /\ reader'.key.pid = reader'.at.pid
      BY <3>1, <3>2
    <3>4. Sighted(reader.key)'
      BY <3>3, TableStands
    <3>5. V1Reading'
      BY <1>0, <2>1, <3>2, <3>3, <3>4 DEF V1Reading, OthersKept
    <3>6. ReaderSound'
      BY <1>0, <2>1, <3>2, <3>5 DEF ReaderSound
    <3> QED BY <2>1, <3>6, KeptAttachments DEF AttachmentInv
  <2> QED BY <1>1, <1>2, <2>1, <2>2 DEF V1Stat, Proceed
<1>3. CASE V1Focus
  <2> DEFINE target == FocusTarget(reader.at.pid, reader.key)
  <2>1. OthersKept /\ reader.at # None /\ reader.step = "focus"
    BY <1>3 DEF V1Focus, OthersKept, Step
  <2>2. CASE target # None /\ reader' = [reader EXCEPT !.step = "confirm", !.focus = target]
    <3>1. Sighted(reader.key) /\ reader.key.pid = reader.at.pid
      BY <1>0, <2>1 DEF V1Reading
    <3>2. Leads(target, reader.key)
      BY <2>2, <3>1, FocusLeads
    <3> HIDE DEF target
    <3>3. /\ reader'.key = reader.key /\ reader'.focus = target /\ reader'.step = "confirm"
          /\ DOMAIN reader' = DOMAIN reader
          /\ reader'.phase = "v1" /\ reader'.at = reader.at /\ reader'.todo = reader.todo
      BY <1>0, <2>2 DEF Idle, Reading
    <3>4. Sighted(reader'.key) /\ Leads(reader'.focus, reader'.key)
      BY <3>1, <3>2, <3>3
    <3>5. Sighted(reader.key)' /\ Leads(reader.focus, reader.key)'
      BY <3>4, TableStands
    <3>6. V1Reading'
      BY <1>0, <2>1, <3>1, <3>3, <3>5 DEF V1Reading, OthersKept
    <3>7. ReaderSound'
      BY <1>0, <2>1, <3>3, <3>6 DEF ReaderSound
    <3> QED BY <2>1, <3>7, KeptAttachments DEF AttachmentInv
  <2> QED BY <1>1, <1>3, <2>1, <2>2 DEF V1Focus, Proceed
<1>4. CASE V1Confirm
  <2> DEFINE i    == reader.at
             owns == Matches(reader.key) /\ OwnsSocket(i)
  <2>1. /\ reader.at # None /\ reader.step = "confirm"
        /\ focused' = IF owns THEN With(focused, i, reader.focus) ELSE focused
        /\ v1' = IF owns THEN [v1 EXCEPT ![i] = reader.key.start] ELSE v1
        /\ reader' = Reading(reader.phase, reader.todo \ {reader.at}, reader.wanted)
        /\ UNCHANGED <<targets, claude, retained, found, scans, lastScan>>
    BY <1>4 DEF V1Confirm, Step, Proceed
  <2>2. DOMAIN v1' = DOMAIN v1
    BY <2>1
  <2>3. ReaderSound'
    BY <1>0, <2>1, <2>2, ReaderPassed
  <2>4. TableSound' /\ ServersSound' /\ FoundSound' /\ RetainedSound'
    <3>1. TableSound' /\ ServersSound'
      BY <2>1, <2>2, TableStands DEF AttachmentInv, ServersSound, tableVars
    <3>2. FoundSound'
      BY <2>1, TableStands DEF AttachmentInv, FoundSound
    <3>3. RetainedSound'
      BY <2>1 DEF AttachmentInv, RetainedSound
    <3> QED BY <3>1, <3>2, <3>3
  <2>5. owns => reader.focus.of.pid = i.pid /\ WasListening(reader.focus.of, i.inode)
    <3> SUFFICES ASSUME owns PROVE reader.focus.of.pid = i.pid /\ WasListening(reader.focus.of, i.inode)
      OBVIOUS
    <3> DEFINE of == reader.focus.of
    <3>1. /\ Leads(reader.focus, reader.key) /\ reader.key.pid = i.pid
          /\ Matches(reader.key) /\ OwnsSocket(i) /\ Sighted(reader.key)
      BY <1>0, <2>1 DEF V1Reading
    <3>2. of.pid = i.pid /\ Sighted(of) /\ of.start >= reader.key.start
      BY <3>1 DEF Leads
    <3>3. procs[i.pid] # None /\ procs[i.pid].start = reader.key.start
      BY <3>1 DEF Matches, Lives
    <3>4. of.start <= procs[i.pid].start /\ of.start \in Nat /\ reader.key.start \in Nat
      BY <3>1, <3>2, <3>3 DEF Sighted, Lives
    <3>5. procs[of.pid].start = of.start
      BY <3>2, <3>3, <3>4
    <3>6. i.inode \in procs[of.pid].fds /\ procs \in seen
      BY <3>1, <3>2, <3>3 DEF OwnsSocket, Fds, Lives, AttachmentInv, TableSound
    <3> QED BY <3>2, <3>3, <3>5, <3>6 DEF WasListening
  <2>6. FocusedSound'
    <3>1. \A x \in DOMAIN focused' :
            IF x \in Servers
            THEN focused'[x].of.pid = x.pid /\ WasListening(focused'[x].of, x.inode)
            ELSE Sighted(x) /\ Leads(focused'[x], x)
      BY <1>0, <2>1, <2>5 DEF AttachmentInv, FocusedSound, With
    <3> QED BY <3>1, TableStands DEF FocusedSound
  <2> QED BY <2>3, <2>4, <2>6 DEF AttachmentInv
<1>5. CASE EndV1
  <2>1. OthersKept /\ reader' = Reading("claude", claude, {})
    BY <1>5 DEF EndV1, OthersKept
  <2>2. ClaudeReading'
    BY <2>1, IdleReads DEF ClaudeReading, OthersKept
  <2>3. ReaderSound'
    BY <2>1, <2>2, IdleReads DEF ReaderSound
  <2> QED BY <2>1, <2>3, KeptAttachments DEF AttachmentInv
<1> QED BY <1>2, <1>3, <1>4, <1>5

\* And that of Claude sessions.
LEMMA ClaudeAttachments ==
  ASSUME AttachmentInv, UNCHANGED tableVars, ClaudeFocus \/ ClaudeConfirm \/ EndSample
  PROVE  AttachmentInv'
<1>0. /\ reader.phase = "claude" /\ ClaudeReading /\ DOMAIN reader = DOMAIN Idle
      /\ reader.at # None => reader.at \in claude /\ Sighted(reader.at)
  BY DEF ClaudeFocus, ClaudeConfirm, EndSample, Step, AttachmentInv, ReaderSound, ServersSound, ClaudeReading
<1>1. CASE OthersKept /\ reader' = Reading(reader.phase, reader.todo \ {reader.at}, reader.wanted)
  BY <1>0, <1>1, ReaderPassed, KeptAttachments DEF AttachmentInv, OthersKept
<1>2. CASE ClaudeFocus
  <2> DEFINE target == FocusTarget(reader.at.pid, reader.at)
  <2>1. OthersKept /\ reader.at # None
    BY <1>2 DEF ClaudeFocus, OthersKept, Step
  <2>2. CASE target # None /\ reader' = [reader EXCEPT !.step = "confirm", !.focus = target]
    <3>1. Leads(target, reader.at)
      BY <1>0, <2>1, <2>2, FocusLeads
    <3> HIDE DEF target
    <3>2. /\ reader'.focus = target /\ reader'.step = "confirm"
          /\ DOMAIN reader' = DOMAIN reader
          /\ reader'.phase = "claude" /\ reader'.at = reader.at /\ reader'.todo = reader.todo
      BY <1>0, <2>2 DEF Idle, Reading
    <3>3. Leads(reader'.focus, reader'.at)
      BY <3>1, <3>2
    <3>4. Leads(reader.focus, reader.at)'
      BY <3>3, TableStands
    <3>5. ClaudeReading'
      BY <1>0, <2>1, <3>2, <3>4 DEF ClaudeReading, OthersKept
    <3>6. ReaderSound'
      BY <1>0, <2>1, <3>2, <3>5 DEF ReaderSound
    <3> QED BY <2>1, <3>6, KeptAttachments DEF AttachmentInv
  <2> QED BY <1>1, <1>2, <2>1, <2>2 DEF ClaudeFocus, Proceed
<1>3. CASE ClaudeConfirm
  <2>1. /\ reader.at # None /\ reader.step = "confirm"
        /\ focused' \in {With(focused, reader.at, reader.focus), focused}
        /\ reader' = Reading(reader.phase, reader.todo \ {reader.at}, reader.wanted)
        /\ UNCHANGED <<targets, v1, claude, retained, found, scans, lastScan>>
    BY <1>3 DEF ClaudeConfirm, Step, Proceed
  <2>2. ReaderSound'
    BY <1>0, <2>1, ReaderPassed
  <2>3. TableSound' /\ ServersSound' /\ FoundSound' /\ RetainedSound'
    <3>1. TableSound' /\ ServersSound'
      BY <2>1, TableStands DEF AttachmentInv, ServersSound, tableVars
    <3>2. FoundSound'
      BY <2>1, TableStands DEF AttachmentInv, FoundSound
    <3>3. RetainedSound'
      BY <2>1 DEF AttachmentInv, RetainedSound
    <3> QED BY <3>1, <3>2, <3>3
  <2>4. reader.at \notin Servers
    <3>1. DOMAIN reader.at = {"pid", "start"}
      BY <1>0, <2>1 DEF Sighted
    <3> QED BY <3>1, SamplerAssumption
  <2>5. FocusedSound'
    <3>0. Leads(reader.focus, reader.at)
      BY <1>0, <2>1 DEF ClaudeReading
    <3>1. \A x \in DOMAIN focused' :
            IF x \in Servers
            THEN focused'[x].of.pid = x.pid /\ WasListening(focused'[x].of, x.inode)
            ELSE Sighted(x) /\ Leads(focused'[x], x)
      BY <1>0, <2>1, <2>4, <3>0 DEF AttachmentInv, FocusedSound, With
    <3> QED BY <3>1, TableStands DEF FocusedSound
  <2> QED BY <2>2, <2>3, <2>5 DEF AttachmentInv
<1>4. CASE EndSample
  <2>1. OthersKept /\ reader' = Idle
    BY <1>4 DEF EndSample, OthersKept
  <2>2. ReaderSound'
    BY <2>1, IdleReads DEF ReaderSound
  <2> QED BY <2>1, <2>2, KeptAttachments DEF AttachmentInv
<1> QED BY <1>2, <1>3, <1>4

\* Each step of the sampler leaves what it knows sound.
LEMMA SteppedAttachments ==
  ASSUME AttachmentInv, SamplerStep PROVE AttachmentInv'
<1>1. CASE UNCHANGED tableVars /\ (\E i \in Servers : ServerFound(i) \/ ServerRemoved(i))
  BY <1>1, ObservedAttachments
<1>2. CASE /\ UNCHANGED tableVars
           /\ (\E p \in DOMAIN procs : ClaudeFound(p)) \/ (\E x \in claude : ClaudeRemoved(x))
  BY <1>2, ObservedAttachments
<1>3. CASE UNCHANGED tableVars /\ (\E x \in reader.todo : TakeUp(x))
  BY <1>3, TakenUp
<1>4. CASE UNCHANGED tableVars /\ (StatProcess \/ ReadFiles \/ Confirm)
  BY <1>4, ScannedAttachments
<1>5. CASE UNCHANGED tableVars /\ (FindTui \/ EndScan)
  BY <1>5, FoundAttachments, EndedAttachments
<1>6. CASE UNCHANGED tableVars /\ (V1Stat \/ V1Focus \/ V1Confirm \/ EndV1)
  BY <1>6, V1Attachments
<1>7. CASE UNCHANGED tableVars /\ (ClaudeFocus \/ ClaudeConfirm \/ EndSample)
  BY <1>7, ClaudeAttachments
<1>8. CASE (BeginScan \/ FailScan) /\ UNCHANGED <<procs, changes>>
  BY <1>8, BegunAttachments
<1> QED BY <1>1, <1>2, <1>3, <1>4, <1>5, <1>6, <1>7, <1>8 DEF SamplerStep

\* The sampler over any table of processes, whatever becomes of them.
SamplerBegin ==
  /\ TableSound /\ SamplerInit
  /\ \A i \in Servers : i.protocol # "v2" => i.pid \in DOMAIN procs

SamplerNext == SamplerStep \/ (Turns /\ UNCHANGED samplerVars)

SamplerSpec == SamplerBegin /\ [][SamplerNext]_<<tableVars, samplerVars>>

\* It begins with nothing known.
LEMMA BeginAttachments == ASSUME SamplerBegin PROVE AttachmentInv
<1>1. ServersSound
  BY DEF SamplerBegin, SamplerInit, ServersSound, Nothing
<1>2. ReaderSound
  BY IdleReads DEF SamplerBegin, SamplerInit, ReaderSound
<1>3. FoundSound /\ FocusedSound /\ RetainedSound
  BY DEF SamplerBegin, SamplerInit, FoundSound, FocusedSound, RetainedSound, Nothing
<1> QED BY <1>1, <1>2, <1>3 DEF AttachmentInv, SamplerBegin

\* The invariant is inductive, whatever processes do between two steps.
LEMMA SamplerKeeps ==
  ASSUME AttachmentInv, [SamplerNext]_<<tableVars, samplerVars>> PROVE AttachmentInv'
<1>1. CASE SamplerStep
  BY <1>1, SteppedAttachments
<1>2. CASE Turns /\ UNCHANGED samplerVars
  BY <1>2, AttachmentTurns
<1>3. CASE UNCHANGED <<tableVars, samplerVars>>
  <2>1. UNCHANGED tableVars /\ OthersKept /\ reader' = reader
    BY <1>3 DEF samplerVars, OthersKept
  <2>2. ReaderSound'
    <3>1. ScanReading => ScanReading'
      BY <2>1, TableStands DEF ScanReading, OthersKept, tableVars
    <3>2. V1Reading => V1Reading'
      BY <2>1, TableStands DEF V1Reading, OthersKept
    <3>3. ClaudeReading => ClaudeReading'
      BY <2>1, TableStands DEF ClaudeReading, OthersKept
    <3> QED BY <2>1, <3>1, <3>2, <3>3 DEF AttachmentInv, ReaderSound
  <2> QED BY <2>1, <2>2, KeptAttachments DEF AttachmentInv
<1> QED BY <1>1, <1>2, <1>3 DEF SamplerNext

\* And it is enough.
LEMMA AttachmentsHold == ASSUME AttachmentInv PROVE Correlated
<1>1. ASSUME NEW k \in DOMAIN found
      PROVE  /\ Was(k, LAMBDA process : process.program \in Interactive)
             /\ Was(k, LAMBDA process :
                         found[k].instance.endpoint \in {Peer[s] : s \in process.fds})
             /\ found[k].focus # None /\ Matches(k) => found[k].focus.of = k
  <2>1. /\ Sighted(k) /\ WasInteractive(k) /\ WasConnected(k, found[k].instance.endpoint)
        /\ found[k].focus # None => Leads(found[k].focus, k)
    BY DEF AttachmentInv, FoundSound
  <2>2. Was(k, LAMBDA process : process.program \in Interactive)
    BY <2>1 DEF Was, WasInteractive
  <2>3. Was(k, LAMBDA process : found[k].instance.endpoint \in {Peer[s] : s \in process.fds})
    BY <2>1 DEF Was, WasConnected
  <2>4. ASSUME found[k].focus # None, Matches(k) PROVE found[k].focus.of = k
    <3> DEFINE of == found[k].focus.of
    <3>1. Sighted(of) /\ of.pid = k.pid /\ of.start >= k.start /\ Lives(k.pid)
      BY <2>1, <2>4 DEF Leads, Matches
    <3>2. of.start <= procs[k.pid].start /\ procs[k.pid].start = k.start
      BY <2>4, <3>1 DEF Sighted, Matches
    <3>3. of.start = k.start
      BY <2>1, <3>1, <3>2 DEF Sighted
    <3> QED BY <2>1, <3>1, <3>3 DEF Sighted
  <2> QED BY <2>2, <2>3, <2>4
<1>2. ASSUME NEW x \in DOMAIN focused
      PROVE  IF x \in Servers
             THEN /\ focused[x].of.pid = x.pid
                  /\ Was(focused[x].of, LAMBDA process : x.inode \in process.fds)
             ELSE Matches(x) => focused[x].of = x
  <2>1. CASE x \in Servers
    <3>1. focused[x].of.pid = x.pid /\ WasListening(focused[x].of, x.inode)
      BY <2>1 DEF AttachmentInv, FocusedSound
    <3> QED BY <2>1, <3>1 DEF Was, WasListening
  <2>2. CASE x \notin Servers
    <3>1. Sighted(x) /\ Leads(focused[x], x)
      BY <2>2 DEF AttachmentInv, FocusedSound
    <3>2. ASSUME Matches(x) PROVE focused[x].of = x
      <4> DEFINE of == focused[x].of
      <4>1. Sighted(of) /\ of.pid = x.pid /\ of.start >= x.start /\ Lives(x.pid)
        BY <3>1, <3>2 DEF Leads, Matches
      <4>2. of.start <= procs[x.pid].start /\ procs[x.pid].start = x.start
        BY <3>2, <4>1 DEF Sighted, Matches
      <4>3. of.start = x.start
        BY <3>1, <4>1, <4>2 DEF Sighted
      <4> QED BY <3>1, <4>1, <4>3 DEF Sighted
    <3> QED BY <2>2, <3>2
  <2> QED BY <2>1, <2>2
<1> QED BY <1>1, <1>2 DEF Correlated

\* What a step may do to the retained terminals.
Detaches ==
  \A k \in DOMAIN retained :
    \/ k \in DOMAIN retained'
    \/ reader.phase \in {"scan", "scanned"} /\ k \notin lastScan \cup DOMAIN found
    \/ retained[k].instance \notin {targets'[e] : e \in DOMAIN targets'}

\* A step that drops a terminal has missed it twice, or lost its server.
LEMMA StepDetaches == ASSUME AttachmentInv, SamplerStep PROVE Detaches
<1>1. CASE EndScan
  <2>1. /\ retained' = Applied
        /\ reader.phase \in {"scan", "scanned"}
    BY <1>1 DEF EndScan
  <2>2. ASSUME NEW k \in DOMAIN retained, k \notin DOMAIN retained' PROVE k \notin lastScan \cup DOMAIN found
    <3> DEFINE missed == [j \in DOMAIN retained \ DOMAIN found |-> Missed(retained[j])]
    <3>1. DOMAIN retained' = {j \in DOMAIN missed : missed[j].misses < 2} \cup DOMAIN found
      BY <2>1 DEF Applied
    <3>2. k \notin DOMAIN found /\ ~(Missed(retained[k]).misses < 2)
      BY <2>2, <3>1
    <3>3. /\ Missed(retained[k]).misses = retained[k].misses + 1
          /\ k \in lastScan => retained[k].misses = 0
      BY DEF AttachmentInv, RetainedSound, Missed, Stale, FoundFields
    <3> QED BY <3>2, <3>3
  <2> QED BY <2>1, <2>2 DEF Detaches
<1>2. CASE \E i \in Servers : ServerRemoved(i)
  <2>1. PICK i \in Servers : ServerRemoved(i)
    BY <1>2
  <2>2. ASSUME NEW k \in DOMAIN retained, k \notin DOMAIN retained'
        PROVE  retained[k].instance \notin {targets'[e] : e \in DOMAIN targets'}
    <3>1. retained[k].instance = i
      BY <2>1, <2>2 DEF ServerRemoved, Without
    <3>2. targets' = [e \in DOMAIN targets \ {i.endpoint} |-> targets[e]]
      BY <2>1 DEF ServerRemoved, Without
    <3>3. \A e \in DOMAIN targets : targets[e].endpoint = e
      BY DEF AttachmentInv, ServersSound
    <3> QED BY <3>1, <3>2, <3>3
  <2> QED BY <2>2 DEF Detaches
<1>3. CASE FailScan
  BY <1>3 DEF FailScan, Detaches
<1>4. CASE ~EndScan /\ ~FailScan /\ ~\E i \in Servers : ServerRemoved(i)
  <2>1. retained' = retained
    BY <1>4 DEF SamplerStep, ServerFound, ClaudeFound, ClaudeRemoved, TakeUp, StatProcess, ReadFiles,
                Confirm, FindTui, V1Stat, V1Focus, V1Confirm, EndV1, ClaudeFocus, ClaudeConfirm,
                EndSample, BeginScan
  <2> QED BY <2>1 DEF Detaches
<1> QED BY <1>1, <1>2, <1>3, <1>4

\* The sampler over any number of processes, terminals and servers: a terminal
\* is attached only to a server it was connected to during the scan, and no
\* focus target leads to the terminal of another process while its own runs.
THEOREM SamplerCorrelates == SamplerSpec => []Correlated
<1>1. SamplerBegin => AttachmentInv
  BY BeginAttachments
<1>2. AttachmentInv /\ [SamplerNext]_<<tableVars, samplerVars>> => AttachmentInv'
  BY SamplerKeeps
<1>3. AttachmentInv => Correlated
  BY AttachmentsHold
<1> QED BY <1>1, <1>2, <1>3, PTL DEF SamplerSpec

\* And a terminal is detached by its second scan without it in a row, or with
\* its server.
THEOREM SamplerDetachesLate == SamplerSpec => DetachedLate
<1>1. SamplerBegin => AttachmentInv
  BY BeginAttachments
<1>2. AttachmentInv /\ [SamplerNext]_<<tableVars, samplerVars>> => AttachmentInv'
  BY SamplerKeeps
<1>3. AttachmentInv /\ [SamplerNext]_<<tableVars, samplerVars>> => [Detaches]_retained
  <2> SUFFICES ASSUME AttachmentInv, [SamplerNext]_<<tableVars, samplerVars>>, retained' # retained
               PROVE  Detaches
    OBVIOUS
  <2>1. SamplerStep
    BY DEF SamplerNext, samplerVars
  <2> QED BY <2>1, StepDetaches
<1>4. SamplerSpec => [][Detaches]_retained
  BY <1>1, <1>2, <1>3, PTL DEF SamplerSpec
<1> QED BY <1>4, PTL DEF DetachedLate, Detaches

-----------------------------------------------------------------------------
(* The small instance is one of them.                                      *)

\* A behavior about attachments keeps to this; in any other nothing was found.
AttachmentSide ==
  IF part = "attachments" THEN AttachmentInv /\ DOMAIN procs = {2, 3, 4}
  ELSE found = Nothing /\ focused = Nothing /\ retained = Nothing

\* The processes of the small instance do what processes may.
LEMMA AttachmentWorldTurns ==
  ASSUME TableSound, AttachmentWorld, DOMAIN procs = {2, 3, 4} PROVE Turns
<1>1. PICK p \in {2, 3} :
        \/ Ends(p)
        \/ \E parent \in {2, 3} : Fork(p, parent, "tui", None)
        \/ \E program \in {"tui", "claude"}, fds \in {{}, {"x"}, {"y"}} :
             fds \cap Held = {} /\ Start(p, program, fds, None)
        \/ \E s \in {"y", "z"} \ Held :
             Lives(p) /\ procs[p].program = "tui" /\ OpenSocket(p, s)
        \/ \E s \in {"x", "y"} : CloseSocket(p, s)
  BY DEF AttachmentWorld
<1>2. p \in DOMAIN procs
  OBVIOUS
<1> QED BY <1>1, <1>2, ActionsTurn

\* The fields of a process that begins.
LEMMA ProcessFormed ==
  ASSUME NEW program, NEW begun, NEW above, NEW fds, NEW g
  PROVE  /\ DOMAIN Process(program, begun, above, fds, g) = ProcessFields
         /\ Process(program, begun, above, fds, g).start = begun
  BY DEF Process, ProcessFields

\* The tables that a behavior about attachments begins with.
LEMMA AttachmentTablesSound ==
  ASSUME NEW first \in AttachmentTables, TableInit(first)
  PROVE  TableSound /\ DOMAIN procs = {2, 3, 4}
<1>1. PICK tui \in {"tui", "kittytui"} :
        first = [p \in {2, 3, 4} |->
                   CASE p = 2 -> Process(tui, 1, 1, {"x"}, None)
                     [] p = 3 -> Process("v1server", 2, 1, {"l"}, None)
                     [] p = 4 -> Process("kitty", 0, 1, {"k"}, None)]
  BY DEF AttachmentTables
<1>2. /\ DOMAIN first = {2, 3, 4}
      /\ first[2] = Process(tui, 1, 1, {"x"}, None)
      /\ first[3] = Process("v1server", 2, 1, {"l"}, None)
      /\ first[4] = Process("kitty", 0, 1, {"k"}, None)
  BY <1>1
<1>3. \A p \in DOMAIN first : DOMAIN first[p] = ProcessFields /\ first[p].start \in 0 .. 3
  <2>1. DOMAIN first[2] = ProcessFields /\ first[2].start = 1
    BY <1>2, ProcessFormed
  <2>2. DOMAIN first[3] = ProcessFields /\ first[3].start = 2
    BY <1>2, ProcessFormed
  <2>3. DOMAIN first[4] = ProcessFields /\ first[4].start = 0
    BY <1>2, ProcessFormed
  <2> QED BY <1>2, <2>1, <2>2, <2>3
<1> QED BY <1>2, <1>3 DEF TableInit, TableSound, Lives

\* The small instance keeps the invariant.
LEMMA AttachmentSideHolds ==
  ASSUME AttachmentSide,
         [Next]_<<tableVars, samplerVars, memoryVars, scanVars, fileVars, reading, markerVars,
                  streamVars, pagesVars, argumentVars, part>>
  PROVE  AttachmentSide' /\ (part = "attachments" => [SamplerNext]_<<tableVars, samplerVars>>)
<1>1. CASE part' = part /\ part # "attachments" /\ UNCHANGED samplerVars
  BY <1>1 DEF AttachmentSide, samplerVars
<1>2. CASE part' = part /\ part = "attachments" /\ AttachmentPart
  <2>1. AttachmentInv /\ DOMAIN procs = {2, 3, 4} /\ TableSound
    BY <1>2 DEF AttachmentSide, AttachmentInv
  <2>2. CASE SamplerStep
    <3>1. procs' = procs
      BY <2>2 DEF SamplerStep, tableVars
    <3> QED BY <1>2, <2>1, <2>2, <3>1, SamplerKeeps DEF AttachmentSide, SamplerNext
  <2>3. CASE AttachmentWorld /\ UNCHANGED samplerVars
    <3>1. Turns
      BY <2>1, <2>3, AttachmentWorldTurns
    <3> QED BY <1>2, <2>1, <2>3, <3>1, SamplerKeeps DEF AttachmentSide, SamplerNext, Turns
  <2> QED BY <1>2, <2>2, <2>3 DEF AttachmentPart
<1>3. CASE UNCHANGED <<tableVars, samplerVars, part>>
  <2>1. AttachmentInv => AttachmentInv'
    BY <1>3, SamplerKeeps
  <2> QED BY <1>3, <2>1 DEF AttachmentSide, samplerVars, tableVars
<1>4. CASE Next /\ part = "attachments"
  <2>1. part' = part /\ AttachmentPart
    BY <1>4 DEF Next, MemoryPart, ScanPart, RegistrationPart, MarkerPart, StreamPart, PagesPart, ArgumentsPart
  <2> QED BY <1>2, <1>4, <2>1
<1>5. CASE Next /\ part # "attachments"
  <2>1. part' = part /\ UNCHANGED samplerVars
    BY <1>5 DEF Next, AttachmentPart, MemoryPart, ScanPart, RegistrationPart, MarkerPart, StreamPart, PagesPart, ArgumentsPart
  <2> QED BY <1>1, <1>5, <2>1
<1> QED BY <1>3, <1>4, <1>5

\* The small instance begins with it.
LEMMA AttachmentSideBegins == ASSUME Init PROVE AttachmentSide
<1>0. SamplerInit
  BY DEF Init
<1>1. CASE part = "attachments"
  <2>1. PICK first \in AttachmentTables : TableInit(first)
    BY <1>1 DEF Init
  <2>2. TableSound /\ DOMAIN procs = {2, 3, 4}
    BY <2>1, AttachmentTablesSound
  <2>3. SamplerBegin
    BY <1>0, <2>2, AttachmentAssumption DEF SamplerBegin
  <2> QED BY <1>1, <2>2, <2>3, BeginAttachments DEF AttachmentSide
<1>2. CASE part # "attachments"
  BY <1>0, <1>2 DEF AttachmentSide, SamplerInit
<1> QED BY <1>1, <1>2

\* What is found is of a process that was seen so, and leads to its own
\* terminal, however often processes end and their IDs are used again.
THEOREM AttachmentsCorrelate == Spec => []Correlated
<1>1. Init => AttachmentSide
  BY AttachmentSideBegins
<1>2. AttachmentSide /\ [Next]_<<tableVars, samplerVars, memoryVars, scanVars, fileVars, reading, markerVars,
                                streamVars, pagesVars, argumentVars, part>> => AttachmentSide'
  BY AttachmentSideHolds
<1>3. AttachmentSide => Correlated
  <2>1. CASE part = "attachments"
    BY <2>1, AttachmentsHold DEF AttachmentSide
  <2>2. CASE part # "attachments"
    BY <2>2 DEF AttachmentSide, Correlated, Nothing
  <2> QED BY <2>1, <2>2
<1> QED BY <1>1, <1>2, <1>3, PTL DEF Spec

\* A terminal that is attached stays so until a second scan in a row misses it.
THEOREM AttachmentsDetachLate == Spec => DetachedLate
<1>1. Init => AttachmentSide
  BY AttachmentSideBegins
<1>2. AttachmentSide /\ [Next]_<<tableVars, samplerVars, memoryVars, scanVars, fileVars, reading, markerVars,
                                streamVars, pagesVars, argumentVars, part>>
        => AttachmentSide' /\ [Detaches]_retained
  <2> SUFFICES ASSUME AttachmentSide,
                      [Next]_<<tableVars, samplerVars, memoryVars, scanVars, fileVars, reading, markerVars,
                               streamVars, pagesVars, argumentVars, part>>
               PROVE  AttachmentSide' /\ (retained' # retained => Detaches)
    OBVIOUS
  <2>1. AttachmentSide' /\ (part = "attachments" => [SamplerNext]_<<tableVars, samplerVars>>)
    BY AttachmentSideHolds
  <2>2. ASSUME retained' # retained PROVE Detaches
    <3>1. CASE part = "attachments"
      <4>1. AttachmentInv /\ SamplerStep
        BY <2>1, <2>2, <3>1 DEF AttachmentSide, SamplerNext, samplerVars
      <4> QED BY <4>1, StepDetaches
    <3>2. CASE part # "attachments"
      BY <3>2 DEF AttachmentSide, Detaches, Nothing
    <3> QED BY <3>1, <3>2
  <2> QED BY <2>1, <2>2
<1>3. Spec => [][Detaches]_retained
  BY <1>1, <1>2, PTL DEF Spec
<1> QED BY <1>3, PTL DEF DetachedLate, Detaches

-----------------------------------------------------------------------------
(* Memory: any processes in any groups, whose directories go and come.     *)

Paths == {Path[g] : g \in DOMAIN Path}

\* The directory of a path is that of a group of this path, and that of a group
\* that a process is in is there.
Housed ==
  /\ DOMAIN directory = Paths
  /\ \A path \in Paths :
       directory[path] # None => directory[path] \in DOMAIN Path /\ Path[directory[path]] = path
  /\ \A p \in DOMAIN procs : Lives(p) =>
       procs[p].group \in DOMAIN Path /\ directory[Path[procs[p].group]] = procs[p].group

MemoryTurns ==
  \/ /\ Turns /\ directory' = directory
     /\ \A p \in DOMAIN procs : procs'[p] # None =>
          procs'[p].group \in DOMAIN Path /\ directory[Path[procs'[p].group]] = procs'[p].group
  \/ \E path \in Paths, group \in DOMAIN Path \cup {None} :
       /\ group # None => Path[group] = path
       /\ ReplaceDirectory(path, group)

\* The group has its directory, or none was in it meanwhile.
There(g) == directory[Path[g]] = g \/ Deserted(g)

\* Processes and groups may do what they do; what had its directory has it, or was left by all.
LEMMA MemoryTurnsSound ==
  ASSUME TableSound, Housed, MemoryTurns
  PROVE  /\ TableSound' /\ Housed'
         /\ seen \subseteq seen' /\ DOMAIN procs' = DOMAIN procs
         /\ \A pid, start : Sighted([pid |-> pid, start |-> start])
                              => Sighted([pid |-> pid, start |-> start])'
         /\ \A g \in DOMAIN Path : There(g) => There(g)'
<1>1. CASE /\ Turns /\ directory' = directory
           /\ \A p \in DOMAIN procs : procs'[p] # None =>
                procs'[p].group \in DOMAIN Path /\ directory[Path[procs'[p].group]] = procs'[p].group
  <2>1. TableSound'
    BY <1>1, TurnsSound
  <2>2. Housed'
    BY <1>1 DEF Housed, Turns, Lives
  <2>3. seen \subseteq seen' /\ DOMAIN procs' = DOMAIN procs
    BY <1>1 DEF Turns
  <2>4. ASSUME NEW pid, NEW start, Sighted([pid |-> pid, start |-> start])
        PROVE  Sighted([pid |-> pid, start |-> start])'
    BY <1>1, <2>4, TurnsSighted
  <2>5. ASSUME NEW g \in DOMAIN Path, There(g) PROVE There(g)'
    BY <1>1, <2>3, <2>5 DEF There, Deserted
  <2> QED BY <2>1, <2>2, <2>3, <2>4, <2>5
<1>2. CASE \E path \in Paths, group \in DOMAIN Path \cup {None} :
             /\ group # None => Path[group] = path
             /\ ReplaceDirectory(path, group)
  <2>1. PICK path \in Paths, group \in DOMAIN Path \cup {None} :
          /\ group # None => Path[group] = path
          /\ ReplaceDirectory(path, group)
    BY <1>2
  <2>2. /\ changes' = changes + 1 /\ procs' = procs /\ seen' = seen
        /\ directory' = [directory EXCEPT ![path] = group]
        /\ \A p \in DOMAIN procs : Lives(p) => procs[p].group # directory[path]
    BY <2>1 DEF ReplaceDirectory
  <2>3. TableSound'
    BY <2>2 DEF TableSound, Lives
  <2>4. Housed'
    BY <2>1, <2>2 DEF Housed, Lives
  <2>5. ASSUME NEW pid, NEW start, Sighted([pid |-> pid, start |-> start])
        PROVE  Sighted([pid |-> pid, start |-> start])'
    BY <2>2, <2>5 DEF Sighted, Lives, TableSound
  <2>6. ASSUME NEW g \in DOMAIN Path, There(g) PROVE There(g)'
    <3>1. CASE Deserted(g)
      BY <2>2, <3>1 DEF There, Deserted
    <3>2. CASE directory[Path[g]] = g /\ Path[g] # path
      BY <2>2, <3>2 DEF There, Housed, Paths
    <3>3. CASE directory[path] = g
      <4>1. \A p \in DOMAIN procs : procs[p] # None => procs[p].group # g
        BY <2>2, <3>3 DEF Lives
      <4>2. procs \in seen'
        BY <2>2 DEF TableSound
      <4> QED BY <4>1, <4>2 DEF There, Deserted
    <3> QED BY <2>6, <3>1, <3>2, <3>3 DEF There
  <2> QED BY <2>2, <2>3, <2>4, <2>5, <2>6
<1> QED BY <1>1, <1>2 DEF MemoryTurns

\* What was seen of a process stays seen.
LEMMA SeenStays ==
  ASSUME seen \subseteq seen'
  PROVE  /\ \A pid, start, g : WasIn(pid, start, g) => WasIn(pid, start, g)'
         /\ \A g : Deserted(g) => Deserted(g)'
BY DEF WasIn, Deserted

Lookups == {"stat", "group", "directory", "again", "metadata", "last", "resolved"}

\* What the sampler is at, in each of its phases.
WorkSound ==
  /\ memory = [phase |-> memory.phase, todo |-> memory.todo, at |-> memory.at, step |-> memory.step,
               tries |-> memory.tries, key |-> memory.key, path |-> memory.path, group |-> memory.group]
  /\ memory.phase \in {"idle", "register", "resolve", "validate"}
  /\ memory.phase = "idle" => memory = Resting
  /\ memory.phase = "register" =>
       /\ memory.at \in Instances
       /\ \/ memory.step \in {"start", "failed"} /\ memory.key = None
          \/ memory.step \in Lookups \cup {"failed"} /\ memory.key.pid = PidOf[memory.at] /\ Sighted(memory.key)
  /\ memory.phase = "resolve" =>
       /\ memory.todo \subseteq DOMAIN instances
       /\ \/ memory.at = None /\ memory.step = "none"
          \/ /\ memory.at \in DOMAIN instances
             /\ \/ memory.step \in {"start", "failed"}
                \/ /\ memory.step \in Lookups /\ instances[memory.at].start # 0
                   /\ memory.key = [pid |-> PidOf[memory.at], start |-> instances[memory.at].start]
  /\ memory.phase = "validate" =>
       /\ memory.todo \subseteq DOMAIN scopes
       /\ \/ memory.at = None /\ memory.step = "none"
          \/ /\ memory.at \in DOMAIN scopes /\ memory.step \in Lookups \cup {"next", "read", "failed"}
             /\ memory.tries \subseteq DOMAIN resolved

\* The process was in a group of the scope's path: in the scope, or in one that
\* was left by all.
OwnGroup(pid, start, scope) ==
  \E g \in DOMAIN Path :
    Path[g] = Path[scope] /\ WasIn(pid, start, g) /\ (g = scope \/ Deserted(g))

InstancesSound ==
  /\ DOMAIN instances \subseteq Instances
  /\ \A i \in Instances : PidOf[i] \in DOMAIN procs
  /\ \A i \in DOMAIN instances :
       /\ instances[i] = [start |-> instances[i].start, scope |-> instances[i].scope]
       /\ instances[i].start # 0 => Sighted([pid |-> PidOf[i], start |-> instances[i].start])
       /\ instances[i].scope # None => instances[i].scope \in DOMAIN scopes

\* The values read in this sample are the scope's, if it was not left by all.
HistoriesSound(all) ==
  \A g \in DOMAIN all :
    /\ g \in DOMAIN Path
    /\ all[g] = [path |-> Path[g], values |-> all[g].values, at |-> all[g].at]
    /\ all[g].at \in 0 .. now
    /\ all[g].at = now /\ all[g].values # None => all[g].values = g \/ Deserted(g)

ScopesSound ==
  /\ now \in Nat /\ HistoriesSound(scopes)
  /\ memory.phase # "resolve" => DOMAIN scopes \subseteq {instances[i].scope : i \in DOMAIN instances}

ResolvedSound ==
  memory.phase \in {"resolve", "validate"} =>
    \A i \in DOMAIN resolved :
      /\ i \in DOMAIN instances /\ resolved[i] \in DOMAIN scopes
      /\ instances[i].scope = resolved[i] /\ instances[i].start # 0
      /\ OwnGroup(PidOf[i], instances[i].start, resolved[i])

\* The path that was read is that of a group in which a process of this ID was,
\* which has the key or is younger.
LeadsTo(g, s) ==
  /\ Path[g] = memory.path
  /\ Sighted([pid |-> memory.key.pid, start |-> s]) /\ memory.key.start <= s
  /\ WasIn(memory.key.pid, s, g)

LookedUp ==
  /\ memory.step \in Lookups => Sighted(memory.key)
  /\ memory.step \in {"directory", "again", "metadata"} =>
       \E g \in DOMAIN Path, s \in Nat : LeadsTo(g, s) /\ There(g)
  /\ memory.step \in {"last", "resolved"} =>
       /\ memory.group \in DOMAIN Path /\ Path[memory.group] = memory.path /\ There(memory.group)
       /\ \E g \in DOMAIN Path, s \in Nat :
            LeadsTo(g, s) /\ (g = memory.group \/ Deserted(g))
  /\ memory.step = "resolved" => OwnGroup(memory.key.pid, memory.key.start, memory.group)
  /\ memory.step = "read" => There(memory.at)

ViewsSound ==
  \A i \in DOMAIN views :
    views[i].availability = "fresh" =>
      /\ OwnGroup(PidOf[i], views[i].start, views[i].scope)
      /\ views[i].values = views[i].scope \/ Deserted(views[i].scope)

MemoryInv ==
  /\ TableSound /\ Housed /\ WorkSound /\ InstancesSound /\ ScopesSound /\ ResolvedSound
  /\ LookedUp /\ ViewsSound

\* Where nothing changes in the world, what is said of it stands.
LEMMA WorldStands ==
  ASSUME UNCHANGED <<procs, changes, seen, directory>>
  PROVE  /\ TableSound' <=> TableSound
         /\ Housed' <=> Housed
         /\ \A pid, start : Sighted([pid |-> pid, start |-> start])'
                              <=> Sighted([pid |-> pid, start |-> start])
         /\ \A pid, start, g : WasIn(pid, start, g)' <=> WasIn(pid, start, g)
         /\ \A pid, start, scope : OwnGroup(pid, start, scope)' <=> OwnGroup(pid, start, scope)
         /\ \A g : (Deserted(g)' <=> Deserted(g)) /\ (There(g)' <=> There(g))
<1>1. \A pid, start, g : WasIn(pid, start, g)' <=> WasIn(pid, start, g)
  BY DEF WasIn
<1>2. \A g : Deserted(g)' <=> Deserted(g)
  BY DEF Deserted
<1>3. \A g : There(g)' <=> There(g)
  BY <1>2 DEF There
<1>4. \A pid, start, scope : OwnGroup(pid, start, scope)' <=> OwnGroup(pid, start, scope)
  BY <1>1, <1>2 DEF OwnGroup
<1>5. \A pid, start : Sighted([pid |-> pid, start |-> start])'
                        <=> Sighted([pid |-> pid, start |-> start])
  BY DEF Sighted, Lives
<1>6. (TableSound' <=> TableSound) /\ (Housed' <=> Housed)
  BY DEF TableSound, Housed, Lives
<1> QED BY <1>1, <1>2, <1>3, <1>4, <1>5, <1>6

\* The read of the process's group leads to a group that has its directory.
LEMMA GroupLeads ==
  ASSUME MemoryInv, Read("group", Lives(memory.key.pid),
           [memory EXCEPT !.step = "directory", !.path = Path[procs[memory.key.pid].group]]),
         UNCHANGED <<procs, changes, seen, directory>>, memory.step \in Lookups,
         memory'.step = "directory"
  PROVE  LookedUp'
<1>0. PICK pid, s, g :
        pid = memory.key.pid /\ s = procs[pid].start /\ g = procs[pid].group
  OBVIOUS
<1>1. Sighted(memory.key)
  BY DEF MemoryInv, LookedUp
<1>2. /\ Lives(pid) /\ pid \in DOMAIN procs
      /\ memory' = [memory EXCEPT !.step = "directory", !.path = Path[g]]
  BY <1>0, <1>1 DEF Read, Sighted, MemoryInv, WorkSound
<1>3. /\ s \in 0 .. 3 + changes /\ changes \in Nat /\ procs \in seen
      /\ memory.key.start <= s
  BY <1>0, <1>1, <1>2 DEF MemoryInv, TableSound, Sighted
<1>4. Sighted([pid |-> pid, start |-> s]) /\ s \in Nat
  BY <1>0, <1>2, <1>3 DEF Sighted
<1>5. g \in DOMAIN Path /\ There(g)
  BY <1>0, <1>2 DEF MemoryInv, Housed, There
<1>6. WasIn(pid, s, g)
  BY <1>0, <1>2, <1>3 DEF WasIn, Lives
<1>7. memory'.path = Path[g] /\ memory'.key = memory.key /\ memory'.step = "directory"
  BY <1>2 DEF MemoryInv, WorkSound
<1>8. LeadsTo(g, s)' /\ There(g)' /\ Sighted(memory.key)'
  <2>1. memory'.key.pid = pid /\ memory'.key.start = memory.key.start
    BY <1>0, <1>7
  <2>2. Sighted([pid |-> pid, start |-> s])' /\ WasIn(pid, s, g)' /\ There(g)'
    BY <1>4, <1>5, <1>6, WorldStands
  <2>3. Sighted(memory.key)'
    BY <1>1, <1>7 DEF Sighted, Lives
  <2> QED BY <1>3, <1>7, <2>1, <2>2, <2>3 DEF LeadsTo
<1> QED BY <1>4, <1>5, <1>7, <1>8 DEF LookedUp, Lookups

\* A read that ends in a failure leaves nothing to be said.
LEMMA FailureLooked ==
  ASSUME memory'.step = "failed" PROVE LookedUp'
BY DEF LookedUp, Lookups

\* The process that still has its key when the path has been read is the one the
\* path was read of.
LEMMA StillOwn ==
  ASSUME Matches(memory.key), NEW g, NEW s \in Nat, LeadsTo(g, s), memory.key.start \in Nat,
         TableSound
  PROVE  s = memory.key.start /\ WasIn(memory.key.pid, memory.key.start, g)
<1>1. s <= procs[memory.key.pid].start /\ procs[memory.key.pid].start = memory.key.start
  BY DEF LeadsTo, Sighted, Matches
<1>2. memory.key.start <= s /\ WasIn(memory.key.pid, s, g)
  BY DEF LeadsTo
<1>3. s = memory.key.start
  BY <1>1, <1>2
<1> QED BY <1>2, <1>3

\* Each read of a lookup leaves what it may say.
LEMMA LookupLooks ==
  ASSUME MemoryInv, ResolveScope, UNCHANGED tableVars
  PROVE  LookedUp'
<1>0. /\ UNCHANGED <<procs, changes, seen, directory>>
      /\ memory = [phase |-> memory.phase, todo |-> memory.todo, at |-> memory.at, step |-> memory.step,
                   tries |-> memory.tries, key |-> memory.key, path |-> memory.path, group |-> memory.group]
      /\ LookedUp /\ TableSound /\ Housed
  BY DEF ResolveScope, tableVars, MemoryInv, WorkSound
<1>1. /\ memory.step \in Lookups \ {"resolved"}
      /\ memory'.key = memory.key
  BY <1>0 DEF ResolveScope, Read, Lookups
<1>2. Sighted(memory.key) /\ memory.key = [pid |-> memory.key.pid, start |-> memory.key.start]
  BY <1>0, <1>1 DEF LookedUp, Lookups, Sighted
<1>3. Sighted(memory.key)' /\ memory.key.start \in Nat
  BY <1>0, <1>1, <1>2 DEF Sighted, Lives, TableSound
<1>4. ASSUME memory'.path = memory.path, NEW g, NEW s, LeadsTo(g, s)
      PROVE  LeadsTo(g, s)'
  <2>1. Sighted([pid |-> memory.key.pid, start |-> s])' /\ WasIn(memory.key.pid, s, g)'
    BY <1>0, <1>1, <1>4, WorldStands DEF LeadsTo
  <2> QED BY <1>1, <1>4, <2>1 DEF LeadsTo
<1>5. CASE memory'.step = "failed"
  BY <1>5, FailureLooked
<1>6. CASE memory'.step = "group"
  BY <1>3, <1>6 DEF LookedUp, Lookups
<1>7. CASE Read("group", Lives(memory.key.pid),
                [memory EXCEPT !.step = "directory", !.path = Path[procs[memory.key.pid].group]])
           /\ memory'.step = "directory"
  BY <1>0, <1>1, <1>7, GroupLeads
<1>8. CASE memory.step \in {"directory", "again"} /\ memory'.step \in {"again", "metadata"}
           /\ memory'.path = memory.path
  <2>1. PICK g \in DOMAIN Path, s \in Nat : LeadsTo(g, s) /\ There(g)
    BY <1>0, <1>8 DEF LookedUp
  <2>2. LeadsTo(g, s)' /\ There(g)'
    BY <1>0, <1>4, <1>8, <2>1, WorldStands
  <2> QED BY <1>3, <1>8, <2>2 DEF LookedUp, Lookups
<1>9. CASE /\ memory.step = "metadata" /\ memory'.step = "last" /\ memory'.path = memory.path
           /\ memory'.group = directory[memory.path] /\ directory[memory.path] # None
  <2>1. PICK g \in DOMAIN Path, s \in Nat : LeadsTo(g, s) /\ There(g)
    BY <1>0, <1>9 DEF LookedUp
  <2>2. Path[g] = memory.path
    BY <2>1 DEF LeadsTo
  <2>3. memory'.group \in DOMAIN Path /\ Path[memory'.group] = memory.path
    BY <1>0, <1>9, <2>2 DEF Housed, Paths
  <2>4. LeadsTo(g, s)' /\ (g = memory'.group \/ Deserted(g)')
    BY <1>0, <1>4, <1>9, <2>1, <2>2, WorldStands DEF There
  <2>5. There(memory.group)'
    BY <1>0, <1>9, <2>3 DEF There
  <2> QED BY <1>3, <1>9, <2>3, <2>4, <2>5 DEF LookedUp, Lookups
<1>10. CASE /\ memory.step = "last" /\ memory'.step = "resolved" /\ memory'.path = memory.path
            /\ memory'.group = memory.group /\ Matches(memory.key)
  <2>1. PICK g \in DOMAIN Path, s \in Nat : LeadsTo(g, s) /\ (g = memory.group \/ Deserted(g))
    BY <1>0, <1>10 DEF LookedUp
  <2>2. memory.group \in DOMAIN Path /\ Path[memory.group] = memory.path /\ There(memory.group)
    BY <1>0, <1>10 DEF LookedUp
  <2>3. OwnGroup(memory.key.pid, memory.key.start, memory.group)
    <3>1. WasIn(memory.key.pid, memory.key.start, g)
      BY <1>0, <1>3, <1>10, <2>1, StillOwn
    <3>2. Path[g] = Path[memory.group]
      BY <2>1, <2>2 DEF LeadsTo
    <3> QED BY <2>1, <3>1, <3>2 DEF OwnGroup
  <2>4. /\ OwnGroup(memory.key.pid, memory.key.start, memory.group)' /\ There(memory.group)'
        /\ LeadsTo(g, s)' /\ (g = memory.group \/ Deserted(g)')
    BY <1>0, <1>1, <1>4, <1>10, <2>1, <2>2, <2>3, WorldStands
  <2> QED BY <1>1, <1>3, <1>10, <2>2, <2>4 DEF LookedUp, Lookups
<1> QED BY <1>0, <1>5, <1>6, <1>7, <1>8, <1>9, <1>10 DEF ResolveScope, Read, StillThere

Known(i) == [pid |-> PidOf[i], start |-> instances[i].start]

\* What a step of the sampler leaves alone stays sound.
LEMMA RestStands ==
  ASSUME MemoryInv, UNCHANGED <<procs, changes, seen, directory>>
  PROVE  /\ TableSound' /\ Housed'
         /\ UNCHANGED <<instances, scopes>> => InstancesSound'
         /\ UNCHANGED <<instances, scopes, now>> /\ (memory'.phase # "resolve" => memory.phase # "resolve")
              => ScopesSound'
         /\ (/\ UNCHANGED <<instances, scopes, resolved>>
             /\ memory'.phase \in {"resolve", "validate"} => memory.phase \in {"resolve", "validate"})
              => ResolvedSound'
         /\ UNCHANGED views => ViewsSound'
         /\ memory'.step \in {"none", "start", "next", "failed"} => LookedUp'
<1>1. TableSound' /\ Housed'
  BY WorldStands DEF MemoryInv
<1>2. ASSUME UNCHANGED <<instances, scopes>> PROVE InstancesSound'
  BY <1>2, WorldStands DEF MemoryInv, InstancesSound
<1>3. ASSUME UNCHANGED <<instances, scopes, now>>, memory'.phase # "resolve" => memory.phase # "resolve"
      PROVE  ScopesSound'
  BY <1>3, WorldStands DEF MemoryInv, ScopesSound, HistoriesSound
<1>4. ASSUME UNCHANGED <<instances, scopes, resolved>>,
             memory'.phase \in {"resolve", "validate"} => memory.phase \in {"resolve", "validate"}
      PROVE  ResolvedSound'
  BY <1>4, WorldStands DEF MemoryInv, ResolvedSound
<1>5. ASSUME UNCHANGED views PROVE ViewsSound'
  BY <1>5, WorldStands DEF MemoryInv, ViewsSound
<1>6. ASSUME memory'.step \in {"none", "start", "next", "failed"} PROVE LookedUp'
  BY <1>6 DEF LookedUp, Lookups
<1> QED BY <1>1, <1>2, <1>3, <1>4, <1>5, <1>6

\* A lookup leaves all else alone.
LEMMA LookupKeeps ==
  ASSUME MemoryInv, ResolveScope, UNCHANGED tableVars
  PROVE  MemoryInv'
<1>0. /\ UNCHANGED <<procs, changes, seen, directory>>
      /\ memory = [phase |-> memory.phase, todo |-> memory.todo, at |-> memory.at, step |-> memory.step,
                   tries |-> memory.tries, key |-> memory.key, path |-> memory.path, group |-> memory.group]
      /\ WorkSound
      /\ UNCHANGED <<instances, scopes, resolved, views, now>>
  BY DEF ResolveScope, tableVars, MemoryInv, WorkSound
<1>1. /\ memory.step \in Lookups /\ memory'.step \in Lookups \cup {"failed"}
      /\ memory'.phase = memory.phase /\ memory'.todo = memory.todo /\ memory'.at = memory.at
      /\ memory'.tries = memory.tries /\ memory'.key = memory.key
      /\ memory' = [phase |-> memory'.phase, todo |-> memory'.todo, at |-> memory'.at, step |-> memory'.step,
                    tries |-> memory'.tries, key |-> memory'.key, path |-> memory'.path, group |-> memory'.group]
  BY <1>0 DEF ResolveScope, Read, Lookups
<1>2. LookedUp'
  BY LookupLooks
<1>3. WorkSound'
  <2>1. memory.phase # "idle"
    BY <1>0, <1>1 DEF WorkSound, Resting, Doing, Lookups
  <2>2. memory.phase = "register" => Sighted(memory.key) /\ memory.key.pid = PidOf[memory.at]
    BY <1>0, <1>1 DEF WorkSound, Lookups, MemoryInv, LookedUp
  <2>3. memory.phase = "register" => Sighted(memory.key)'
    BY <1>0, <1>1, <2>2 DEF Sighted, Lives
  <2> QED BY <1>0, <1>1, <2>1, <2>2, <2>3 DEF WorkSound, Lookups
<1> QED BY <1>0, <1>1, <1>2, <1>3, RestStands DEF MemoryInv

\* A step that only sets out to something leaves it all sound.
LEMMA SetOut ==
  ASSUME MemoryInv, UNCHANGED <<tableVars, directory, instances, scopes, resolved, views, now>>,
         memory'.step \in {"none", "start", "next", "failed"},
         memory'.phase = memory.phase, WorkSound'
  PROVE  MemoryInv'
BY RestStands DEF MemoryInv, tableVars

\* The next instance, or scope, is taken up.
LEMMA SmallStepsKeep ==
  ASSUME MemoryInv, UNCHANGED tableVars,
         \/ \E i \in DOMAIN instances : TakeInstance(i)
         \/ \E g \in memory.todo : TakeScope(g)
  PROVE  MemoryInv'
<1>0. WorkSound /\ UNCHANGED <<procs, changes, seen, directory>>
  BY DEF MemoryInv, tableVars, TakeInstance, TakeScope
<1>1. CASE \E i \in DOMAIN instances : TakeInstance(i)
  <2>1. PICK i \in DOMAIN instances : TakeInstance(i)
    BY <1>1
  <2>2. WorkSound'
    BY <1>0, <2>1 DEF TakeInstance, WorkSound
  <2>3. memory'.step = "start" /\ memory'.phase = memory.phase
    BY <1>0, <2>1 DEF TakeInstance, WorkSound
  <2> QED BY <2>1, <2>2, <2>3, SetOut DEF TakeInstance
<1>2. CASE \E g \in memory.todo : TakeScope(g)
  <2>1. PICK g \in memory.todo : TakeScope(g)
    BY <1>2
  <2>2. WorkSound'
    BY <1>0, <2>1 DEF TakeScope, WorkSound
  <2>3. memory'.step = "next" /\ memory'.phase = memory.phase
    BY <1>0, <2>1 DEF TakeScope, WorkSound
  <2> QED BY <2>1, <2>2, <2>3, SetOut DEF TakeScope
<1> QED BY <1>1, <1>2

\* The start that is learned is that of the process which is there.
LEMMA LearnStartKeeps ==
  ASSUME MemoryInv, UNCHANGED tableVars, LearnStart
  PROVE  MemoryInv'
<1>0. /\ UNCHANGED <<procs, changes, seen, directory, scopes, resolved, views, now>>
      /\ WorkSound /\ InstancesSound /\ TableSound /\ ScopesSound /\ ResolvedSound
      /\ memory.step = "start" /\ memory.phase \in {"register", "resolve"}
  BY DEF LearnStart, tableVars, MemoryInv, WorkSound, Lookups, Resting, Doing
<1>1. PICK i, start :
        /\ i = memory.at
        /\ start = (IF memory.phase = "resolve" /\ instances[i].start # 0 THEN instances[i].start
                    ELSE IF Lives(PidOf[i]) THEN procs[PidOf[i]].start ELSE 0)
  OBVIOUS
<1>2. /\ memory' = IF start = 0 THEN [memory EXCEPT !.step = "failed"]
                   ELSE [memory EXCEPT !.step = "stat", !.key = [pid |-> PidOf[i], start |-> start]]
      /\ instances' = IF memory.phase = "resolve"
                      THEN [instances EXCEPT ![i].start = start] ELSE instances
  BY <1>1 DEF LearnStart
<1>3. i \in Instances /\ PidOf[i] \in DOMAIN procs /\ (memory.phase = "resolve" => i \in DOMAIN instances)
  BY <1>0, <1>1, MemoryAssumption DEF WorkSound, InstancesSound
<1>4. start # 0 => Sighted([pid |-> PidOf[i], start |-> start])
  <2>1. CASE memory.phase = "resolve" /\ instances[i].start # 0
    BY <1>0, <1>1, <1>3, <2>1 DEF InstancesSound
  <2>2. CASE ~(memory.phase = "resolve" /\ instances[i].start # 0) /\ Lives(PidOf[i])
    <3>1. procs[PidOf[i]].start \in 0 .. 3 + changes /\ changes \in Nat
      BY <1>0, <1>3, <2>2 DEF TableSound
    <3> QED BY <1>1, <1>3, <2>2, <3>1 DEF Sighted
  <2> QED BY <1>1, <2>1, <2>2
<1>5. start # 0 => Sighted([pid |-> PidOf[i], start |-> start])'
  BY <1>0, <1>4, WorldStands
<1>6. /\ DOMAIN instances' = DOMAIN instances
      /\ \A j \in DOMAIN instances : instances'[j].scope = instances[j].scope
      /\ \A j \in DOMAIN instances :
           \/ instances'[j] = instances[j]
           \/ j = i /\ instances'[j].start = start /\ instances[j].start = 0
      /\ \A j \in DOMAIN instances :
           instances'[j] = [start |-> instances'[j].start, scope |-> instances'[j].scope]
      /\ memory.phase = "resolve" => instances'[i].start = start
  <2>1. CASE memory.phase = "resolve"
    <3>1. instances[i] = [start |-> instances[i].start, scope |-> instances[i].scope]
      BY <1>0, <1>3, <2>1 DEF InstancesSound
    <3>2. instances' = [instances EXCEPT ![i].start = start]
      BY <1>2, <2>1
    <3>3. instances'[i] = [start |-> start, scope |-> instances[i].scope]
      BY <1>3, <2>1, <3>1, <3>2
    <3>4. \A j \in DOMAIN instances : j # i => instances'[j] = instances[j]
      BY <3>2
    <3>5. DOMAIN instances' = DOMAIN instances
      BY <3>2
    <3>6. start = instances[i].start \/ instances[i].start = 0
      BY <1>1, <2>1
    <3>7. \A j \in DOMAIN instances :
            instances[j] = [start |-> instances[j].start, scope |-> instances[j].scope]
      BY <1>0 DEF InstancesSound
    <3>8. instances'[i] = instances[i] \/ instances[i].start = 0
      BY <3>1, <3>3, <3>6
    <3>9. instances'[i].start = start /\ instances'[i].scope = instances[i].scope
      BY <3>3
    <3>10. \A j \in DOMAIN instances :
             instances'[j] = [start |-> instances'[j].start, scope |-> instances'[j].scope]
      BY <3>3, <3>4, <3>7, <3>9
    <3> QED BY <3>4, <3>5, <3>8, <3>9, <3>10
  <2>2. CASE memory.phase # "resolve"
    BY <1>0, <1>2, <2>2 DEF InstancesSound
  <2> QED BY <2>1, <2>2
<1>7. InstancesSound'
  <2>1. ASSUME NEW j \in DOMAIN instances
        PROVE  /\ instances'[j].start # 0 => Sighted([pid |-> PidOf[j], start |-> instances[j].start])'
               /\ instances'[j].scope # None => instances'[j].scope \in DOMAIN scopes
    <3>1. CASE instances'[j] = instances[j]
      BY <1>0, <3>1, WorldStands DEF InstancesSound
    <3>2. CASE j = i /\ instances'[j].start = start
      BY <1>0, <1>5, <1>6, <3>2 DEF InstancesSound
    <3> QED BY <1>6, <3>1, <3>2
  <2> QED BY <1>0, <1>6, <2>1 DEF InstancesSound
<1>8. /\ memory'.phase = memory.phase /\ memory'.todo = memory.todo /\ memory'.at = i
      /\ memory'.tries = memory.tries
      /\ IF start = 0 THEN memory'.step = "failed" /\ memory'.key = memory.key
         ELSE memory'.step = "stat" /\ memory'.key = [pid |-> PidOf[i], start |-> start]
      /\ memory' = [phase |-> memory'.phase, todo |-> memory'.todo, at |-> memory'.at, step |-> memory'.step,
                    tries |-> memory'.tries, key |-> memory'.key, path |-> memory'.path, group |-> memory'.group]
  BY <1>0, <1>1, <1>2 DEF WorkSound
<1>9. LookedUp'
  BY <1>5, <1>8 DEF LookedUp, Lookups
<1>10. ScopesSound'
  <2>1. {instances'[j].scope : j \in DOMAIN instances'} = {instances[j].scope : j \in DOMAIN instances}
    BY <1>6
  <2> QED BY <1>0, <1>8, <2>1, WorldStands DEF ScopesSound, HistoriesSound
<1>11. ResolvedSound'
  <2>1. ASSUME memory.phase = "resolve", NEW j \in DOMAIN resolved PROVE instances'[j] = instances[j]
    BY <1>0, <1>1, <1>6, <2>1 DEF ResolvedSound
  <2> QED BY <1>0, <1>6, <1>8, <2>1, WorldStands DEF ResolvedSound
<1>12. WorkSound'
  <2>1. memory'.phase = "register" => start = 0 \/ Sighted(memory.key)'
    BY <1>5, <1>8
  <2> QED BY <1>0, <1>1, <1>3, <1>6, <1>8, <2>1 DEF WorkSound, Lookups
<1> QED BY <1>0, <1>7, <1>9, <1>10, <1>11, <1>12, RestStands DEF MemoryInv

\* A scope that is entered has its history, or none.
LEMMA EnteredSound ==
  ASSUME ScopesSound, memory.group \in DOMAIN Path, Path[memory.group] = memory.path
  PROVE  /\ HistoriesSound(Entered(memory.path))
         /\ DOMAIN Entered(memory.path) = DOMAIN scopes \cup {memory.group}
<1>1. PICK all : all = Entered(memory.path)
  OBVIOUS
<1>2. /\ DOMAIN all = DOMAIN scopes \cup {memory.group}
      /\ \A g \in DOMAIN scopes : g # memory.group => all[g] = scopes[g]
      /\ all[memory.group] =
           [path |-> memory.path,
            values |-> IF memory.group \in DOMAIN scopes THEN scopes[memory.group].values ELSE None,
            at |-> IF memory.group \in DOMAIN scopes THEN scopes[memory.group].at ELSE 0]
  BY <1>1 DEF Entered, With
<1>3. ASSUME NEW g \in DOMAIN scopes, g # memory.group
      PROVE  /\ g \in DOMAIN Path
             /\ all[g] = [path |-> Path[g], values |-> all[g].values, at |-> all[g].at]
             /\ all[g].at \in 0 .. now
             /\ all[g].at = now /\ all[g].values # None => all[g].values = g \/ Deserted(g)
  BY <1>2, <1>3 DEF ScopesSound, HistoriesSound
<1>4. /\ all[memory.group] = [path |-> Path[memory.group], values |-> all[memory.group].values,
                              at |-> all[memory.group].at]
      /\ all[memory.group].at \in 0 .. now
      /\ all[memory.group].at = now /\ all[memory.group].values # None
           => all[memory.group].values = memory.group \/ Deserted(memory.group)
  <2>1. CASE memory.group \in DOMAIN scopes
    BY <1>2, <2>1 DEF ScopesSound, HistoriesSound
  <2>2. CASE memory.group \notin DOMAIN scopes
    BY <1>2, <2>2 DEF ScopesSound
  <2> QED BY <2>1, <2>2
<1>5. HistoriesSound(all)
  BY <1>2, <1>3, <1>4 DEF HistoriesSound
<1> QED BY <1>1, <1>2, <1>5

\* Sound histories stay so while the world stands and no sample begins.
LEMMA HistoriesStand ==
  ASSUME UNCHANGED <<procs, changes, seen, directory, now>>, NEW all, HistoriesSound(all),
         scopes' = all
  PROVE  HistoriesSound(scopes)'
BY WorldStands DEF HistoriesSound

\* What begins at rest.
LEMMA RegisterKeeps ==
  ASSUME MemoryInv, UNCHANGED tableVars, NEW i \in Instances, Register(i)
  PROVE  MemoryInv'
<1>0. /\ UNCHANGED <<procs, changes, seen, directory, instances, scopes, resolved, views, now>>
      /\ memory = Resting
  BY DEF Register, tableVars
<1>1. memory' = [phase |-> "register", todo |-> {}, at |-> i, step |-> "start", tries |-> {},
                 key |-> None, path |-> None, group |-> None]
  BY DEF Register, Doing
<1>2. WorkSound'
  BY <1>1 DEF WorkSound, Lookups
<1>3. memory'.phase = "register" /\ memory.phase = "idle" /\ memory'.step = "start"
  BY <1>0, <1>1 DEF Resting, Doing
<1> QED BY <1>0, <1>2, <1>3, RestStands DEF MemoryInv

\* At rest nothing is being said.
LEMMA RestingSound ==
  ASSUME memory' = Resting
  PROVE  /\ WorkSound' /\ LookedUp' /\ ResolvedSound'
         /\ memory'.phase = "idle" /\ memory'.step = "none"
<1>1. memory' = [phase |-> "idle", todo |-> {}, at |-> None, step |-> "none", tries |-> {},
                 key |-> None, path |-> None, group |-> None]
  BY DEF Resting, Doing
<1>2. WorkSound'
  BY <1>1 DEF WorkSound, Resting, Doing
<1> QED BY <1>1, <1>2 DEF LookedUp, Lookups, ResolvedSound

\* Registered or removed, an instance has its scope, and scopes have theirs.
LEMMA InstancesChange ==
  ASSUME MemoryInv, UNCHANGED <<procs, changes, seen, directory, views, now>>, memory' = Resting,
         NEW all, HistoriesSound(all), scopes' = Purged(all, instances'),
         DOMAIN instances' \subseteq Instances,
         \A j \in DOMAIN instances' :
           /\ instances'[j] = [start |-> instances'[j].start, scope |-> instances'[j].scope]
           /\ instances'[j].scope # None => instances'[j].scope \in DOMAIN all
           /\ \/ instances'[j].start = 0
              \/ \E start : instances'[j].start = start /\ Sighted([pid |-> PidOf[j], start |-> start])
  PROVE  MemoryInv'
<1>1. /\ HistoriesSound(scopes)'
      /\ DOMAIN scopes' = DOMAIN all \cap {instances'[i].scope : i \in DOMAIN instances'}
  <2>1. /\ DOMAIN scopes' = DOMAIN all \cap {instances'[i].scope : i \in DOMAIN instances'}
        /\ \A g \in DOMAIN scopes' : scopes'[g] = all[g]
    BY DEF Purged, Without
  <2>2. PICK kept : kept = scopes'
    OBVIOUS
  <2>3. HistoriesSound(kept)
    BY <2>1, <2>2 DEF HistoriesSound
  <2> QED BY <2>1, <2>2, <2>3, HistoriesStand
<1>2. InstancesSound'
  <2>1. \A i \in Instances : PidOf[i] \in DOMAIN procs'
    BY DEF MemoryInv, InstancesSound
  <2>2. ASSUME NEW j \in DOMAIN instances', instances'[j].start # 0
        PROVE  Sighted([pid |-> PidOf[j], start |-> instances[j].start])'
    <3>1. PICK start : instances'[j].start = start /\ Sighted([pid |-> PidOf[j], start |-> start])
      BY <2>2
    <3> QED BY <3>1, WorldStands
  <2> QED BY <1>1, <2>1, <2>2 DEF InstancesSound
<1>3. ScopesSound'
  BY <1>1 DEF ScopesSound, MemoryInv
<1> QED BY <1>2, <1>3, RestStands, RestingSound DEF MemoryInv

\* An instance leaves, and with it the scope that none else is in.
LEMMA RemoveKeeps ==
  ASSUME MemoryInv, UNCHANGED tableVars, NEW i \in Instances, RemoveInstance(i)
  PROVE  MemoryInv'
<1>1. /\ UNCHANGED <<procs, changes, seen, directory, views, now>> /\ memory' = Resting
      /\ HistoriesSound(scopes) /\ scopes' = Purged(scopes, instances')
  BY DEF RemoveInstance, tableVars, MemoryInv, ScopesSound
<1>2. /\ DOMAIN instances' = DOMAIN instances \ {i}
      /\ \A j \in DOMAIN instances' : instances'[j] = instances[j]
  BY DEF RemoveInstance, Without
<1>3. InstancesSound
  BY DEF MemoryInv
<1>4. ASSUME NEW j \in DOMAIN instances'
      PROVE  /\ instances'[j] = [start |-> instances'[j].start, scope |-> instances'[j].scope]
             /\ instances'[j].scope # None => instances'[j].scope \in DOMAIN scopes
             /\ \/ instances'[j].start = 0
                \/ \E start : instances'[j].start = start /\ Sighted([pid |-> PidOf[j], start |-> start])
  BY <1>2, <1>3 DEF InstancesSound
<1>5. DOMAIN instances' \subseteq Instances
  BY <1>2, <1>3 DEF InstancesSound
<1> QED BY <1>1, <1>4, <1>5, InstancesChange

\* An instance is registered with the scope that was resolved, or without one.
LEMMA RegisteredKeeps ==
  ASSUME MemoryInv, UNCHANGED tableVars, Registered
  PROVE  MemoryInv'
<1>0. PICK all : all = (IF memory.step = "resolved" /\ memory.group \notin DOMAIN scopes
                        THEN Entered(memory.path) ELSE scopes)
  OBVIOUS
<1>1. /\ UNCHANGED <<procs, changes, seen, directory, views, now>> /\ memory' = Resting
      /\ scopes' = Purged(all, instances')
      /\ memory.phase = "register" /\ memory.step \in {"resolved", "failed"}
      /\ ScopesSound /\ InstancesSound /\ WorkSound /\ LookedUp
  BY <1>0 DEF Registered, tableVars, MemoryInv
<1>2. memory.step = "resolved" => memory.group \in DOMAIN Path /\ Path[memory.group] = memory.path
  BY <1>1 DEF LookedUp
<1>3. /\ HistoriesSound(all) /\ DOMAIN scopes \subseteq DOMAIN all
      /\ memory.step = "resolved" => memory.group \in DOMAIN all
  BY <1>0, <1>1, <1>2, EnteredSound DEF ScopesSound
<1>4. PICK target :
        target = [start |-> IF memory.key = None THEN 0 ELSE memory.key.start,
                  scope |-> IF memory.step = "resolved" THEN memory.group ELSE None]
  OBVIOUS
<1>5. /\ DOMAIN instances' = DOMAIN instances \cup {memory.at}
      /\ instances'[memory.at] = target
      /\ \A j \in DOMAIN instances : j # memory.at => instances'[j] = instances[j]
  BY <1>4 DEF Registered, With
<1>6. /\ target = [start |-> target.start, scope |-> target.scope]
      /\ target.scope # None => target.scope \in DOMAIN all
      /\ \/ target.start = 0
         \/ \E start : target.start = start /\ Sighted([pid |-> PidOf[memory.at], start |-> start])
  <2>1. memory.key = None \/ (memory.key.pid = PidOf[memory.at] /\ Sighted(memory.key))
    BY <1>1 DEF WorkSound
  <2>2. Sighted(memory.key) => memory.key = [pid |-> memory.key.pid, start |-> memory.key.start]
    BY DEF Sighted
  <2>3. CASE memory.key = None
    BY <1>3, <1>4, <2>3
  <2>4. CASE memory.key # None
    <3>1. target.start = memory.key.start /\ Sighted([pid |-> PidOf[memory.at], start |-> memory.key.start])
      BY <1>4, <2>1, <2>2, <2>4
    <3> QED BY <1>3, <1>4, <3>1
  <2> QED BY <2>3, <2>4
<1>7. ASSUME NEW j \in DOMAIN instances'
      PROVE  /\ instances'[j] = [start |-> instances'[j].start, scope |-> instances'[j].scope]
             /\ instances'[j].scope # None => instances'[j].scope \in DOMAIN all
             /\ \/ instances'[j].start = 0
                \/ \E start : instances'[j].start = start /\ Sighted([pid |-> PidOf[j], start |-> start])
  <2>1. CASE j = memory.at
    BY <1>5, <1>6, <2>1
  <2>2. CASE j # memory.at
    BY <1>1, <1>3, <1>5, <2>2 DEF InstancesSound
  <2> QED BY <2>1, <2>2
<1>8. DOMAIN instances' \subseteq Instances
  BY <1>1, <1>5 DEF InstancesSound, WorkSound
<1> QED BY <1>1, <1>3, <1>7, <1>8, InstancesChange

\* A sample begins: nothing that is retained was read in it.
LEMMA BeginSampleKeeps ==
  ASSUME MemoryInv, UNCHANGED <<procs, changes>>, BeginSample
  PROVE  MemoryInv'
<1>0. /\ UNCHANGED <<procs, changes, directory, instances, scopes>>
      /\ now' = now + 1 /\ seen' = {procs}
      /\ memory' = [phase |-> "resolve", todo |-> DOMAIN instances, at |-> None, step |-> "none",
                    tries |-> {}, key |-> None, path |-> None, group |-> None]
      /\ DOMAIN resolved' = {} /\ DOMAIN views' = {}
  BY DEF BeginSample, Look, Doing, Nothing
<1>1. \A pid, start : Sighted([pid |-> pid, start |-> start])
                        => Sighted([pid |-> pid, start |-> start])'
  BY <1>0 DEF Sighted, Lives
<1>2. TableSound' /\ Housed'
  BY <1>0 DEF MemoryInv, TableSound, Housed, Lives
<1>3. WorkSound'
  BY <1>0 DEF WorkSound
<1>4. InstancesSound'
  BY <1>0, <1>1 DEF MemoryInv, InstancesSound
<1>5. ScopesSound'
  BY <1>0 DEF MemoryInv, ScopesSound, HistoriesSound
<1>6. ResolvedSound' /\ ViewsSound' /\ LookedUp'
  BY <1>0 DEF ResolvedSound, ViewsSound, LookedUp, Lookups
<1> QED BY <1>2, <1>3, <1>4, <1>5, <1>6 DEF MemoryInv

\* Nothing more is done with an instance, or a scope.
LEMMA DoneSound ==
  ASSUME WorkSound, memory' = Done, memory.phase \in {"resolve", "validate"},
         memory.phase = "resolve" => DOMAIN instances' = DOMAIN instances,
         memory.phase = "validate" => DOMAIN scopes' = DOMAIN scopes
  PROVE  /\ WorkSound' /\ LookedUp'
         /\ memory'.phase = memory.phase /\ memory'.step = "none"
<1>1. memory' = [phase |-> memory.phase, todo |-> memory.todo \ {memory.at}, at |-> None, step |-> "none",
                 tries |-> {}, key |-> None, path |-> None, group |-> None]
  BY DEF Done, Doing
<1> QED BY <1>1 DEF WorkSound, LookedUp, Lookups

\* A scope that was resolved is the instance's.
LEMMA EndInstanceKeeps ==
  ASSUME MemoryInv, UNCHANGED tableVars, EndInstance
  PROVE  MemoryInv'
<1>0. /\ UNCHANGED <<procs, changes, seen, directory, views, now>>
      /\ memory.phase = "resolve" /\ memory.step \in {"resolved", "failed"} /\ memory' = Done
      /\ WorkSound /\ InstancesSound /\ ScopesSound /\ ResolvedSound /\ LookedUp
  BY DEF EndInstance, tableVars, MemoryInv
<1>1. CASE memory.step = "failed"
  <2>1. UNCHANGED <<instances, scopes, resolved>>
    BY <1>1 DEF EndInstance
  <2> QED BY <1>0, <2>1, DoneSound, RestStands DEF MemoryInv
<1>2. CASE memory.step = "resolved"
  <2>1. PICK at, group : at = memory.at /\ group = memory.group
    OBVIOUS
  <2>2. /\ at \in DOMAIN instances /\ instances[at].start # 0
        /\ memory.key = [pid |-> PidOf[at], start |-> instances[at].start]
    BY <1>0, <1>2, <2>1, MemoryAssumption DEF WorkSound, Lookups
  <2>3. /\ group \in DOMAIN Path /\ Path[group] = memory.path
        /\ OwnGroup(PidOf[at], instances[at].start, group)
    BY <1>0, <1>2, <2>1, <2>2 DEF LookedUp
  <2>4. instances[at] = [start |-> instances[at].start, scope |-> instances[at].scope]
    BY <1>0, <2>2 DEF InstancesSound
  <2>5. instances' = [instances EXCEPT ![at].scope = group]
    BY <1>2, <2>1 DEF EndInstance
  <2>6. /\ DOMAIN instances' = DOMAIN instances
        /\ instances'[at] = [start |-> instances[at].start, scope |-> group]
        /\ \A j \in DOMAIN instances : j # at => instances'[j] = instances[j]
    BY <2>2, <2>4, <2>5
  <2>7. /\ DOMAIN resolved' = DOMAIN resolved \cup {at} /\ resolved'[at] = group
        /\ \A j \in DOMAIN resolved : j # at => resolved'[j] = resolved[j]
    BY <1>2, <2>1 DEF EndInstance, With
  <2>8. HistoriesSound(scopes)' /\ DOMAIN scopes' = DOMAIN scopes \cup {group}
    <3>1. PICK all : all = Entered(memory.path)
      OBVIOUS
    <3>2. HistoriesSound(all) /\ DOMAIN all = DOMAIN scopes \cup {group}
      BY <1>0, <2>1, <2>3, <3>1, EnteredSound
    <3>3. scopes' = all
      BY <1>2, <3>1 DEF EndInstance
    <3> QED BY <1>0, <3>2, <3>3, HistoriesStand
  <2>9. WorkSound' /\ LookedUp' /\ memory'.phase = "resolve"
    BY <1>0, <2>6, DoneSound
  <2>10. InstancesSound'
    <3>1. ASSUME NEW j \in DOMAIN instances'
          PROVE  /\ instances'[j] = [start |-> instances'[j].start, scope |-> instances'[j].scope]
                 /\ instances'[j].start # 0 => Sighted([pid |-> PidOf[j], start |-> instances[j].start])'
                 /\ instances'[j].scope # None => instances'[j].scope \in DOMAIN scopes'
      <4>1. instances[j].start # 0 => Sighted([pid |-> PidOf[j], start |-> instances[j].start])
        BY <1>0, <2>6 DEF InstancesSound
      <4>2. PICK s : s = instances[j].start
        OBVIOUS
      <4>3. instances'[j].start = s
        BY <2>6, <4>2
      <4>4. s # 0 => Sighted([pid |-> PidOf[j], start |-> s])'
        BY <1>0, <4>1, <4>2, WorldStands
      <4>5. CASE j = at
        BY <2>6, <2>8, <4>3, <4>4, <4>5
      <4>6. CASE j # at
        BY <1>0, <2>6, <2>8, <4>3, <4>4, <4>6 DEF InstancesSound
      <4> QED BY <4>5, <4>6
    <3> QED BY <1>0, <2>6, <3>1 DEF InstancesSound
  <2>11. ScopesSound'
    BY <1>0, <2>8, <2>9 DEF ScopesSound
  <2>12. ResolvedSound'
    <3>1. ASSUME NEW j \in DOMAIN resolved'
          PROVE  /\ j \in DOMAIN instances' /\ resolved'[j] \in DOMAIN scopes'
                 /\ instances'[j].scope = resolved'[j] /\ instances'[j].start # 0
                 /\ OwnGroup(PidOf[j], instances[j].start, resolved[j])'
      <4>1. CASE j = at
        <5>1. OwnGroup(PidOf[j], instances[j].start, group)'
          <6>1. PICK s : s = instances[at].start
            OBVIOUS
          <6>2. OwnGroup(PidOf[at], s, group)' /\ instances'[at].start = s
            BY <1>0, <2>3, <2>6, <6>1, WorldStands
          <6> QED BY <4>1, <6>2
        <5> QED BY <2>2, <2>6, <2>7, <2>8, <4>1, <5>1
      <4>2. CASE j # at
        <5>1. /\ j \in DOMAIN instances /\ resolved[j] \in DOMAIN scopes
              /\ instances[j].scope = resolved[j] /\ instances[j].start # 0
              /\ OwnGroup(PidOf[j], instances[j].start, resolved[j])
          BY <1>0, <2>7, <4>2 DEF ResolvedSound
        <5>2. PICK s, g : s = instances[j].start /\ g = resolved[j]
          OBVIOUS
        <5>3. OwnGroup(PidOf[j], s, g)' /\ instances'[j].start = s /\ resolved'[j] = g
          BY <1>0, <2>6, <2>7, <4>2, <5>1, <5>2, WorldStands
        <5> QED BY <2>6, <2>7, <2>8, <4>2, <5>1, <5>2, <5>3
      <4> QED BY <4>1, <4>2
    <3> QED BY <3>1 DEF ResolvedSound
  <2> QED BY <1>0, <2>9, <2>10, <2>11, <2>12, RestStands DEF MemoryInv
<1> QED BY <1>0, <1>1, <1>2

\* The scopes that were resolved are among those that instances are in.
LEMMA EndInstancesKeeps ==
  ASSUME MemoryInv, UNCHANGED tableVars, EndInstances
  PROVE  MemoryInv'
<1>0. /\ UNCHANGED <<procs, changes, seen, directory, instances, resolved, views, now>>
      /\ memory.phase = "resolve" /\ scopes' = Purged(scopes, instances)
      /\ memory' = [phase |-> "validate", todo |-> {resolved[i] : i \in DOMAIN resolved}, at |-> None,
                    step |-> "none", tries |-> {}, key |-> None, path |-> None, group |-> None]
      /\ InstancesSound /\ ScopesSound /\ ResolvedSound
  BY DEF EndInstances, Doing, tableVars, MemoryInv
<1>1. /\ DOMAIN scopes' = DOMAIN scopes \cap {instances[i].scope : i \in DOMAIN instances}
      /\ \A g \in DOMAIN scopes' : scopes'[g] = scopes[g]
  BY <1>0 DEF Purged, Without
<1>2. HistoriesSound(scopes)'
  <2>1. PICK kept : kept = scopes'
    OBVIOUS
  <2>2. HistoriesSound(kept)
    BY <1>0, <1>1, <2>1 DEF HistoriesSound, ScopesSound
  <2> QED BY <1>0, <2>1, <2>2, HistoriesStand
<1>3. ScopesSound'
  BY <1>0, <1>1, <1>2 DEF ScopesSound
<1>4. InstancesSound'
  BY <1>0, <1>1, WorldStands DEF InstancesSound
<1>5. \A i \in DOMAIN resolved : resolved[i] \in DOMAIN scopes'
  BY <1>0, <1>1 DEF ResolvedSound
<1>6. ResolvedSound'
  BY <1>0, <1>5, WorldStands DEF ResolvedSound
<1>7. WorkSound'
  BY <1>0, <1>5 DEF WorkSound
<1> QED BY <1>0, <1>3, <1>4, <1>6, <1>7, RestStands DEF MemoryInv

\* A scope is read if it has its directory still, or was left by all.
LEMMA ValidateKeeps ==
  ASSUME MemoryInv, UNCHANGED tableVars, NEW i \in DOMAIN instances, Validate(i)
  PROVE  MemoryInv'
<1>0. /\ UNCHANGED <<procs, changes, seen, directory, instances, scopes, resolved, views, now>>
      /\ memory.step = "next" /\ memory.phase = "validate" /\ i \in memory.tries
      /\ memory.at \in DOMAIN scopes /\ memory.tries \subseteq DOMAIN resolved
      /\ WorkSound /\ InstancesSound /\ ScopesSound /\ ResolvedSound
  BY DEF Validate, tableVars, MemoryInv, WorkSound, Lookups, Resting, Doing
<1>1. memory' = [phase |-> "validate", todo |-> memory.todo, at |-> memory.at, step |-> "stat",
                 tries |-> memory.tries \ {i}, key |-> Known(i),
                 path |-> memory.path, group |-> memory.group]
  BY <1>0 DEF Validate, WorkSound, Known
<1>2. Sighted(Known(i)) /\ Known(i) = [pid |-> PidOf[i], start |-> instances[i].start]
  BY <1>0 DEF ResolvedSound, InstancesSound, Known
<1>3. Sighted(memory.key)'
  <2>1. PICK key2 : key2 = Known(i)
    OBVIOUS
  <2>2. Sighted(key2)'
    BY <1>0, <1>2, <2>1 DEF Sighted, Lives
  <2>3. memory'.key = key2
    BY <1>1, <2>1
  <2> QED BY <2>2, <2>3
<1>4. LookedUp'
  BY <1>1, <1>3 DEF LookedUp, Lookups
<1>5. WorkSound'
  BY <1>0, <1>1 DEF WorkSound, Lookups
<1> QED BY <1>0, <1>1, <1>4, <1>5, RestStands DEF MemoryInv

\* A scope is valid if one of its instances is in it still; if none is, it is passed over.
LEMMA ValidatedKeeps ==
  ASSUME MemoryInv, UNCHANGED tableVars, Validated
  PROVE  MemoryInv'
<1>0. /\ UNCHANGED <<procs, changes, seen, directory, instances, scopes, resolved, views, now>>
      /\ memory.step \in {"resolved", "failed"} /\ memory.phase = "validate"
      /\ memory.at \in DOMAIN scopes
      /\ WorkSound /\ LookedUp
  BY DEF Validated, tableVars, MemoryInv, WorkSound
<1>1. CASE Valid
  <2>1. There(memory.at)
    BY <1>0, <1>1 DEF Valid, LookedUp
  <2>2. /\ memory'.step = "read" /\ memory'.phase = "validate" /\ memory'.at = memory.at
        /\ memory'.tries = memory.tries /\ memory'.todo = memory.todo
        /\ memory' = [phase |-> memory'.phase, todo |-> memory'.todo, at |-> memory'.at, step |-> memory'.step,
                      tries |-> memory'.tries, key |-> memory'.key, path |-> memory'.path, group |-> memory'.group]
    BY <1>0, <1>1 DEF Validated, WorkSound
  <2>3. There(memory.at)'
    <3>1. PICK g : g = memory.at
      OBVIOUS
    <3>2. There(g)'
      BY <1>0, <2>1, <3>1, WorldStands
    <3> QED BY <2>2, <3>1, <3>2
  <2>4. WorkSound'
    BY <1>0, <2>2 DEF WorkSound
  <2>5. LookedUp'
    BY <2>2, <2>3 DEF LookedUp, Lookups
  <2> QED BY <1>0, <2>2, <2>4, <2>5, RestStands DEF MemoryInv
<1>2. CASE ~Valid /\ memory.tries # {}
  <2>1. /\ memory'.step = "next" /\ memory'.phase = "validate" /\ memory'.at = memory.at
        /\ memory'.tries = memory.tries /\ memory'.todo = memory.todo
        /\ memory' = [phase |-> memory'.phase, todo |-> memory'.todo, at |-> memory'.at, step |-> memory'.step,
                      tries |-> memory'.tries, key |-> memory'.key, path |-> memory'.path, group |-> memory'.group]
    BY <1>0, <1>2 DEF Validated, WorkSound
  <2>2. WorkSound'
    BY <1>0, <2>1 DEF WorkSound
  <2> QED BY <1>0, <2>1, <2>2, RestStands DEF MemoryInv
<1>3. CASE ~Valid /\ memory.tries = {}
  <2>1. memory' = Done
    BY <1>3 DEF Validated
  <2> QED BY <1>0, <2>1, DoneSound, RestStands DEF MemoryInv
<1> QED BY <1>1, <1>2, <1>3

\* What is read is of the scope, if it was not left by all.
LEMMA ReadValuesKeeps ==
  ASSUME MemoryInv, UNCHANGED tableVars, ReadValues
  PROVE  MemoryInv'
<1>0. /\ UNCHANGED <<procs, changes, seen, directory, instances, resolved, views, now>>
      /\ memory.step = "read" /\ memory.phase = "validate" /\ memory' = Done
      /\ memory.at \in DOMAIN scopes
      /\ WorkSound /\ LookedUp /\ InstancesSound /\ ScopesSound /\ ResolvedSound
  BY DEF ReadValues, tableVars, MemoryInv, WorkSound, Lookups, Resting, Doing
<1>1. PICK at, group : at = memory.at /\ group = directory[scopes[memory.at].path]
  OBVIOUS
<1>2. at \in DOMAIN scopes /\ scopes[at].path = Path[at] /\ There(at)
  BY <1>0, <1>1 DEF LookedUp, ScopesSound, HistoriesSound
<1>3. group = at \/ Deserted(at)
  BY <1>1, <1>2 DEF There
<1>4. scopes' = scopes \/ (group # None /\ scopes' = [scopes EXCEPT ![at].values = group, ![at].at = now])
  BY <1>1 DEF ReadValues
<1>5. DOMAIN scopes' = DOMAIN scopes /\ HistoriesSound(scopes)'
  <2>1. CASE scopes' = scopes
    BY <1>0, <2>1, HistoriesStand DEF ScopesSound
  <2>2. CASE scopes' = [scopes EXCEPT ![at].values = group, ![at].at = now]
    <3>1. scopes[at] = [path |-> Path[at], values |-> scopes[at].values, at |-> scopes[at].at]
      BY <1>0, <1>2 DEF ScopesSound, HistoriesSound
    <3>2. /\ DOMAIN scopes' = DOMAIN scopes
          /\ scopes'[at] = [path |-> Path[at], values |-> group, at |-> now]
          /\ \A g \in DOMAIN scopes : g # at => scopes'[g] = scopes[g]
      BY <1>2, <2>2, <3>1
    <3>3. PICK read : read = scopes'
      OBVIOUS
    <3>4. HistoriesSound(read)
      <4>1. ASSUME NEW g \in DOMAIN read
            PROVE  /\ g \in DOMAIN Path
                   /\ read[g] = [path |-> Path[g], values |-> read[g].values, at |-> read[g].at]
                   /\ read[g].at \in 0 .. now
                   /\ read[g].at = now /\ read[g].values # None => read[g].values = g \/ Deserted(g)
        <5>1. CASE g = at
          BY <1>0, <1>2, <1>3, <3>2, <3>3, <5>1 DEF ScopesSound, HistoriesSound
        <5>2. CASE g # at
          BY <1>0, <3>2, <3>3, <5>2 DEF ScopesSound, HistoriesSound
        <5> QED BY <5>1, <5>2
      <4> QED BY <4>1 DEF HistoriesSound
    <3> QED BY <1>0, <3>2, <3>3, <3>4, HistoriesStand
  <2> QED BY <1>4, <2>1, <2>2
<1>6. WorkSound' /\ LookedUp' /\ memory'.phase = "validate"
  BY <1>0, <1>5, DoneSound
<1>7. ScopesSound'
  BY <1>0, <1>5, <1>6 DEF ScopesSound
<1>8. InstancesSound'
  BY <1>0, <1>5, WorldStands DEF InstancesSound
<1>9. ResolvedSound'
  BY <1>0, <1>5, WorldStands DEF ResolvedSound
<1> QED BY <1>0, <1>6, <1>7, <1>8, <1>9, RestStands DEF MemoryInv

\* Told as fresh is what was read in this sample, of a scope that was resolved.
LEMMA EndSamplingKeeps ==
  ASSUME MemoryInv, UNCHANGED tableVars, EndSampling
  PROVE  MemoryInv'
<1>0. /\ UNCHANGED <<procs, changes, seen, directory, instances, scopes, resolved, now>>
      /\ memory.phase = "validate" /\ memory' = Resting
      /\ views' = [i \in DOMAIN instances |-> View(i)]
      /\ InstancesSound /\ ScopesSound /\ ResolvedSound
  BY DEF EndSampling, tableVars, MemoryInv
<1>1. ASSUME NEW i \in DOMAIN instances, View(i).availability = "fresh"
      PROVE  /\ OwnGroup(PidOf[i], View(i).start, View(i).scope)
             /\ View(i).values = View(i).scope \/ Deserted(View(i).scope)
  <2>1. /\ instances[i].scope # None /\ scopes[instances[i].scope].values # None
        /\ i \in DOMAIN resolved /\ scopes[instances[i].scope].at = now
        /\ View(i).start = instances[i].start /\ View(i).scope = instances[i].scope
        /\ View(i).values = scopes[instances[i].scope].values
    BY <1>1 DEF View, Fresh
  <2>2. /\ instances[i].scope = resolved[i] /\ resolved[i] \in DOMAIN scopes
        /\ OwnGroup(PidOf[i], instances[i].start, resolved[i])
    BY <1>0, <2>1 DEF ResolvedSound
  <2>3. scopes[resolved[i]].values = resolved[i] \/ Deserted(resolved[i])
    BY <1>0, <2>1, <2>2 DEF ScopesSound, HistoriesSound
  <2> QED BY <2>1, <2>2, <2>3
<1>2. ViewsSound'
  <2>1. ASSUME NEW i \in DOMAIN views', views'[i].availability = "fresh"
        PROVE  /\ OwnGroup(PidOf[i], views[i].start, views[i].scope)'
               /\ views'[i].values = views'[i].scope \/ Deserted(views[i].scope)'
    <3>1. PICK view : view = View(i)
      OBVIOUS
    <3>2. i \in DOMAIN instances /\ views'[i] = view
      BY <1>0, <3>1
    <3>3. OwnGroup(PidOf[i], view.start, view.scope) /\ (view.values = view.scope \/ Deserted(view.scope))
      BY <1>1, <2>1, <3>1, <3>2
    <3>4. PICK s, g : s = view.start /\ g = view.scope
      OBVIOUS
    <3>5. OwnGroup(PidOf[i], s, g)' /\ (view.values = g \/ Deserted(g)')
      BY <1>0, <3>3, <3>4, WorldStands
    <3> QED BY <3>2, <3>4, <3>5
  <2> QED BY <2>1 DEF ViewsSound
<1> QED BY <1>0, <1>2, RestStands, RestingSound DEF MemoryInv

-----------------------------------------------------------------------------
(* All of it.                                                              *)

\* Every step of the sampler keeps the invariant.
LEMMA MemoryStepKeeps ==
  ASSUME MemoryInv, MemoryStep PROVE MemoryInv'
<1>1. CASE \E i \in Instances : Register(i) \/ RemoveInstance(i)
  BY <1>1, RegisterKeeps, RemoveKeeps, BeginSampleKeeps DEF MemoryStep
<1>2. CASE UNCHANGED tableVars /\ (LearnStart \/ ResolveScope \/ Registered)
  BY <1>2, LearnStartKeeps, LookupKeeps, RegisteredKeeps
<1>3. CASE UNCHANGED tableVars /\ \E i \in DOMAIN instances : TakeInstance(i) \/ Validate(i)
  BY <1>3, SmallStepsKeep, ValidateKeeps
<1>4. CASE UNCHANGED tableVars /\ (EndInstance \/ EndInstances \/ Validated \/ ReadValues \/ EndSampling)
  BY <1>4, EndInstanceKeeps, EndInstancesKeeps, ValidatedKeeps, ReadValuesKeeps, EndSamplingKeeps
<1>5. CASE UNCHANGED tableVars /\ \E g \in memory.todo : TakeScope(g)
  BY <1>5, SmallStepsKeep
<1>6. CASE BeginSample /\ UNCHANGED <<procs, changes>>
  BY <1>6, BeginSampleKeeps
<1> QED BY <1>1, <1>2, <1>3, <1>4, <1>5, <1>6 DEF MemoryStep

\* What was read and told stays so, whatever becomes of processes and groups.
LEMMA MemoryWorldKeeps ==
  ASSUME MemoryInv, MemoryTurns,
         UNCHANGED <<instances, scopes, memory, resolved, views, now>>
  PROVE  MemoryInv'
<1>1. /\ TableSound' /\ Housed'
      /\ seen \subseteq seen' /\ DOMAIN procs' = DOMAIN procs
      /\ \A pid, start : Sighted([pid |-> pid, start |-> start])
                           => Sighted([pid |-> pid, start |-> start])'
      /\ \A g \in DOMAIN Path : There(g) => There(g)'
  BY MemoryTurnsSound DEF MemoryInv
<1>2. /\ \A pid, start, g : WasIn(pid, start, g) => WasIn(pid, start, g)'
      /\ \A g : Deserted(g) => Deserted(g)'
  BY <1>1, SeenStays
<1>3. \A pid, start, scope : OwnGroup(pid, start, scope) => OwnGroup(pid, start, scope)'
  BY <1>2 DEF OwnGroup
<1>4. \A key2 : Sighted(key2) => Sighted(key2)'
  <2>1. ASSUME NEW key2, Sighted(key2) PROVE Sighted(key2)'
    <3>1. PICK pid, start : key2 = [pid |-> pid, start |-> start]
      BY <2>1 DEF Sighted
    <3> QED BY <1>1, <2>1, <3>1
  <2> QED BY <2>1
<1>5. WorkSound'
  BY <1>4 DEF MemoryInv, WorkSound, Resting, Doing
<1>6. InstancesSound'
  BY <1>1 DEF MemoryInv, InstancesSound
<1>7. ScopesSound'
  BY <1>2 DEF MemoryInv, ScopesSound, HistoriesSound
<1>8. ResolvedSound' /\ ViewsSound'
  BY <1>2, <1>3 DEF MemoryInv, ResolvedSound, ViewsSound
<1>9. LookedUp'
  <2>1. \A g, s : LeadsTo(g, s) => LeadsTo(g, s)'
    BY <1>1, <1>2 DEF LeadsTo
  <2>2. memory.step = "read" => memory.at \in DOMAIN Path
    BY DEF MemoryInv, WorkSound, ScopesSound, HistoriesSound, Lookups, Resting, Doing
  <2>3. LookedUp
    BY DEF MemoryInv
  <2>4. memory.step \in Lookups => Sighted(memory.key)'
    BY <1>4, <2>3 DEF LookedUp
  <2>5. memory.step \in {"directory", "again", "metadata"} =>
          \E g \in DOMAIN Path, s \in Nat : LeadsTo(g, s)' /\ There(g)'
    BY <1>1, <2>1, <2>3 DEF LookedUp
  <2>6. memory.step \in {"last", "resolved"} =>
          /\ memory.group \in DOMAIN Path /\ Path[memory.group] = memory.path /\ There(memory.group)'
          /\ \E g \in DOMAIN Path, s \in Nat :
               LeadsTo(g, s)' /\ (g = memory.group \/ Deserted(g)')
    BY <1>1, <1>2, <2>1, <2>3 DEF LookedUp
  <2>7. memory.step = "resolved" => OwnGroup(memory.key.pid, memory.key.start, memory.group)'
    BY <1>3, <2>3 DEF LookedUp
  <2>8. memory.step = "read" => There(memory.at)'
    BY <1>1, <2>2, <2>3 DEF LookedUp
  <2> QED BY <2>4, <2>5, <2>6, <2>7, <2>8 DEF LookedUp
<1> QED BY <1>1, <1>5, <1>6, <1>7, <1>8, <1>9 DEF MemoryInv

MemoryBegin ==
  /\ MemoryInit /\ TableSound /\ Housed
  /\ \A i \in Instances : PidOf[i] \in DOMAIN procs

MemoryNext ==
  \/ MemoryStep
  \/ MemoryTurns /\ UNCHANGED <<instances, scopes, memory, resolved, views, now>>

\* The memory sampler over any processes, groups and instances.
MemorySpec == MemoryBegin /\ [][MemoryNext]_<<tableVars, memoryVars>>

\* It holds as the sampler begins.
LEMMA BeginMemory == ASSUME MemoryBegin PROVE MemoryInv
<1>1. /\ memory = [phase |-> "idle", todo |-> {}, at |-> None, step |-> "none", tries |-> {},
                   key |-> None, path |-> None, group |-> None]
      /\ DOMAIN instances = {} /\ DOMAIN scopes = {} /\ DOMAIN views = {} /\ now = 0
  BY DEF MemoryBegin, MemoryInit, Resting, Doing, Nothing
<1>2. WorkSound
  BY <1>1 DEF WorkSound, MemoryBegin, MemoryInit
<1>3. InstancesSound /\ ScopesSound /\ ResolvedSound /\ ViewsSound /\ LookedUp
  BY <1>1 DEF InstancesSound, ScopesSound, HistoriesSound, ResolvedSound, ViewsSound, LookedUp, Lookups,
              MemoryBegin
<1> QED BY <1>2, <1>3 DEF MemoryInv, MemoryBegin

\* It is inductive.
LEMMA MemoryKeeps ==
  ASSUME MemoryInv, [MemoryNext]_<<tableVars, memoryVars>> PROVE MemoryInv'
<1>1. CASE MemoryStep
  BY <1>1, MemoryStepKeeps
<1>2. CASE MemoryTurns /\ UNCHANGED <<instances, scopes, memory, resolved, views, now>>
  BY <1>2, MemoryWorldKeeps
<1>3. CASE UNCHANGED <<tableVars, memoryVars>>
  <2>1. /\ UNCHANGED <<procs, changes, seen, directory, instances, scopes, resolved, views, now>>
        /\ memory' = memory
    BY <1>3 DEF tableVars, memoryVars
  <2>2. Sighted(memory.key)' <=> Sighted(memory.key)
    BY <2>1 DEF Sighted, Lives
  <2>3. WorkSound'
    BY <2>1, <2>2 DEF MemoryInv, WorkSound, Resting, Doing
  <2>4. LookedUp'
    <3>1. \A g, s : LeadsTo(g, s)' <=> LeadsTo(g, s)
      BY <2>1, WorldStands DEF LeadsTo
    <3> QED BY <2>1, <2>2, <3>1, WorldStands DEF MemoryInv, LookedUp
  <2> QED BY <2>1, <2>3, <2>4, RestStands DEF MemoryInv
<1> QED BY <1>1, <1>2, <1>3 DEF MemoryNext

\* And it is enough.
LEMMA MemoryHolds == ASSUME MemoryInv PROVE MemoryOwn
<1>1. /\ WorkSound /\ InstancesSound /\ ScopesSound /\ ViewsSound
  BY DEF MemoryInv
<1>2. ASSUME NEW i \in DOMAIN views, views[i].availability = "fresh"
      PROVE  /\ \E g \in DOMAIN Path :
                  /\ Path[g] = Path[views[i].scope] /\ WasIn(PidOf[i], views[i].start, g)
                  /\ g = views[i].scope \/ Deserted(g)
             /\ views[i].values = views[i].scope \/ Deserted(views[i].scope)
  BY <1>1, <1>2 DEF ViewsSound, OwnGroup
<1>3. ASSUME memory = Resting
      PROVE  DOMAIN scopes = {instances[i].scope : i \in DOMAIN instances} \ {None}
  <2>1. memory.phase = "idle"
    BY <1>3 DEF Resting, Doing
  <2>2. None \notin DOMAIN scopes
    BY <1>1, MemoryAssumption DEF ScopesSound, HistoriesSound
  <2> QED BY <1>1, <2>1, <2>2 DEF ScopesSound, InstancesSound
<1> QED BY <1>2, <1>3 DEF MemoryOwn

\* The memory sampler over any processes and groups: what an instance is told
\* as fresh is of a group that its process was in, or of one that took the
\* place of such a group when that was left by all.
THEOREM SampledMemoryIsOwn == MemorySpec => []MemoryOwn
<1>1. MemoryBegin => MemoryInv
  BY BeginMemory
<1>2. MemoryInv /\ [MemoryNext]_<<tableVars, memoryVars>> => MemoryInv'
  BY MemoryKeeps
<1>3. MemoryInv => MemoryOwn
  BY MemoryHolds
<1> QED BY <1>1, <1>2, <1>3, PTL DEF MemorySpec

-----------------------------------------------------------------------------
(* The small instance is one of them.                                      *)

MemoryRests ==
  /\ DOMAIN instances = {} /\ DOMAIN scopes = {} /\ DOMAIN views = {}

\* A behavior about memory keeps to this; in any other nothing is sampled.
MemorySide ==
  IF part = "memory" THEN MemoryInv /\ DOMAIN procs = {2, 3} ELSE MemoryRests

\* Paths of the small instance.
LEMMA MemoryPaths ==
  /\ DOMAIN Path = {"a", "a2", "b"} /\ Path["a"] = "/a" /\ Path["a2"] = "/a" /\ Path["b"] = "/b"
  /\ Paths = {"/a", "/b"}
<1>1. /\ DOMAIN Path = {"a", "a2", "b"} /\ Path["a"] = "/a" /\ Path["a2"] = "/a" /\ Path["b"] = "/b"
  BY GroupAssumption DEF MCPath
<1> QED BY <1>1 DEF Paths

\* Processes and groups of the small instance do what they may.
LEMMA MemoryWorldTurns ==
  ASSUME MemoryInv, MemoryWorld, DOMAIN procs = {2, 3}
  PROVE  MemoryTurns /\ UNCHANGED <<instances, scopes, memory, resolved, views, now>>
         /\ DOMAIN procs' = DOMAIN procs
<1>0. /\ TableSound /\ Housed
      /\ \A path \in {"/a", "/b"} :
           directory[path] # None => directory[path] \in DOMAIN Path /\ Path[directory[path]] = path
      /\ DOMAIN directory = {"/a", "/b"}
  BY MemoryPaths DEF MemoryInv, Housed
<1>1. CASE /\ UNCHANGED memoryVars
           /\ \E p \in {2, 3} : \/ Ends(p)
                                \/ \E g \in Groups : Start(p, "other", {}, g)
                                \/ "b" \in Groups /\ MoveTo(p, "b")
  <2>0. PICK p \in {2, 3} : \/ Ends(p)
                            \/ \E g \in Groups : Start(p, "other", {}, g)
                            \/ "b" \in Groups /\ MoveTo(p, "b")
    BY <1>1
  <2>1. Turns
    BY <1>0, <2>0, ActionsTurn
  <2>2. UNCHANGED memoryVars
    BY <1>1
  <2>3. \A g \in Groups : g \in DOMAIN Path /\ directory[Path[g]] = g
    BY <1>0 DEF Groups
  <2>4. \A q \in DOMAIN procs : procs'[q] # None =>
          \/ procs[q] # None /\ procs'[q].group = procs[q].group
          \/ procs'[q].group \in Groups
    <3>0. \A q \in DOMAIN procs : procs[q] # None => DOMAIN procs[q] = ProcessFields
      BY <1>0 DEF TableSound, Lives
    <3>1. CASE Ends(p)
      BY <3>0, <3>1 DEF Ends, Becomes, Lives, ProcessFields
    <3>2. CASE \E g \in Groups : Start(p, "other", {}, g)
      BY <3>2 DEF Start, Becomes, Process, Lives
    <3>3. CASE "b" \in Groups /\ MoveTo(p, "b")
      BY <3>0, <3>3 DEF MoveTo, Becomes, Lives, ProcessFields
    <3> QED BY <2>0, <3>1, <3>2, <3>3
  <2>5. \A q \in DOMAIN procs : procs[q] # None =>
          procs[q].group \in DOMAIN Path /\ directory[Path[procs[q].group]] = procs[q].group
    BY <1>0 DEF Housed, Lives
  <2> QED BY <2>1, <2>2, <2>3, <2>4, <2>5 DEF MemoryTurns, memoryVars, Turns
<1>2. CASE /\ UNCHANGED <<instances, scopes, memory, resolved, views, now>>
           /\ \E path \in {"/a", "/b"} : ReplaceDirectory(path, IF path = "/a" THEN "a2" ELSE None)
  <2>1. PICK path \in {"/a", "/b"} : ReplaceDirectory(path, IF path = "/a" THEN "a2" ELSE None)
    BY <1>2
  <2>2. MemoryTurns
    BY <2>1, MemoryPaths DEF MemoryTurns
  <2>3. UNCHANGED <<instances, scopes, memory, resolved, views, now>> /\ procs' = procs
    BY <1>2, <2>1 DEF ReplaceDirectory
  <2> QED BY <2>2, <2>3
<1> QED BY <1>1, <1>2 DEF MemoryWorld

\* The tables and groups that a behavior about memory begins with.
LEMMA MemoryTablesSound ==
  ASSUME NEW first \in MemoryTables, TableInit(first), MemoryInit, directory["/a"] = "a"
  PROVE  MemoryBegin /\ DOMAIN procs = {2, 3}
<1>1. PICK g \in {"a", "b"} :
        first = [p \in {2, 3} |-> IF p = 2 THEN Process("v1server", 1, 1, {}, "a")
                                  ELSE Process("v1server", 2, 1, {}, g)]
  BY DEF MemoryTables
<1>2. /\ DOMAIN first = {2, 3}
      /\ first[2] = Process("v1server", 1, 1, {}, "a")
      /\ first[3] = Process("v1server", 2, 1, {}, g)
  BY <1>1
<1>3. DOMAIN first[2] = ProcessFields /\ first[2].start = 1 /\ first[2].group = "a"
  BY <1>2 DEF Process, ProcessFields
<1>4. DOMAIN first[3] = ProcessFields /\ first[3].start = 2 /\ first[3].group = g
  BY <1>2 DEF Process, ProcessFields
<1>5. TableSound
  BY <1>2, <1>3, <1>4 DEF TableInit, TableSound, Lives
<1>6. DOMAIN directory = Paths /\ \A path \in Paths : directory[path] \in DOMAIN Path /\ Path[directory[path]] = path
  BY DEF MemoryInit, Paths
<1>7. directory["/a"] = "a" /\ directory["/b"] = "b"
  BY <1>6, MemoryPaths
<1>8. Housed
  BY <1>2, <1>3, <1>4, <1>6, <1>7, MemoryPaths DEF Housed, TableInit
<1>9. \A i \in Instances : PidOf[i] \in DOMAIN procs
  BY <1>2, GroupAssumption DEF TableInit
<1> QED BY <1>2, <1>5, <1>8, <1>9 DEF MemoryBegin, TableInit

\* The small instance begins with the invariant.
LEMMA MemorySideBegins == ASSUME Init PROVE MemorySide
<1>0. MemoryInit /\ directory["/a"] = "a"
  BY DEF Init
<1>1. CASE part = "memory"
  <2>1. PICK first \in MemoryTables : TableInit(first)
    BY <1>1 DEF Init
  <2>2. MemoryBegin /\ DOMAIN procs = {2, 3}
    BY <1>0, <2>1, MemoryTablesSound
  <2> QED BY <1>1, <2>2, BeginMemory DEF MemorySide
<1>2. CASE part # "memory"
  BY <1>0, <1>2 DEF MemorySide, MemoryRests, MemoryInit, Nothing
<1> QED BY <1>1, <1>2

\* And keeps it.
LEMMA MemorySideHolds ==
  ASSUME MemorySide,
         [Next]_<<tableVars, samplerVars, memoryVars, scanVars, fileVars, reading, markerVars,
                  streamVars, pagesVars, argumentVars, part>>
  PROVE  MemorySide'
<1>1. CASE part' = part /\ part # "memory" /\ UNCHANGED memoryVars
  BY <1>1 DEF MemorySide, MemoryRests, memoryVars
<1>2. CASE part' = part /\ part = "memory" /\ MemoryPart
  <2>1. MemoryInv /\ DOMAIN procs = {2, 3}
    BY <1>2 DEF MemorySide
  <2>2. CASE MemoryStep
    <3>1. procs' = procs
      BY <2>2 DEF MemoryStep, tableVars
    <3> QED BY <1>2, <2>1, <2>2, <3>1, MemoryStepKeeps DEF MemorySide
  <2>3. CASE MemoryWorld
    BY <1>2, <2>1, <2>3, MemoryWorldTurns, MemoryWorldKeeps DEF MemorySide
  <2> QED BY <1>2, <2>2, <2>3 DEF MemoryPart
<1>3. CASE UNCHANGED <<tableVars, memoryVars, part>>
  <2>1. MemoryInv => MemoryInv'
    BY <1>3, MemoryKeeps
  <2> QED BY <1>3, <2>1 DEF MemorySide, MemoryRests, memoryVars, tableVars
<1>4. CASE Next /\ part = "memory"
  <2>1. part' = part /\ MemoryPart
    BY <1>4 DEF Next, AttachmentPart, ScanPart, RegistrationPart, MarkerPart, StreamPart, PagesPart, ArgumentsPart
  <2> QED BY <1>2, <1>4, <2>1
<1>5. CASE Next /\ part # "memory"
  <2>1. part' = part /\ UNCHANGED memoryVars
    BY <1>5 DEF Next, AttachmentPart, MemoryPart, ScanPart, RegistrationPart, MarkerPart, StreamPart, PagesPart, ArgumentsPart
  <2> QED BY <1>1, <1>5, <2>1
<1> QED BY <1>3, <1>4, <1>5

\* Whatever processes and groups do between two reads, memory that is told as
\* fresh is the instance's own, and no scope is retained that none is in.
THEOREM MemoryStaysOwn == Spec => []MemoryOwn
<1>1. Init => MemorySide
  BY MemorySideBegins
<1>2. MemorySide /\ [Next]_<<tableVars, samplerVars, memoryVars, scanVars, fileVars, reading, markerVars,
                            streamVars, pagesVars, argumentVars, part>> => MemorySide'
  BY MemorySideHolds
<1>3. MemorySide => MemoryOwn
  <2>1. CASE part = "memory"
    BY <2>1, MemoryHolds DEF MemorySide
  <2>2. CASE part # "memory"
    BY <2>2 DEF MemorySide, MemoryRests, MemoryOwn
  <2> QED BY <2>1, <2>2
<1> QED BY <1>1, <1>2, <1>3, PTL DEF Spec

-----------------------------------------------------------------------------
(* The scan of procfs, over any table in which parents are older.          *)

StatSet == [pid : Nat, start : Nat, parent : Nat]

\* A parent is init or a process that is there and older than its child.
Tree ==
  /\ DOMAIN procs \subseteq Nat \ {0, 1} /\ IsFiniteSet(DOMAIN procs)
  /\ \A p \in DOMAIN procs : Lives(p) =>
       /\ procs[p].program # None
       /\ \/ procs[p].parent = 1
          \/ /\ procs[p].parent \in DOMAIN procs /\ Lives(procs[p].parent)
             /\ procs[procs[p].parent].start < procs[p].start

\* A process keeps its parent until it is a child of init.
TreeTurns ==
  /\ Turns /\ Tree'
  /\ \A p \in DOMAIN procs :
       procs[p] # None /\ procs'[p] # None /\ procs'[p].start = procs[p].start
         => procs'[p].parent \in {procs[p].parent, 1}

\* The table has the process as it was read.
Shown(table, k) == table[k.pid] # None /\ table[k.pid].start = k.start /\ table[k.pid].parent = k.parent

\* What was read of a process: who has its ID now is not older, and a child
\* of init stays one.
StatSound(k) ==
  /\ k \in StatSet /\ Sighted([pid |-> k.pid, start |-> k.start])
  /\ Matches(k) /\ k.parent = 1 => procs[k.pid].parent = 1

\* What was read stays read, and what is there unchanged was there before.
LEMMA ShownBefore ==
  ASSUME TableSound, TreeTurns, NEW k, StatSound(k)
  PROVE  /\ StatSound(k)'
         /\ Shown(procs', k) => Shown(procs, k)
         /\ Matches(k)' => Matches(k)
<1> DEFINE key == [pid |-> k.pid, start |-> k.start]
<1>1. key.pid = k.pid /\ key.start = k.start
  OBVIOUS
<1>2. Sighted(key)' /\ (Matches(key)' => Matches(key)) /\ k.pid \in DOMAIN procs
  <2>1. Sighted(key) /\ Turns
    BY DEF StatSound, TreeTurns
  <2>2. Sighted(key)' /\ (Matches(key)' => Matches(key))
    BY <2>1, TurnsSighted
  <2> QED BY <1>1, <2>1, <2>2 DEF Sighted
<1>3. Matches(k)' => Matches(k)
  BY <1>1, <1>2 DEF Matches, Lives
<1>4. Matches(k)' => procs'[k.pid].parent \in {procs[k.pid].parent, 1}
  BY <1>2, <1>3 DEF Matches, Lives, TreeTurns
<1>5. StatSound(k)'
  BY <1>2, <1>3, <1>4 DEF StatSound
<1>6. Shown(procs', k) => Shown(procs, k)
  <2> SUFFICES ASSUME Shown(procs', k) PROVE Shown(procs, k)
    OBVIOUS
  <2>1. Matches(k)' /\ procs'[k.pid].parent = k.parent
    BY DEF Shown, Matches, Lives
  <2> QED BY <1>3, <1>4, <2>1 DEF StatSound, Shown, Matches, Lives
<1> QED BY <1>3, <1>5, <1>6

\* What a look at a process shows.
LEMMA StatShows ==
  ASSUME TableSound, Tree, NEW p \in DOMAIN procs, Lives(p)
  PROVE  /\ Stat(p) # None /\ StatSound(Stat(p)) /\ Shown(procs, Stat(p)) /\ Matches(Stat(p))
         /\ Stat(p).pid = p /\ Stat(p).start = procs[p].start /\ Stat(p).parent = procs[p].parent
<1>1. Stat(p) = [pid |-> p, start |-> procs[p].start, parent |-> procs[p].parent]
  BY DEF Stat
<1>2. procs[p].start \in 0 .. 3 + changes /\ changes \in Nat
  BY DEF TableSound
<1>3. Stat(p) \in StatSet
  BY <1>1, <1>2 DEF Tree, StatSet
<1>4. Sighted([pid |-> p, start |-> procs[p].start])
  BY <1>2 DEF Sighted
<1>5. Stat(p) # None
  BY <1>3, ScanAssumption DEF StatSet
<1>6. Shown(procs, Stat(p)) /\ Matches(Stat(p))
  BY <1>1 DEF Shown, Matches, Lives
<1>7. Stat(p).pid = p /\ Stat(p).start = procs[p].start /\ Stat(p).parent = procs[p].parent
  BY <1>1
<1>8. StatSound(Stat(p))
  BY <1>3, <1>4, <1>7 DEF StatSound
<1> QED BY <1>5, <1>6, <1>7, <1>8

\* A look that finds what was read.
LEMMA StatMatches ==
  ASSUME NEW k \in StatSet
  PROVE  Stat(k.pid) = k => Shown(procs, k) /\ Lives(k.pid) /\ Matches(k) /\ k.pid \in DOMAIN procs
<1> SUFFICES ASSUME Stat(k.pid) = k PROVE Shown(procs, k) /\ Lives(k.pid) /\ Matches(k) /\ k.pid \in DOMAIN procs
  OBVIOUS
<1>1. k # None
  BY ScanAssumption DEF StatSet
<1>2. k.pid \in DOMAIN procs /\ Lives(k.pid)
  BY <1>1 DEF Stat
<1>3. k = [pid |-> k.pid, start |-> procs[k.pid].start, parent |-> procs[k.pid].parent]
  BY <1>2 DEF Stat
<1> QED BY <1>2, <1>3 DEF Shown, Matches, Lives

LEMMA ShownStat ==
  ASSUME NEW k \in StatSet, k.pid \in DOMAIN procs, Shown(procs, k)
  PROVE  Stat(k.pid) = k /\ Lives(k.pid)
BY DEF Shown, Stat, Lives, StatSet

-----------------------------------------------------------------------------
(* The invariant of the scan.                                              *)

WasStdio(key) ==
  \E table \in seen :
    /\ table[key.pid] # None /\ table[key.pid].start = key.start
    /\ table[key.pid].program \in Stdio

ScannerFields ==
  {"phase", "todo", "wanted", "at", "step", "before", "files", "chain", "parent", "marker", "verified",
   "protocol", "auth"}

\* What is known of the process that is looked at.
ProbeSound ==
  /\ scanner.at \in scanner.todo
  /\ scanner.step \notin {"likely", "stat"} /\ Youngest # None =>
       StatSound(Youngest) /\ Youngest.pid = At
  /\ scanner.step \notin {"likely", "stat", "files"} /\ Youngest # None /\ Matches(Youngest) =>
       \A s \in scanner.files : WasListening(Youngest, s)
  /\ scanner.step \in {"credentials", "confirm"} /\ Youngest # None /\ Matches(Youngest) =>
       WasStdio(Youngest)
  /\ scanner.step \notin {"confirm", "own"} => scanner.auth = None
  /\ scanner.step = "confirm" =>
       /\ scanner.auth.pid = At /\ Sighted(scanner.auth)
       /\ Youngest # None => Youngest.start <= scanner.auth.start
  /\ scanner.step = "own" /\ scanner.auth # None =>
       /\ scanner.auth.pid = At /\ WasStdio(scanner.auth)
       /\ \A s \in scanner.files : WasListening(scanner.auth, s)

\* In this table the launcher was one, above whatever of the chain is there
\* still, or was when it was read again.
LauncherIn(table) ==
  /\ DOMAIN table = DOMAIN procs
  /\ table[scanner.chain[scanner.marker].pid] # None
  /\ table[scanner.chain[scanner.marker].pid].program \in Launchers
  /\ \A i \in 1 .. scanner.marker :
       i <= scanner.verified \/ Shown(procs, scanner.chain[i]) => Shown(table, scanner.chain[i])

Climbs == scanner.step \in {"parent", "identity", "verify"}

\* What is known of the chain of parents.
ChainSound ==
  /\ scanner.step \in {"likely", "stat", "files", "ancestry"} =>
       scanner.marker = 0 /\ scanner.verified = 0
  /\ Climbs =>
       /\ scanner.chain \in Seq(StatSet) /\ Len(scanner.chain) >= 1
       /\ scanner.chain[1] = Youngest /\ Youngest # None
       /\ \A i \in 1 .. Len(scanner.chain) : StatSound(scanner.chain[i])
       /\ \A i \in 1 .. Len(scanner.chain) - 1 : scanner.chain[i + 1].pid = scanner.chain[i].parent
       /\ \A i, j \in 1 .. Len(scanner.chain) :
            scanner.chain[i].pid = scanner.chain[j].pid => i = j
       /\ scanner.marker \in 0 .. Len(scanner.chain) /\ scanner.marker # 1
       /\ scanner.verified \in 0 .. Len(scanner.chain)
       /\ scanner.step # "verify" => scanner.verified = 0
       /\ scanner.step = "verify" => scanner.marker # 0
       /\ scanner.marker # 0 => \E table \in seen : LauncherIn(table)
  /\ scanner.step = "verify" => Eldest.parent = 1 /\ Len(scanner.chain) <= MaxAncestryDepth
  /\ scanner.step = "identity" =>
       /\ StatSound(scanner.parent) /\ scanner.parent.pid = Eldest.parent
       /\ \A i \in 1 .. Len(scanner.chain) : scanner.chain[i].pid # scanner.parent.pid

ScannerSound ==
  /\ DOMAIN scanner = ScannerFields
  /\ scanner.phase \in {"idle", "scan", "ended"}
  /\ scanner.phase # "scan" => scanner.at = None /\ scanner.todo = {}
  /\ scanner.todo \subseteq DOMAIN procs
  /\ scanner.at = None => scanner = Inspecting(scanner.phase, scanner.todo, scanner.wanted)
  /\ scanner.at # None => ProbeSound /\ ChainSound

OwnerKnown(o, s) ==
  o.auth # None => o.pid = o.auth.pid /\ WasListening(o.auth, s) /\ WasStdio(o.auth)

OwnersSound ==
  \A s \in DOMAIN owners :
    /\ owners[s] # {}
    /\ \A o \in owners[s] : o.pid \in DOMAIN procs /\ OwnerKnown(o, s)

WasLaunched(key) ==
  \E table \in seen :
    table[key.pid] # None /\ table[key.pid].start = key.start /\ Launched(table, key.pid)

ToldSound ==
  /\ \A key \in excluded : WasLaunched(key)
  /\ \A c \in candidates : OwnerKnown(c.owner, c.socket)

\* A likely server that nothing excludes: no launcher is above, or init is too far.
Eligible(p) ==
  /\ Lives(p) /\ procs[p].program \in Likely
  /\ procs[p].program \in Stdio => procs[p].program \in Passwords
  /\ Launched(procs, p) => Far(procs, p)

QuietChain ==
  /\ \A i \in 1 .. Len(scanner.chain) : Shown(procs, scanner.chain[i])
  /\ \A i, j \in 1 .. Len(scanner.chain) : i < j => scanner.chain[j].start < scanner.chain[i].start
  /\ scanner.marker = 0 =>
       \A i \in 2 .. Len(scanner.chain) : procs[scanner.chain[i].pid].program \notin Launchers
  /\ scanner.marker # 0 => procs[scanner.chain[scanner.marker].pid].program \in Launchers
  /\ scanner.step = "identity" =>
       Shown(procs, scanner.parent) /\ scanner.parent.start < Eldest.start

\* What is known of the process as long as nothing changed.
QuietProbe ==
  /\ scanner.step # "likely" => Lives(At) /\ procs[At].program \in Likely
  /\ scanner.step \notin {"likely", "stat"} => Youngest = Stat(At)
  /\ scanner.step \notin {"likely", "stat", "files"} => scanner.files = Fds(At) \cap scanner.wanted
  /\ Climbs => QuietChain
  /\ scanner.step \in {"protocol", "credentials", "confirm", "own"} =>
       (Launched(procs, At) => Far(procs, At))
  /\ scanner.step \in {"credentials", "confirm"} => procs[At].program \in Stdio
  /\ scanner.step \in {"confirm", "own"} /\ procs[At].program \in Stdio => procs[At].program \in Passwords

QuietSound ==
  seen = {procs} =>
    /\ scanner.phase = "scan" =>
         /\ scanner.wanted = ListenerTable
         /\ DOMAIN owners =
              scanner.wanted \cap UNION {Fds(q) : q \in {p \in DOMAIN procs \ scanner.todo : Eligible(p)}}
         /\ scanner.at # None => QuietProbe
    /\ scanner.phase = "ended" =>
         {c.socket : c \in candidates} =
           (Listening \ Outward) \cap UNION {Fds(q) : q \in {p \in DOMAIN procs : Eligible(p)}}

ScanInv ==
  TableSound /\ Tree /\ ScannerSound /\ OwnersSound /\ ToldSound /\ QuietSound

\* And it is enough.
LEMMA ScansHold == ASSUME ScanInv PROVE ScanSound
<1>1. ASSUME NEW c \in candidates, c.owner.auth # None
      PROVE  /\ c.owner.pid = c.owner.auth.pid
             /\ Was(c.owner.auth, LAMBDA process : c.socket \in process.fds)
             /\ Was(c.owner.auth, LAMBDA process : process.program \in Stdio)
  <2>1. c.owner.pid = c.owner.auth.pid /\ WasListening(c.owner.auth, c.socket) /\ WasStdio(c.owner.auth)
    BY <1>1 DEF ScanInv, ToldSound, OwnerKnown
  <2>2. Was(c.owner.auth, LAMBDA process : c.socket \in process.fds)
    BY <2>1 DEF Was, WasListening
  <2>3. Was(c.owner.auth, LAMBDA process : process.program \in Stdio)
    BY <2>1 DEF Was, WasStdio
  <2> QED BY <2>1, <2>2, <2>3
<1>2. \A key \in excluded : \E table \in seen :
        /\ table[key.pid] # None /\ table[key.pid].start = key.start
        /\ Launched(table, key.pid)
  BY DEF ScanInv, ToldSound, WasLaunched
<1>3. scanner.phase = "ended" /\ seen = {procs} =>
        {c.socket : c \in candidates} =
          (Listening \ Outward) \cap UNION {Fds(p) : p \in {q \in DOMAIN procs : Eligible(q)}}
  BY DEF ScanInv, QuietSound
<1> QED BY <1>1, <1>2, <1>3 DEF ScanSound, Eligible

\* While the processes stand still, all that is known of them stands.
LEMMA ScanStands ==
  ASSUME UNCHANGED tableVars
  PROVE  /\ TableSound => TableSound'
         /\ Tree => Tree'
         /\ \A k : StatSound(k) <=> StatSound(k)'
         /\ \A k : Matches(k) <=> Matches(k)'
         /\ \A k : Sighted(k) <=> Sighted(k)'
         /\ \A k, s : WasListening(k, s) <=> WasListening(k, s)'
         /\ \A k : WasStdio(k) <=> WasStdio(k)'
         /\ \A k : WasLaunched(k) <=> WasLaunched(k)'
         /\ \A p : Eligible(p) <=> Eligible(p)'
<1>1. procs' = procs /\ changes' = changes /\ seen' = seen
  BY DEF tableVars
<1>2. /\ TableSound => TableSound'
      /\ \A k : Sighted(k) <=> Sighted(k)'
      /\ \A k : Matches(k) <=> Matches(k)'
  BY <1>1 DEF TableSound, Lives, Sighted, Matches
<1>3. Tree => Tree'
  BY <1>1 DEF Tree, Lives
<1>4. \A k : StatSound(k) <=> StatSound(k)'
  BY <1>1, <1>2 DEF StatSound
<1>5. /\ \A k, s : WasListening(k, s) <=> WasListening(k, s)'
      /\ \A k : WasStdio(k) <=> WasStdio(k)'
      /\ \A k : WasLaunched(k) <=> WasLaunched(k)'
  BY <1>1 DEF WasListening, WasStdio, WasLaunched
<1>6. \A p : Eligible(p) <=> Eligible(p)'
  BY <1>1 DEF Eligible, Lives
<1> QED BY <1>2, <1>3, <1>4, <1>5, <1>6

\* A way up that is in the table is no longer than the table.
LEMMA WayUp ==
  ASSUME NEW table, IsFiniteSet(DOMAIN table),
         NEW c, NEW m \in Nat, m >= 2,
         \A i \in 1 .. m : c[i].pid \in DOMAIN table /\ Shown(table, c[i]),
         \A i \in 1 .. m - 1 : c[i + 1].pid = c[i].parent,
         \A i, j \in 1 .. m : c[i].pid = c[j].pid => i = j,
         table[c[m].pid].program \in Launchers
  PROVE  Launched(table, c[1].pid)
<1> DEFINE n == m - 1
           up == [i \in 0 .. n |-> c[i + 1].pid]
           pid == [i \in 1 .. m |-> c[i].pid]
<1>1. n \in 1 .. Cardinality(DOMAIN table)
  <2>1. IsFiniteSet(1 .. m) /\ Cardinality(1 .. m) = m
    BY FS_Interval
  <2>2. pid \in [1 .. m -> DOMAIN table]
    OBVIOUS
  <2>3. Cardinality(DOMAIN table) \in Nat
    BY FS_CardinalityType
  <2>4. ~(Cardinality(DOMAIN table) < m)
    <3> SUFFICES ASSUME Cardinality(DOMAIN table) < m PROVE FALSE
      OBVIOUS
    <3>1. \E x, y \in 1 .. m : x # y /\ pid[x] = pid[y]
      <4> HIDE DEF pid
      <4> QED BY <2>1, <2>2, FS_PigeonHole
    <3> QED BY <3>1
  <2> QED BY <2>3, <2>4
<1>2. up \in [0 .. n -> DOMAIN table]
  <2>1. \A i \in 0 .. n : i + 1 \in 1 .. m
    OBVIOUS
  <2> QED BY <2>1
<1>3. up[0] = c[1].pid /\ up[n] = c[m].pid
  OBVIOUS
<1>4. ASSUME NEW i \in 1 .. n
      PROVE  table[up[i - 1]] # None /\ table[up[i - 1]].parent = up[i]
  <2>1. up[i - 1] = c[i].pid /\ up[i] = c[i + 1].pid /\ i \in 1 .. m
    OBVIOUS
  <2>2. Shown(table, c[i]) /\ c[i + 1].pid = c[i].parent
    BY <2>1
  <2> HIDE DEF up
  <2> QED BY <2>1, <2>2 DEF Shown
<1>5. table[up[n]] # None /\ table[up[n]].program \in Launchers
  <2>1. Shown(table, c[m])
    OBVIOUS
  <2> HIDE DEF up
  <2> QED BY <1>3, <2>1 DEF Shown
<1> HIDE DEF up, n
<1> QED BY <1>1, <1>2, <1>3, <1>4, <1>5 DEF Launched

\* There is one way up, and it ends below init: any other is the beginning of it.
LEMMA OneWay ==
  ASSUME Tree, NEW c, NEW m \in Nat, m >= 1,
         \A i \in 1 .. m : Shown(procs, c[i]),
         \A i \in 1 .. m - 1 : c[i + 1].pid = c[i].parent,
         c[m].parent = 1,
         NEW n \in Nat, NEW up \in [0 .. n -> DOMAIN procs],
         up[0] = c[1].pid,
         \A i \in 1 .. n : procs[up[i - 1]] # None /\ procs[up[i - 1]].parent = up[i]
  PROVE  n < m /\ up[n] = c[n + 1].pid
<1> DEFINE Off == {i \in 0 .. n : ~(i < m /\ up[i] = c[i + 1].pid)}
<1>1. Off = {}
  <2> SUFFICES ASSUME Off # {} PROVE FALSE
    OBVIOUS
  <2>1. PICK i \in Off : \A k \in Off : i <= k
    <3>1. Off \in SUBSET Nat
      OBVIOUS
    <3> QED BY <3>1, NatMin
  <2>2. i \in 1 .. n
    BY <2>1
  <2>3. i - 1 \in 0 .. n /\ i - 1 \notin Off
    BY <2>1, <2>2
  <2>4. i - 1 < m /\ up[i - 1] = c[i].pid
    BY <2>2, <2>3
  <2>5. procs[c[i].pid].parent = up[i] /\ up[i] # 1
    BY <2>2, <2>4 DEF Tree
  <2>6. i \in 1 .. m /\ c[i].parent = up[i]
    BY <2>2, <2>4, <2>5 DEF Shown
  <2>7. i # m
    BY <2>5, <2>6
  <2>8. i \in 1 .. m - 1 /\ i < m
    BY <2>6, <2>7
  <2>9. i \notin Off
    BY <2>2, <2>6, <2>8
  <2> QED BY <2>1, <2>9
<1> QED BY <1>1

\* Up to init no launcher: none is above.
LEMMA NoneAbove ==
  ASSUME Tree, NEW c, NEW m \in Nat, m >= 1,
         \A i \in 1 .. m : Shown(procs, c[i]),
         \A i \in 1 .. m - 1 : c[i + 1].pid = c[i].parent,
         c[m].parent = 1,
         \A i \in 2 .. m : procs[c[i].pid].program \notin Launchers
  PROVE  ~Launched(procs, c[1].pid)
<1> SUFFICES ASSUME Launched(procs, c[1].pid) PROVE FALSE
  OBVIOUS
<1>0. PICK n \in 1 .. Cardinality(DOMAIN procs) : \E up \in [0 .. n -> DOMAIN procs] :
        /\ up[0] = c[1].pid
        /\ \A i \in 1 .. n : procs[up[i - 1]] # None /\ procs[up[i - 1]].parent = up[i]
        /\ procs[up[n]] # None /\ procs[up[n]].program \in Launchers
  BY DEF Launched
<1>1. PICK up \in [0 .. n -> DOMAIN procs] :
        /\ up[0] = c[1].pid
        /\ \A i \in 1 .. n : procs[up[i - 1]] # None /\ procs[up[i - 1]].parent = up[i]
        /\ procs[up[n]] # None /\ procs[up[n]].program \in Launchers
  BY <1>0
<1>2. n \in Nat /\ n >= 1
  <2>1. Cardinality(DOMAIN procs) \in Nat
    BY FS_CardinalityType DEF Tree
  <2> QED BY <2>1
<1>3. n < m /\ up[n] = c[n + 1].pid
  BY <1>1, <1>2, OneWay
<1>4. n + 1 \in 2 .. m
  BY <1>2, <1>3
<1> QED BY <1>1, <1>3, <1>4

\* Init is found in time: it is not too far.
LEMMA NotFar ==
  ASSUME Tree, NEW c, NEW m \in Nat, m >= 1, m <= MaxAncestryDepth,
         \A i \in 1 .. m : Shown(procs, c[i]),
         \A i \in 1 .. m - 1 : c[i + 1].pid = c[i].parent,
         c[m].parent = 1
  PROVE  ~Far(procs, c[1].pid)
<1> SUFFICES ASSUME Far(procs, c[1].pid) PROVE FALSE
  OBVIOUS
<1>1. PICK n : n = MaxAncestryDepth
  OBVIOUS
<1>2. n \in Nat /\ m <= n
  BY <1>1, ScanAssumption
<1>3. PICK up \in [0 .. n -> DOMAIN procs] :
        /\ up[0] = c[1].pid
        /\ \A i \in 1 .. n : procs[up[i - 1]] # None /\ procs[up[i - 1]].parent = up[i]
  BY <1>1 DEF Far
<1>4. n < m
  BY <1>2, <1>3, OneWay
<1> QED BY <1>2, <1>4

\* The rounds are over and init is not found: it is too far.
LEMMA LongWay ==
  ASSUME NEW table, NEW c, NEW m \in Nat, m > MaxAncestryDepth,
         \A i \in 1 .. m : c[i].pid \in DOMAIN table /\ Shown(table, c[i]),
         \A i \in 1 .. m - 1 : c[i + 1].pid = c[i].parent
  PROVE  Far(table, c[1].pid)
<1>1. PICK n : n = MaxAncestryDepth
  OBVIOUS
<1>2. n \in Nat /\ n < m
  BY <1>1, ScanAssumption
<1> DEFINE up == [i \in 0 .. n |-> c[i + 1].pid]
<1>3. up \in [0 .. n -> DOMAIN table]
  <2>1. \A i \in 0 .. n : i + 1 \in 1 .. m
    BY <1>2
  <2> QED BY <2>1
<1>4. up[0] = c[1].pid
  BY <1>2
<1>5. ASSUME NEW i \in 1 .. n
      PROVE  table[up[i - 1]] # None /\ table[up[i - 1]].parent = up[i]
  <2>1. up[i - 1] = c[i].pid /\ up[i] = c[i + 1].pid /\ i \in 1 .. m - 1 /\ i \in 1 .. m
    BY <1>2
  <2>2. Shown(table, c[i]) /\ c[i + 1].pid = c[i].parent
    BY <2>1
  <2> HIDE DEF up
  <2> QED BY <2>1, <2>2 DEF Shown
<1> HIDE DEF up
<1> QED BY <1>1, <1>3, <1>4, <1>5 DEF Far

-----------------------------------------------------------------------------
(* One look after the other.                                               *)

\* A process is looked at.
LEMMA Probing ==
  ASSUME ScanInv, scanner.at # None
  PROVE  /\ TableSound /\ Tree /\ procs \in seen
         /\ DOMAIN scanner = ScannerFields /\ scanner.phase = "scan"
         /\ At \in scanner.todo /\ At \in DOMAIN procs
         /\ ProbeSound /\ ChainSound
         /\ seen = {procs} => QuietProbe
<1>1. ScannerSound /\ QuietSound /\ TableSound /\ Tree
  BY DEF ScanInv
<1>2. scanner.phase = "scan" /\ ProbeSound /\ ChainSound
  BY <1>1 DEF ScannerSound
<1>3. At \in scanner.todo /\ At \in DOMAIN procs
  BY <1>1, <1>2 DEF ScannerSound, ProbeSound, At
<1> QED BY <1>1, <1>2, <1>3 DEF ScannerSound, QuietSound, TableSound

\* What is still known after a look that leads to the next one.
LEMMA LookedOn ==
  ASSUME ScanInv, UNCHANGED tableVars, UNCHANGED <<owners, excluded, candidates>>,
         scanner.at # None, DOMAIN scanner' = ScannerFields,
         scanner'.phase = scanner.phase, scanner'.todo = scanner.todo,
         scanner'.wanted = scanner.wanted, scanner'.at = scanner.at,
         ProbeSound', ChainSound', seen = {procs} => QuietProbe'
  PROVE  ScanInv'
<1>1. procs' = procs /\ changes' = changes /\ seen' = seen
  BY DEF tableVars
<1>2. TableSound' /\ Tree'
  BY ScanStands DEF ScanInv
<1>3. ScannerSound'
  BY <1>1, Probing DEF ScannerSound, ScanInv
<1>4. OwnersSound'
  BY <1>1, ScanStands DEF ScanInv, OwnersSound, OwnerKnown
<1>5. ToldSound'
  BY <1>1, ScanStands DEF ScanInv, ToldSound, OwnerKnown
<1>6. QuietSound'
  <2>1. scanner'.phase = "scan" /\ ListenerTable' = ListenerTable
    BY <1>1, Probing DEF ListenerTable, Listeners, Fds, Lives
  <2>2. {p \in DOMAIN procs \ scanner.todo : Eligible(p)} = {p \in DOMAIN procs' \ scanner'.todo : Eligible(p)'}
    BY <1>1, ScanStands
  <2>3. UNION {Fds(q) : q \in {p \in DOMAIN procs \ scanner.todo : Eligible(p)}}
        = UNION {Fds(q)' : q \in {p \in DOMAIN procs' \ scanner'.todo : Eligible(p)'}}
    BY <1>1, <2>2 DEF Fds, Lives
  <2> QED BY <1>1, <2>1, <2>3, Probing DEF ScanInv, QuietSound
<1> QED BY <1>2, <1>3, <1>4, <1>5, <1>6 DEF ScanInv

\* The process is left for the next one.
LEMMA LookedAway ==
  ASSUME ScanInv, UNCHANGED tableVars, scanner.at # None, PassOver, OwnersSound', ToldSound',
         seen = {procs} =>
           DOMAIN owners' = DOMAIN owners \cup (IF Eligible(At) THEN Fds(At) \cap scanner.wanted ELSE {})
  PROVE  ScanInv'
<1>1. procs' = procs /\ changes' = changes /\ seen' = seen
  BY DEF tableVars
<1>2. TableSound' /\ Tree'
  BY ScanStands DEF ScanInv
<1>3. scanner' = Inspecting("scan", scanner.todo \ {At}, scanner.wanted)
  BY Probing DEF PassOver
<1>4. /\ DOMAIN scanner' = ScannerFields /\ scanner'.phase = "scan" /\ scanner'.at = None
      /\ scanner'.todo = scanner.todo \ {At} /\ scanner'.wanted = scanner.wanted
  BY <1>3 DEF Inspecting, ScannerFields
<1>5. ScannerSound'
  BY <1>1, <1>3, <1>4 DEF ScannerSound, ScanInv
<1>6. ASSUME seen' = {procs'} PROVE QuietSound'
  <2>1. seen = {procs} /\ ListenerTable' = ListenerTable /\ scanner.wanted = ListenerTable
    BY <1>1, <1>6, Probing DEF ListenerTable, Listeners, Fds, Lives, ScanInv, QuietSound
  <2>2. DOMAIN owners =
          scanner.wanted \cap UNION {Fds(q) : q \in {p \in DOMAIN procs \ scanner.todo : Eligible(p)}}
    BY <2>1, Probing DEF ScanInv, QuietSound
  <2>3. \A s : s \in DOMAIN owners <=>
                 s \in scanner.wanted /\ \E q \in DOMAIN procs : q \notin scanner.todo /\ Eligible(q) /\ s \in Fds(q)
    BY <2>2
  <2>4. \A s : s \in DOMAIN owners' <=>
                 s \in DOMAIN owners \/ (Eligible(At) /\ s \in Fds(At) /\ s \in scanner.wanted)
    BY <2>1
  <2>5. \A s : s \in DOMAIN owners' <=>
                 s \in scanner.wanted /\ \E q \in DOMAIN procs : q \notin scanner'.todo /\ Eligible(q) /\ s \in Fds(q)
    BY <1>4, <2>3, <2>4, Probing
  <2>6. \A q : (Eligible(q) <=> Eligible(q)') /\ Fds(q)' = Fds(q)
    BY <1>1, ScanStands DEF Fds, Lives
  <2>7. \A s : s \in DOMAIN owners' <=>
                 s \in scanner'.wanted /\ \E q \in DOMAIN procs' : q \notin scanner'.todo /\ Eligible(q)' /\ s \in Fds(q)'
    BY <1>1, <1>4, <2>5, <2>6
  <2>8. DOMAIN owners' =
          scanner'.wanted \cap UNION {Fds(q)' : q \in {p \in DOMAIN procs' \ scanner'.todo : Eligible(p)'}}
    BY <2>7
  <2> QED BY <1>4, <2>1, <2>8 DEF QuietSound
<1>7. QuietSound'
  BY <1>6 DEF QuietSound
<1> QED BY <1>2, <1>5, <1>7 DEF ScanInv

\* It is passed over.
LEMMA PassesOver ==
  ASSUME ScanInv, UNCHANGED tableVars, scanner.at # None, PassOver,
         UNCHANGED <<owners, excluded, candidates>>,
         seen = {procs} => ~Eligible(At) \/ Fds(At) \cap scanner.wanted = {}
  PROVE  ScanInv'
<1>1. procs' = procs /\ changes' = changes /\ seen' = seen
  BY DEF tableVars
<1>2. OwnersSound'
  BY <1>1, ScanStands DEF ScanInv, OwnersSound, OwnerKnown
<1>3. ToldSound'
  BY <1>1, ScanStands DEF ScanInv, ToldSound, OwnerKnown
<1> QED BY <1>2, <1>3, LookedAway

-----------------------------------------------------------------------------
(* What the looks at one process show.                                     *)

\* The process is taken up.
LEMMA InspectKeeps ==
  ASSUME ScanInv, UNCHANGED tableVars, NEW p, Inspect(p)
  PROVE  ScanInv'
<1>1. procs' = procs /\ changes' = changes /\ seen' = seen
  BY DEF tableVars
<1>2. TableSound' /\ Tree'
  BY ScanStands DEF ScanInv
<1>3. /\ scanner = Inspecting(scanner.phase, scanner.todo, scanner.wanted)
      /\ p \in scanner.todo /\ scanner' = [scanner EXCEPT !.at = p]
      /\ UNCHANGED <<owners, excluded, candidates>>
  BY DEF ScanInv, ScannerSound, Inspect
<1>4. /\ scanner.step = "likely" /\ scanner.before = None /\ scanner.marker = 0
      /\ scanner.verified = 0 /\ scanner.auth = None
      /\ DOMAIN scanner = ScannerFields
  BY <1>3 DEF Inspecting, ScannerFields
<1>5. /\ DOMAIN scanner' = ScannerFields
      /\ scanner'.phase = scanner.phase /\ scanner'.todo = scanner.todo
      /\ scanner'.wanted = scanner.wanted /\ scanner'.at = p /\ scanner'.step = "likely"
      /\ scanner'.before = None /\ scanner'.marker = 0 /\ scanner'.verified = 0 /\ scanner'.auth = None
  BY <1>3, <1>4 DEF ScannerFields
<1>6. ScannerSound'
  <2>1. ProbeSound'
    BY <1>3, <1>5 DEF ProbeSound, Youngest
  <2>2. ChainSound'
    BY <1>5 DEF ChainSound, Climbs
  <2>3. scanner'.at = None => scanner' = Inspecting(scanner'.phase, scanner'.todo, scanner'.wanted)
    <3> SUFFICES ASSUME p = None PROVE scanner' = Inspecting(scanner.phase, scanner.todo, scanner.wanted)
      BY <1>5
    <3>1. scanner.at = None
      BY <1>3 DEF Inspecting
    <3>2. scanner' = scanner
      BY <1>3, <1>4, <3>1 DEF ScannerFields, Inspecting
    <3> QED BY <1>3, <3>2
  <2>4. scanner.phase = "scan"
    BY <1>3 DEF ScanInv, ScannerSound
  <2> QED BY <1>1, <1>5, <2>1, <2>2, <2>3, <2>4 DEF ScanInv, ScannerSound
<1>7. OwnersSound'
  BY <1>1, <1>3, ScanStands DEF ScanInv, OwnersSound, OwnerKnown
<1>8. ToldSound'
  BY <1>1, <1>3, ScanStands DEF ScanInv, ToldSound, OwnerKnown
<1>9. QuietSound'
  <2>1. scanner'.phase = "scan" /\ scanner.phase = "scan" /\ ListenerTable' = ListenerTable
    BY <1>1, <1>3, <1>5 DEF ListenerTable, Listeners, Fds, Lives, ScanInv, ScannerSound
  <2>2. {q \in DOMAIN procs \ scanner.todo : Eligible(q)} = {q \in DOMAIN procs' \ scanner'.todo : Eligible(q)'}
    BY <1>1, <1>5, ScanStands
  <2>3. UNION {Fds(q) : q \in {r \in DOMAIN procs \ scanner.todo : Eligible(r)}}
        = UNION {Fds(q)' : q \in {r \in DOMAIN procs' \ scanner'.todo : Eligible(r)'}}
    BY <1>1, <2>2 DEF Fds, Lives
  <2>4. QuietProbe'
    BY <1>5 DEF QuietProbe, Climbs
  <2> QED BY <1>1, <1>3, <1>5, <2>1, <2>3, <2>4 DEF ScanInv, QuietSound
<1> QED BY <1>2, <1>6, <1>7, <1>8, <1>9 DEF ScanInv

LEMMA LooksLikelyKeeps ==
  ASSUME ScanInv, UNCHANGED tableVars, LooksLikely
  PROVE  ScanInv'
<1>1. /\ scanner.at # None /\ scanner.step = "likely"
      /\ UNCHANGED <<owners, excluded, candidates>> /\ procs' = procs
  BY DEF LooksLikely, Stage, tableVars
<1>2. CASE LikelyOpencode(At)
  <2>1. scanner' = [scanner EXCEPT !.step = "stat"]
    BY <1>2 DEF LooksLikely, Advance
  <2>2. /\ DOMAIN scanner' = ScannerFields /\ scanner'.step = "stat"
        /\ scanner'.phase = scanner.phase /\ scanner'.todo = scanner.todo
        /\ scanner'.wanted = scanner.wanted /\ scanner'.at = scanner.at
        /\ scanner'.marker = scanner.marker /\ scanner'.verified = scanner.verified
        /\ scanner'.auth = scanner.auth
    BY <1>1, <2>1, Probing DEF ScannerFields
  <2>3. ProbeSound'
    BY <1>1, <2>2, Probing DEF ProbeSound
  <2>4. ChainSound'
    BY <1>1, <2>2, Probing DEF ChainSound, Climbs
  <2>5. Lives(At) /\ procs[At].program \in Likely
    BY <1>2, ScanAssumption DEF LikelyOpencode, Identity
  <2>6. QuietProbe'
    BY <1>1, <2>2, <2>5 DEF QuietProbe, Climbs, At, Lives
  <2> QED BY <1>1, <2>2, <2>3, <2>4, <2>6, LookedOn
<1>3. CASE ~LikelyOpencode(At)
  <2>1. PassOver
    BY <1>3 DEF LooksLikely
  <2>2. ~Eligible(At)
    BY <1>1, <1>3, Probing DEF Eligible, LikelyOpencode, Identity
  <2> QED BY <1>1, <2>1, <2>2, PassesOver
<1> QED BY <1>2, <1>3

LEMMA StatBeforeKeeps ==
  ASSUME ScanInv, UNCHANGED tableVars, StatBefore
  PROVE  ScanInv'
<1>1. /\ scanner.at # None /\ scanner.step = "stat"
      /\ UNCHANGED <<owners, excluded, candidates>> /\ procs' = procs
  BY DEF StatBefore, Stage, tableVars
<1>2. CASE scanner' = [scanner EXCEPT !.step = "files", !.before = Stat(At)]
  <2>1. /\ DOMAIN scanner' = ScannerFields /\ scanner'.step = "files" /\ scanner'.before = Stat(At)
        /\ scanner'.phase = scanner.phase /\ scanner'.todo = scanner.todo
        /\ scanner'.wanted = scanner.wanted /\ scanner'.at = scanner.at
        /\ scanner'.marker = scanner.marker /\ scanner'.verified = scanner.verified
        /\ scanner'.auth = scanner.auth
    BY <1>1, <1>2, Probing DEF ScannerFields
  <2>2. Stat(At) # None => StatSound(Stat(At)) /\ Stat(At).pid = At
    <3>1. Stat(At) # None => Lives(At)
      BY DEF Stat
    <3> QED BY <1>1, <3>1, Probing, StatShows
  <2>3. PICK k : k = Stat(At)
    OBVIOUS
  <2>4. k # None => StatSound(k)' /\ k.pid = scanner.at
    BY <2>2, <2>3, ScanStands DEF At
  <2>5. ProbeSound'
    BY <1>1, <2>1, <2>3, <2>4, Probing DEF ProbeSound, Youngest, At
  <2>6. ChainSound'
    BY <1>1, <2>1, Probing DEF ChainSound, Climbs
  <2>7. Stat(At)' = Stat(At)
    BY <1>1, <2>1 DEF Stat, At, Lives
  <2>8. seen = {procs} => QuietProbe'
    BY <1>1, <2>1, <2>7, Probing DEF QuietProbe, Climbs, At, Lives, Youngest
  <2> QED BY <1>1, <2>1, <2>5, <2>6, <2>8, LookedOn
<1>3. CASE ~Lives(At) /\ PassOver
  <2>1. ~Eligible(At)
    BY <1>3 DEF Eligible
  <2> QED BY <1>1, <1>3, <2>1, PassesOver
<1> QED BY <1>2, <1>3 DEF StatBefore

LEMMA MatchFilesKeeps ==
  ASSUME ScanInv, UNCHANGED tableVars, MatchFiles
  PROVE  ScanInv'
<1>1. /\ scanner.at # None /\ scanner.step = "files"
      /\ UNCHANGED <<owners, excluded, candidates>> /\ procs' = procs
  BY DEF MatchFiles, Stage, tableVars
<1>2. CASE Fds(At) \cap scanner.wanted # {}
  <2>1. /\ DOMAIN scanner' = ScannerFields /\ scanner'.step = "ancestry"
        /\ scanner'.files = Fds(At) \cap scanner.wanted
        /\ scanner'.phase = scanner.phase /\ scanner'.todo = scanner.todo
        /\ scanner'.wanted = scanner.wanted /\ scanner'.at = scanner.at
        /\ scanner'.marker = scanner.marker /\ scanner'.verified = scanner.verified
        /\ scanner'.auth = scanner.auth /\ scanner'.before = scanner.before
    BY <1>1, <1>2, Probing DEF ScannerFields, MatchFiles
  <2>2. PICK k : k = Youngest
    OBVIOUS
  <2>3. k # None => StatSound(k) /\ k.pid = At
    BY <1>1, <2>2, Probing DEF ProbeSound
  <2>4. k # None /\ Matches(k) => \A s \in Fds(At) : WasListening(k, s)
    <3> SUFFICES ASSUME k # None, Matches(k), NEW s \in Fds(At) PROVE WasListening(k, s)
      OBVIOUS
    <3>1. procs[k.pid] # None /\ procs[k.pid].start = k.start /\ s \in procs[k.pid].fds
      BY <2>3 DEF Matches, Lives, Fds
    <3> QED BY <1>1, <3>1, Probing DEF WasListening
  <2>5. /\ k # None => StatSound(k)'
        /\ k # None /\ Matches(k)' => \A s \in scanner'.files : WasListening(k, s)'
    BY <2>1, <2>3, <2>4, ScanStands
  <2>6. ProbeSound'
    BY <1>1, <2>1, <2>2, <2>3, <2>5, Probing DEF ProbeSound, Youngest, At
  <2>7. ChainSound'
    BY <1>1, <2>1, Probing DEF ChainSound, Climbs
  <2>8. seen = {procs} => QuietProbe'
    BY <1>1, <2>1, Probing DEF QuietProbe, Climbs, At, Lives, Youngest, Stat, Fds
  <2> QED BY <1>1, <2>1, <2>6, <2>7, <2>8, LookedOn
<1>3. CASE Fds(At) \cap scanner.wanted = {}
  <2>1. PassOver
    BY <1>3 DEF MatchFiles
  <2> QED BY <1>1, <1>3, <2>1, PassesOver
<1> QED BY <1>2, <1>3

-----------------------------------------------------------------------------
(* The ancestry.                                                           *)

\* The step of the looks goes on; what is known of the process stays.
LEMMA ProbeGoesOn ==
  ASSUME ScanInv, UNCHANGED tableVars, scanner.at # None,
         scanner.step \in {"ancestry", "parent", "identity", "verify"},
         scanner'.step \in {"parent", "identity", "verify", "protocol"},
         scanner'.todo = scanner.todo, scanner'.at = scanner.at, scanner'.before = scanner.before,
         scanner'.files = scanner.files, scanner'.auth = scanner.auth
  PROVE  ProbeSound'
<1>1. PICK k : k = Youngest
  OBVIOUS
<1>2. /\ k # None => StatSound(k) /\ k.pid = At
      /\ k # None /\ Matches(k) => \A s \in scanner.files : WasListening(k, s)
  BY <1>1, Probing DEF ProbeSound
<1>3. /\ k # None => StatSound(k)'
      /\ k # None /\ Matches(k)' => \A s \in scanner.files : WasListening(k, s)'
  BY <1>2, ScanStands
<1> QED BY <1>1, <1>2, <1>3, Probing DEF ProbeSound, Youngest, At

\* Nothing excludes the process.
LEMMA NotExcluded ==
  ASSUME ScanInv, UNCHANGED tableVars, UNCHANGED <<owners, excluded, candidates>>,
         scanner.at # None, scanner.step \in {"ancestry", "parent", "identity", "verify"},
         scanner' = [scanner EXCEPT !.step = "protocol"],
         seen = {procs} => (Launched(procs, At) => Far(procs, At))
  PROVE  ScanInv'
<1>1. /\ DOMAIN scanner' = ScannerFields /\ scanner'.step = "protocol"
      /\ scanner'.phase = scanner.phase /\ scanner'.todo = scanner.todo
      /\ scanner'.wanted = scanner.wanted /\ scanner'.at = scanner.at
      /\ scanner'.before = scanner.before /\ scanner'.files = scanner.files
      /\ scanner'.auth = scanner.auth /\ procs' = procs
  BY Probing DEF ScannerFields, tableVars
<1>2. ProbeSound'
  BY <1>1, ProbeGoesOn
<1>3. ChainSound'
  BY <1>1 DEF ChainSound, Climbs
<1>4. seen = {procs} => QuietProbe'
  BY <1>1, Probing DEF QuietProbe, Climbs, At, Lives, Youngest, Stat, Fds
<1> QED BY <1>1, <1>2, <1>3, <1>4, LookedOn

LEMMA BeginAncestryKeeps ==
  ASSUME ScanInv, UNCHANGED tableVars, BeginAncestry
  PROVE  ScanInv'
<1>1. /\ scanner.at # None /\ scanner.step = "ancestry"
      /\ UNCHANGED <<owners, excluded, candidates>> /\ procs' = procs
  BY DEF BeginAncestry, Stage, tableVars
<1>2. CASE Youngest = None \/ Stat(At) # Youngest
  <2>1. seen # {procs}
    <3> SUFFICES ASSUME seen = {procs} PROVE FALSE
      OBVIOUS
    <3>1. Lives(At) /\ Youngest = Stat(At)
      BY <1>1, Probing DEF QuietProbe
    <3> QED BY <1>1, <1>2, <3>1, Probing, StatShows
  <2> QED BY <1>1, <1>2, <2>1, NotExcluded DEF BeginAncestry
<1>3. CASE Youngest # None /\ Stat(At) = Youngest
  <2>1. PICK k : k = Youngest
    OBVIOUS
  <2>2. k # None /\ StatSound(k) /\ k.pid = At /\ k = Stat(At) /\ k \in StatSet
    BY <1>1, <1>3, <2>1, Probing DEF ProbeSound, StatSound
  <2>3. /\ DOMAIN scanner' = ScannerFields /\ scanner'.step = "parent"
        /\ scanner'.phase = scanner.phase /\ scanner'.todo = scanner.todo
        /\ scanner'.wanted = scanner.wanted /\ scanner'.at = scanner.at
        /\ scanner'.before = scanner.before /\ scanner'.files = scanner.files
        /\ scanner'.auth = scanner.auth /\ scanner'.chain = <<k>>
        /\ scanner'.marker = 0 /\ scanner'.verified = 0
    BY <1>1, <1>3, <2>1, Probing DEF ScannerFields, BeginAncestry, ChainSound
  <2>4. ProbeSound'
    BY <1>1, <2>3, ProbeGoesOn
  <2>5. scanner'.chain \in Seq(StatSet) /\ Len(scanner'.chain) = 1 /\ scanner'.chain[1] = k
    BY <2>2, <2>3
  <2>6. StatSound(k)'
    BY <2>2, ScanStands
  <2>7. ChainSound'
    <3>1. \A i \in 1 .. Len(scanner'.chain) : i = 1 /\ scanner'.chain[i] = k
      BY <2>5
    <3>2. \A i \in 1 .. Len(scanner'.chain) : StatSound(scanner.chain[i])'
      BY <2>6, <3>1
    <3>3. /\ \A i \in 1 .. Len(scanner'.chain) - 1 : scanner'.chain[i + 1].pid = scanner'.chain[i].parent
          /\ \A i, j \in 1 .. Len(scanner'.chain) :
               scanner'.chain[i].pid = scanner'.chain[j].pid => i = j
      BY <2>5, <3>1
    <3>4. scanner'.before = k /\ scanner'.marker = 0 /\ scanner'.verified = 0
      BY <2>1, <2>3 DEF Youngest
    <3>5. /\ scanner'.chain[1] = scanner'.before /\ scanner'.before # None
          /\ scanner'.marker \in 0 .. Len(scanner'.chain) /\ scanner'.marker # 1
          /\ scanner'.verified \in 0 .. Len(scanner'.chain)
      BY <2>2, <2>5, <3>4
    <3> QED BY <2>3, <2>5, <3>2, <3>3, <3>4, <3>5 DEF ChainSound, Climbs, Youngest
  <2>8. seen = {procs} => QuietProbe'
    <3> SUFFICES ASSUME seen = {procs} PROVE QuietProbe'
      OBVIOUS
    <3>1. Lives(At) /\ procs[At].program \in Likely /\ scanner.files = Fds(At) \cap scanner.wanted
      BY <1>1, Probing DEF QuietProbe
    <3>2. Shown(procs, k)
      BY <1>1, <2>2, <3>1, Probing, StatShows
    <3>3. QuietChain'
      BY <1>1, <2>3, <2>5, <3>2 DEF QuietChain
    <3> QED BY <1>1, <2>1, <2>2, <2>3, <3>1, <3>3 DEF QuietProbe, Climbs, At, Lives, Youngest, Stat, Fds
  <2> QED BY <1>1, <2>3, <2>4, <2>7, <2>8, LookedOn
<1> QED BY <1>2, <1>3

\* While the chain is read the same, what is known of it stands.
LEMMA ChainGoesOn ==
  ASSUME ScanInv, UNCHANGED tableVars, scanner.at # None, Climbs, Climbs',
         scanner'.chain = scanner.chain, scanner'.before = scanner.before,
         scanner'.marker = scanner.marker,
         scanner'.verified \in 0 .. Len(scanner.chain),
         scanner'.step # "verify" => scanner'.verified = 0,
         scanner'.step = "verify" => scanner.marker # 0,
         scanner'.step = "verify" => Eldest.parent = 1 /\ Len(scanner.chain) <= MaxAncestryDepth,
         \A i \in 1 .. scanner.marker :
           i <= scanner'.verified => i <= scanner.verified \/ Shown(procs, scanner.chain[i]),
         scanner'.step = "identity" =>
           /\ StatSound(scanner.parent)' /\ scanner'.parent.pid = Eldest.parent
           /\ \A i \in 1 .. Len(scanner.chain) : scanner.chain[i].pid # scanner'.parent.pid
  PROVE  ChainSound'
<1>1. PICK c : c = scanner.chain
  OBVIOUS
<1>2. /\ c \in Seq(StatSet) /\ Len(c) >= 1
      /\ c[1] = Youngest /\ Youngest # None
      /\ \A i \in 1 .. Len(c) : StatSound(c[i])
      /\ \A i \in 1 .. Len(c) - 1 : c[i + 1].pid = c[i].parent
      /\ \A i, j \in 1 .. Len(c) : c[i].pid = c[j].pid => i = j
      /\ scanner.marker \in 0 .. Len(c) /\ scanner.marker # 1
      /\ scanner.verified \in 0 .. Len(c)
      /\ scanner.marker # 0 => \E table \in seen : LauncherIn(table)
  BY <1>1, Probing DEF ChainSound
<1>3. \A i \in 1 .. Len(c) : StatSound(c[i])'
  BY <1>2, ScanStands
<1>4. procs' = procs /\ seen' = seen
  BY DEF tableVars
<1>5. ASSUME scanner.marker # 0 PROVE \E table \in seen' : LauncherIn(table)'
  <2>1. PICK table \in seen : LauncherIn(table)
    BY <1>2, <1>5
  <2>2. LauncherIn(table)'
    BY <1>2, <1>4, <2>1 DEF LauncherIn
  <2> QED BY <1>4, <2>1, <2>2
<1>6. scanner'.step \notin {"likely", "stat", "files", "ancestry"}
  BY DEF Climbs
<1> QED BY <1>1, <1>2, <1>3, <1>5, <1>6 DEF ChainSound, Youngest, Eldest

\* While nothing changes, the chain goes on to init, always to older ones.
LEMMA QuietParent ==
  ASSUME ScanInv, scanner.at # None, seen = {procs}, scanner.step = "parent"
  PROVE  \/ Eldest.parent = 1
         \/ /\ Eldest.parent \in DOMAIN procs /\ Lives(Eldest.parent) /\ Eldest.parent \notin {0, 1}
            /\ Stat(Eldest.parent) # None /\ Stat(Eldest.parent).start < Eldest.start
            /\ Shown(procs, Stat(Eldest.parent))
            /\ Eldest.parent \notin {scanner.chain[i].pid : i \in DOMAIN scanner.chain}
<1> DEFINE c == scanner.chain
<1>1. /\ c \in Seq(StatSet) /\ Len(c) \in 1 .. Len(c) /\ Eldest = c[Len(c)]
      /\ \A i \in 1 .. Len(c) : StatSound(c[i]) /\ Shown(procs, c[i])
      /\ \A i, j \in 1 .. Len(c) : i < j => c[j].start < c[i].start
  <2>1. ChainSound /\ QuietProbe /\ scanner.step = "parent"
    BY Probing
  <2>2. c \in Seq(StatSet) /\ Len(c) \in Nat /\ Len(c) >= 1
        /\ \A i \in 1 .. Len(c) : StatSound(c[i])
    BY <2>1 DEF ChainSound, Climbs
  <2>3. QuietChain
    BY <2>1 DEF QuietProbe, Climbs
  <2>4. /\ \A i \in 1 .. Len(c) : Shown(procs, c[i])
        /\ \A i, j \in 1 .. Len(c) : i < j => c[j].start < c[i].start
    BY <2>3 DEF QuietChain
  <2> QED BY <2>2, <2>4 DEF Eldest
<1>2. /\ Eldest \in StatSet /\ Eldest.pid \in DOMAIN procs /\ Lives(Eldest.pid)
      /\ procs[Eldest.pid].start = Eldest.start /\ procs[Eldest.pid].parent = Eldest.parent
  <2> HIDE DEF c
  <2>1. StatSound(Eldest) /\ Shown(procs, Eldest)
    BY <1>1
  <2> QED BY <2>1 DEF StatSound, Sighted, Shown, Lives
<1> SUFFICES ASSUME Eldest.parent # 1
             PROVE  /\ Eldest.parent \in DOMAIN procs /\ Lives(Eldest.parent) /\ Eldest.parent \notin {0, 1}
                    /\ Stat(Eldest.parent) # None /\ Stat(Eldest.parent).start < Eldest.start
                    /\ Shown(procs, Stat(Eldest.parent))
                    /\ Eldest.parent \notin {c[i].pid : i \in DOMAIN c}
  OBVIOUS
<1> DEFINE up == Eldest.parent
<1>3. /\ up \in DOMAIN procs /\ Lives(up) /\ procs[up].start < Eldest.start /\ up \notin {0, 1}
  BY <1>2, Probing DEF Tree
<1>4. Stat(up) # None /\ Stat(up).start = procs[up].start /\ Shown(procs, Stat(up))
  BY <1>3, Probing, StatShows
<1>5. ASSUME NEW i \in DOMAIN c, c[i].pid = up PROVE FALSE
  <2>1. i \in 1 .. Len(c) /\ Len(c) \in Nat
    BY <1>1
  <2>2. c[i].start = procs[up].start /\ c[i] \in StatSet
    BY <1>1, <1>5, <2>1 DEF Shown, StatSound
  <2>3. i = Len(c) \/ Eldest.start < c[i].start
    <3> HIDE DEF c
    <3> QED BY <1>1, <2>1
  <2>4. c[i].start \in Nat /\ Eldest.start \in Nat
    BY <1>2, <2>2 DEF StatSet
  <2>5. Eldest.start <= c[i].start
    <3> HIDE DEF c
    <3> QED BY <1>1, <2>3, <2>4
  <2> QED BY <1>3, <2>2, <2>4, <2>5
<1> QED BY <1>3, <1>4, <1>5

\* The chain of parents, as it is known.
LEMMA ChainKnown ==
  ASSUME ScanInv, scanner.at # None, Climbs
  PROVE  /\ scanner.chain \in Seq(StatSet) /\ Len(scanner.chain) \in Nat /\ Len(scanner.chain) >= 1
         /\ scanner.chain[1] = Youngest /\ Youngest # None /\ Youngest.pid = At
         /\ \A i \in 1 .. Len(scanner.chain) : StatSound(scanner.chain[i]) /\ scanner.chain[i] \in StatSet
         /\ \A i \in 1 .. Len(scanner.chain) - 1 : scanner.chain[i + 1].pid = scanner.chain[i].parent
         /\ \A i, j \in 1 .. Len(scanner.chain) :
              scanner.chain[i].pid = scanner.chain[j].pid => i = j
         /\ scanner.marker \in 0 .. Len(scanner.chain) /\ scanner.marker # 1
         /\ scanner.verified \in 0 .. Len(scanner.chain)
         /\ scanner.marker # 0 => \E table \in seen : LauncherIn(table)
<1>1. scanner.step \notin {"likely", "stat"}
  BY DEF Climbs
<1> QED BY <1>1, Probing DEF ChainSound, ProbeSound, StatSound

LEMMA ReadParentKeeps ==
  ASSUME ScanInv, UNCHANGED tableVars, ReadParent
  PROVE  ScanInv'
<1> DEFINE child == Eldest
           parent == Stat(child.parent)
           visited == {scanner.chain[i].pid : i \in DOMAIN scanner.chain}
           last == \/ child.parent \in {0, 1} \cup visited
                   \/ parent = None
                   \/ parent.start > child.start
<1>1. /\ scanner.at # None /\ scanner.step = "parent" /\ Climbs
      /\ UNCHANGED <<owners, excluded, candidates>> /\ procs' = procs
      /\ scanner.verified = 0 /\ DOMAIN scanner = ScannerFields
  BY Probing DEF ReadParent, Stage, tableVars, Climbs, ChainSound
<1>2. Len(scanner.chain) \in 1 .. Len(scanner.chain) /\ child = scanner.chain[Len(scanner.chain)] /\ child \in StatSet
  BY <1>1, ChainKnown DEF Eldest
<1>6. MaxAncestryDepth \in Nat /\ Len(scanner.chain) \in Nat
  BY <1>1, ChainKnown, ScanAssumption
<1>7. CASE TooFar
  <2>1. scanner' = [scanner EXCEPT !.step = "protocol"]
    BY <1>7 DEF ReadParent
  <2>2. ASSUME seen = {procs} PROVE Far(procs, At)
    <3>1. PICK c : c = scanner.chain
      OBVIOUS
    <3>2. /\ \A i \in 1 .. Len(c) : StatSound(c[i])
          /\ \A i \in 1 .. Len(c) - 1 : c[i + 1].pid = c[i].parent
          /\ c[1].pid = At
      BY <1>1, <3>1, ChainKnown
    <3>3. \A i \in 1 .. Len(c) : c[i].pid \in DOMAIN procs
      BY <3>2 DEF StatSound, Sighted
    <3>4. \A i \in 1 .. Len(c) : Shown(procs, c[i])
      BY <1>1, <2>2, <3>1, Probing DEF QuietProbe, QuietChain
    <3>5. Len(c) > MaxAncestryDepth /\ Len(c) \in Nat
      BY <1>6, <1>7, <3>1 DEF TooFar
    <3> QED BY <3>2, <3>3, <3>4, <3>5, LongWay
  <2> QED BY <1>1, <2>1, <2>2, NotExcluded
<1>3. ASSUME ~TooFar, child.parent = 1 /\ scanner.marker # 0 PROVE ScanInv'
  <2>1. scanner' = [scanner EXCEPT !.step = "verify"]
    BY <1>3 DEF ReadParent
  <2>0. Eldest.parent = 1 /\ Len(scanner.chain) <= MaxAncestryDepth
    BY <1>3, <1>6 DEF TooFar
  <2>2. /\ DOMAIN scanner' = ScannerFields /\ scanner'.step = "verify"
        /\ scanner'.phase = scanner.phase /\ scanner'.todo = scanner.todo
        /\ scanner'.wanted = scanner.wanted /\ scanner'.at = scanner.at
        /\ scanner'.before = scanner.before /\ scanner'.files = scanner.files
        /\ scanner'.auth = scanner.auth /\ scanner'.chain = scanner.chain
        /\ scanner'.marker = scanner.marker /\ scanner'.verified = 0
    BY <1>1, <2>1 DEF ScannerFields
  <2>3. ProbeSound'
    BY <1>1, <2>2, ProbeGoesOn
  <2>4. ChainSound'
    <3>1. Climbs'
      BY <2>2 DEF Climbs
    <3>2. scanner'.verified \in 0 .. Len(scanner.chain)
      BY <1>1, <2>2, ChainKnown
    <3>3. \A i \in 1 .. scanner.marker : i <= scanner'.verified => i <= scanner.verified \/ Shown(procs, scanner.chain[i])
      BY <1>1, <2>2
    <3> QED BY <1>1, <1>3, <2>0, <2>2, <3>1, <3>2, <3>3, ChainGoesOn
  <2>5. seen = {procs} => QuietProbe'
    BY <1>1, <2>2, Probing DEF QuietProbe, QuietChain, Climbs, At, Lives, Youngest, Stat, Fds, Eldest, Shown
  <2> QED BY <1>1, <2>2, <2>3, <2>4, <2>5, LookedOn
<1>4. ASSUME ~TooFar, ~(child.parent = 1 /\ scanner.marker # 0) /\ last PROVE ScanInv'
  <2>1. scanner' = [scanner EXCEPT !.step = "protocol"]
    BY <1>4 DEF ReadParent
  <2>2. ASSUME seen = {procs} PROVE ~Launched(procs, At)
    <3>1. child.parent = 1
      <4> SUFFICES ASSUME child.parent # 1 PROVE FALSE
        OBVIOUS
      <4>1. parent # None /\ parent.start < child.start /\ child.parent \notin {0, 1} /\ child.parent \notin visited
        BY <1>1, <2>2, QuietParent
      <4>2. child.start \in Nat /\ parent.start \in Nat
        <5>1. parent = [pid |-> child.parent, start |-> procs[child.parent].start, parent |-> procs[child.parent].parent]
          BY <4>1 DEF Stat
        <5>2. child.parent \in DOMAIN procs /\ Lives(child.parent)
          BY <4>1 DEF Stat
        <5> QED BY <1>1, <1>2, <5>1, <5>2, Probing DEF StatSet, TableSound
      <4> QED BY <1>4, <4>1, <4>2
    <3>2. scanner.marker = 0
      BY <1>4, <3>1
    <3>3. QuietChain
      BY <1>1, <2>2, Probing DEF QuietProbe
    <3>4. /\ \A i \in 1 .. Len(scanner.chain) : Shown(procs, scanner.chain[i])
          /\ \A i \in 2 .. Len(scanner.chain) : procs[scanner.chain[i].pid].program \notin Launchers
      BY <3>2, <3>3 DEF QuietChain
    <3>5. ~Launched(procs, scanner.chain[1].pid)
      BY <1>1, <1>2, <3>1, <3>4, ChainKnown, Probing, NoneAbove
    <3> QED BY <1>1, <3>5, ChainKnown
  <2> QED BY <1>1, <2>1, <2>2, NotExcluded
<1>5. ASSUME ~TooFar, ~(child.parent = 1 /\ scanner.marker # 0) /\ ~last PROVE ScanInv'
  <2>1. scanner' = [scanner EXCEPT !.step = "identity", !.parent = parent]
    BY <1>5 DEF ReadParent
  <2>2. PICK k : k = parent
    OBVIOUS
  <2>3. /\ DOMAIN scanner' = ScannerFields /\ scanner'.step = "identity" /\ scanner'.parent = k
        /\ scanner'.phase = scanner.phase /\ scanner'.todo = scanner.todo
        /\ scanner'.wanted = scanner.wanted /\ scanner'.at = scanner.at
        /\ scanner'.before = scanner.before /\ scanner'.files = scanner.files
        /\ scanner'.auth = scanner.auth /\ scanner'.chain = scanner.chain
        /\ scanner'.marker = scanner.marker /\ scanner'.verified = 0
    BY <1>1, <2>1, <2>2 DEF ScannerFields
  <2>4. StatSound(k) /\ k.pid = child.parent
    <3>1. child.parent \in DOMAIN procs /\ Lives(child.parent)
      BY <1>5 DEF Stat
    <3> QED BY <1>1, <2>2, <3>1, Probing, StatShows
  <2>5. ProbeSound'
    BY <1>1, <2>3, ProbeGoesOn
  <2>6. ChainSound'
    <3>1. Climbs'
      BY <2>3 DEF Climbs
    <3>2. scanner'.verified \in 0 .. Len(scanner.chain)
      BY <1>1, <2>3, ChainKnown
    <3>3. \A i \in 1 .. scanner.marker : i <= scanner'.verified => i <= scanner.verified \/ Shown(procs, scanner.chain[i])
      BY <1>1, <2>3
    <3>4. StatSound(k)'
      BY <2>4, ScanStands
    <3>5. StatSound(scanner.parent)'
      BY <2>3, <3>4
    <3>6. \A i \in 1 .. Len(scanner.chain) : scanner.chain[i].pid # k.pid
      BY <1>1, <1>5, <2>4, ChainKnown
    <3> QED BY <1>1, <2>3, <2>4, <3>1, <3>2, <3>3, <3>5, <3>6, ChainGoesOn
  <2>7. ASSUME seen = {procs} PROVE QuietProbe'
    <3>1. Shown(procs, k) /\ k.start < child.start
      BY <1>1, <1>5, <2>2, <2>7, QuietParent
    <3>2. QuietChain'
      BY <1>1, <2>3, <2>7, <3>1, Probing DEF QuietProbe, QuietChain, Eldest, Shown
    <3> QED BY <1>1, <2>3, <2>7, <3>2, Probing DEF QuietProbe, Climbs, At, Lives, Youngest, Stat, Fds
  <2> QED BY <1>1, <2>3, <2>5, <2>6, <2>7, LookedOn
<1> QED BY <1>3, <1>4, <1>5, <1>7

LEMMA ReadIdentityKeeps ==
  ASSUME ScanInv, UNCHANGED tableVars, ReadIdentity
  PROVE  ScanInv'
<1>1. /\ scanner.at # None /\ scanner.step = "identity" /\ Climbs
      /\ UNCHANGED <<owners, excluded, candidates>>
      /\ procs' = procs /\ seen' = seen /\ procs \in seen
      /\ scanner.verified = 0 /\ DOMAIN scanner = ScannerFields
  BY Probing DEF ReadIdentity, Stage, tableVars, Climbs, ChainSound
<1>2. PICK c, k : c = scanner.chain /\ k = scanner.parent
  OBVIOUS
<1>3. /\ StatSound(k) /\ k \in StatSet /\ k.pid = c[Len(c)].parent
      /\ \A i \in 1 .. Len(c) : c[i].pid # k.pid
  BY <1>1, <1>2, Probing DEF ChainSound, StatSound, Eldest
<1>4. /\ c \in Seq(StatSet) /\ Len(c) \in Nat /\ Len(c) >= 1
      /\ c[1] = Youngest /\ Youngest # None
      /\ \A i \in 1 .. Len(c) : StatSound(c[i]) /\ c[i] \in StatSet
      /\ \A i \in 1 .. Len(c) - 1 : c[i + 1].pid = c[i].parent
      /\ \A i, j \in 1 .. Len(c) : c[i].pid = c[j].pid => i = j
      /\ scanner.marker \in 0 .. Len(c) /\ scanner.marker # 1
      /\ scanner.marker # 0 => \E table \in seen : LauncherIn(table)
  BY <1>1, <1>2, ChainKnown
<1>5. CASE Identity(k.pid) = None
  <2>1. scanner' = [scanner EXCEPT !.step = "protocol"]
    BY <1>2, <1>5 DEF ReadIdentity
  <2>2. seen # {procs}
    <3> SUFFICES ASSUME seen = {procs} PROVE FALSE
      OBVIOUS
    <3>1. Shown(procs, k)
      BY <1>1, <1>2, Probing DEF QuietProbe, QuietChain
    <3>2. k.pid \in DOMAIN procs /\ Lives(k.pid)
      BY <1>3, <3>1 DEF Shown, Lives, StatSound, Sighted
    <3>3. procs[k.pid].program # None
      BY <1>1, <3>2, Probing DEF Tree
    <3> QED BY <1>5, <3>2, <3>3 DEF Identity
  <2> QED BY <1>1, <2>1, <2>2, NotExcluded
<1>6. CASE Identity(k.pid) # None
  <2>0. k.pid \in DOMAIN procs /\ Lives(k.pid) /\ Identity(k.pid) = procs[k.pid].program
    BY <1>6 DEF Identity
  <2>1. PICK d, m : d = Append(c, k) /\ m = (IF scanner.marker = 0 /\ Identity(k.pid) \in Launchers
                                            THEN Len(c) + 1 ELSE scanner.marker)
    OBVIOUS
  <2>2. /\ d \in Seq(StatSet) /\ Len(d) = Len(c) + 1 /\ d[Len(c) + 1] = k
        /\ \A i \in 1 .. Len(c) : d[i] = c[i]
    BY <1>3, <1>4, <2>1
  <2>3. scanner' = [scanner EXCEPT !.step = "parent", !.chain = d, !.marker = m]
    BY <1>2, <1>6, <2>1, <2>2 DEF ReadIdentity
  <2>4. /\ DOMAIN scanner' = ScannerFields /\ scanner'.step = "parent"
        /\ scanner'.phase = scanner.phase /\ scanner'.todo = scanner.todo
        /\ scanner'.wanted = scanner.wanted /\ scanner'.at = scanner.at
        /\ scanner'.before = scanner.before /\ scanner'.files = scanner.files
        /\ scanner'.auth = scanner.auth /\ scanner'.chain = d
        /\ scanner'.marker = m /\ scanner'.verified = 0
    BY <1>1, <2>3 DEF ScannerFields
  <2>5. ProbeSound'
    BY <1>1, <2>4, ProbeGoesOn
  <2>6. \A i \in 1 .. Len(d) : StatSound(d[i])'
    <3>1. \A i \in 1 .. Len(d) : StatSound(d[i])
      BY <1>3, <1>4, <2>2
    <3> QED BY <3>1, ScanStands
  <2>7. /\ \A i \in 1 .. Len(d) - 1 : d[i + 1].pid = d[i].parent
        /\ \A i, j \in 1 .. Len(d) : d[i].pid = d[j].pid => i = j
    <3>1. \A i \in 1 .. Len(d) : i \in 1 .. Len(c) \/ i = Len(c) + 1
      BY <1>4, <2>2
    <3>2. ASSUME NEW i \in 1 .. Len(d) - 1 PROVE d[i + 1].pid = d[i].parent
      <4>1. i \in 1 .. Len(c) /\ d[i] = c[i] /\ i + 1 \in 1 .. Len(d)
        BY <1>4, <2>2
      <4>2. CASE i = Len(c)
        BY <1>3, <2>2, <4>1, <4>2
      <4>3. CASE i # Len(c)
        <5>1. i \in 1 .. Len(c) - 1 /\ i + 1 \in 1 .. Len(c)
          BY <1>4, <4>1, <4>3
        <5> QED BY <1>4, <2>2, <4>1, <5>1
      <4> QED BY <4>2, <4>3
    <3>3. ASSUME NEW i \in 1 .. Len(d), NEW j \in 1 .. Len(d), d[i].pid = d[j].pid PROVE i = j
      BY <1>3, <1>4, <2>2, <3>1, <3>3
    <3> QED BY <3>2, <3>3
  <2>8. m \in 0 .. Len(d) /\ m # 1
    BY <1>4, <2>1, <2>2
  <2>9. ASSUME m # 0 PROVE \E table \in seen' : LauncherIn(table)'
    <3>1. CASE scanner.marker # 0
      <4>1. PICK table \in seen : LauncherIn(table)
        BY <1>4, <3>1
      <4>2. m = scanner.marker /\ m \in 1 .. Len(c) /\ \A i \in 1 .. m : d[i] = c[i] /\ i \in Nat
        BY <1>4, <2>1, <2>2, <3>1
      <4>3. LauncherIn(table)'
        BY <1>1, <1>2, <2>4, <4>1, <4>2 DEF LauncherIn, Shown
      <4> QED BY <1>1, <4>3
    <3>2. CASE scanner.marker = 0
      <4>1. m = Len(c) + 1 /\ Identity(k.pid) \in Launchers
        BY <2>1, <2>9, <3>2
      <4>2. procs[d[m].pid] # None /\ procs[d[m].pid].program \in Launchers
        BY <2>0, <2>2, <4>1 DEF Lives
      <4>3. \A i \in 1 .. m : ~(i <= 0)
        BY <1>4, <4>1
      <4>4. LauncherIn(procs)'
        BY <1>1, <2>4, <4>2, <4>3 DEF LauncherIn
      <4> QED BY <1>1, <4>4
    <3> QED BY <3>1, <3>2
  <2>10. ChainSound'
    <3>1. d[1] = scanner'.before /\ scanner'.before # None /\ Len(d) >= 1
      BY <1>4, <2>2, <2>4 DEF Youngest
    <3>2. 0 \in 0 .. Len(d)
      BY <1>4, <2>2
    <3> QED BY <2>2, <2>4, <2>6, <2>7, <2>8, <2>9, <3>1, <3>2 DEF ChainSound, Climbs, Youngest
  <2>11. ASSUME seen = {procs} PROVE QuietProbe'
    <3>1. /\ QuietChain /\ Shown(procs, k) /\ k.start < c[Len(c)].start
      BY <1>1, <1>2, <2>11, Probing DEF QuietProbe, QuietChain, Eldest
    <3>2. /\ \A i \in 1 .. Len(c) : Shown(procs, c[i])
          /\ \A i, j \in 1 .. Len(c) : i < j => c[j].start < c[i].start
          /\ scanner.marker = 0 => \A i \in 2 .. Len(c) : procs[c[i].pid].program \notin Launchers
          /\ scanner.marker # 0 => procs[c[scanner.marker].pid].program \in Launchers
      BY <1>2, <3>1 DEF QuietChain
    <3>3. \A i \in 1 .. Len(d) : Shown(procs, d[i])
      BY <1>4, <2>2, <3>1, <3>2
    <3>4. \A i, j \in 1 .. Len(d) : i < j => d[j].start < d[i].start
      <4> SUFFICES ASSUME NEW i \in 1 .. Len(d), NEW j \in 1 .. Len(d), i < j PROVE d[j].start < d[i].start
        OBVIOUS
      <4>1. i \in 1 .. Len(c) /\ d[i] = c[i] /\ c[i].start \in Nat
        <5>1. i \in 1 .. Len(c)
          BY <1>4, <2>2
        <5>2. c[i] \in StatSet
          BY <1>4, <5>1
        <5> QED BY <2>2, <5>1, <5>2 DEF StatSet
      <4>2. CASE j \in 1 .. Len(c)
        BY <2>2, <3>2, <4>1, <4>2
      <4>3. CASE j = Len(c) + 1
        <5>1. c[Len(c)].start <= c[i].start /\ c[Len(c)].start \in Nat
          <6>1. Len(c) \in 1 .. Len(c) /\ (i = Len(c) \/ i < Len(c))
            BY <1>4, <4>1
          <6>2. c[Len(c)].start \in Nat
            BY <1>4, <6>1 DEF StatSet
          <6> QED BY <3>2, <4>1, <6>1, <6>2
        <5>2. k.start \in Nat
          BY <1>3 DEF StatSet
        <5> QED BY <2>2, <3>1, <4>1, <4>3, <5>1, <5>2
      <4> QED BY <1>4, <2>2, <4>2, <4>3
    <3>5. m = 0 => \A i \in 2 .. Len(d) : procs[d[i].pid].program \notin Launchers
      <4> SUFFICES ASSUME m = 0, NEW i \in 2 .. Len(d) PROVE procs[d[i].pid].program \notin Launchers
        OBVIOUS
      <4>1. scanner.marker = 0 /\ procs[k.pid].program \notin Launchers
        BY <1>4, <2>0, <2>1
      <4>2. CASE i \in 2 .. Len(c)
        BY <1>4, <2>2, <3>2, <4>1, <4>2
      <4>3. CASE i = Len(c) + 1
        BY <2>2, <4>1, <4>3
      <4> QED BY <1>4, <2>2, <4>2, <4>3
    <3>6. m # 0 => procs[d[m].pid].program \in Launchers
      <4>1. CASE scanner.marker # 0
        <5>1. m = scanner.marker /\ m \in 1 .. Len(c)
          BY <1>4, <2>1, <4>1
        <5> QED BY <2>2, <3>2, <4>1, <5>1
      <4>2. CASE scanner.marker = 0
        BY <2>0, <2>1, <2>2, <4>2
      <4> QED BY <4>1, <4>2
    <3>7. QuietChain'
      BY <1>1, <2>4, <3>3, <3>4, <3>5, <3>6 DEF QuietChain, Shown
    <3> QED BY <1>1, <2>4, <2>11, <3>7, Probing DEF QuietProbe, Climbs, At, Lives, Youngest, Stat, Fds
  <2> QED BY <1>1, <2>4, <2>5, <2>10, <2>11, LookedOn
<1> QED BY <1>5, <1>6

\* One of the chain is read again.
LEMMA VerifyChainKeeps ==
  ASSUME ScanInv, UNCHANGED tableVars, VerifyChain
  PROVE  ScanInv'
<1>1. /\ scanner.at # None /\ scanner.step = "verify" /\ Climbs
      /\ UNCHANGED <<owners, excluded, candidates>> /\ procs' = procs
      /\ scanner.verified < Len(scanner.chain) /\ DOMAIN scanner = ScannerFields
      /\ scanner.marker # 0
  BY Probing DEF VerifyChain, Stage, tableVars, Climbs, ChainSound
<1>2. scanner.verified \in Nat /\ scanner.verified + 1 \in 1 .. Len(scanner.chain)
  BY <1>1, ChainKnown
<1>3. PICK k : k = scanner.chain[scanner.verified + 1]
  OBVIOUS
<1>4. k \in StatSet /\ StatSound(k) /\ k.pid \in DOMAIN procs
  <2>1. k \in StatSet /\ StatSound(k)
    BY <1>1, <1>2, <1>3, ChainKnown
  <2> QED BY <2>1 DEF StatSound, Sighted
<1>5. CASE Unchanged(scanner.verified + 1)
  <2>1. Shown(procs, k)
    BY <1>3, <1>4, <1>5, StatMatches DEF Unchanged
  <2>2. /\ DOMAIN scanner' = ScannerFields /\ scanner'.step = "verify"
        /\ scanner'.phase = scanner.phase /\ scanner'.todo = scanner.todo
        /\ scanner'.wanted = scanner.wanted /\ scanner'.at = scanner.at
        /\ scanner'.before = scanner.before /\ scanner'.files = scanner.files
        /\ scanner'.auth = scanner.auth /\ scanner'.chain = scanner.chain
        /\ scanner'.marker = scanner.marker /\ scanner'.verified = scanner.verified + 1
    BY <1>1, <1>5 DEF ScannerFields, VerifyChain
  <2>3. ProbeSound'
    BY <1>1, <2>2, ProbeGoesOn
  <2>4. ChainSound'
    <3>1. Climbs'
      BY <2>2 DEF Climbs
    <3>2. scanner'.verified \in 0 .. Len(scanner.chain)
      BY <1>1, <1>2, <2>2, ChainKnown
    <3>3. \A i \in 1 .. scanner.marker : i <= scanner'.verified => i <= scanner.verified \/ Shown(procs, scanner.chain[i])
      <4> SUFFICES ASSUME NEW i \in 1 .. scanner.marker, i <= scanner.verified + 1, ~(i <= scanner.verified)
                   PROVE  Shown(procs, scanner.chain[i])
        BY <2>2
      <4>1. scanner.marker \in Nat
        BY <1>1, ChainKnown
      <4>2. i = scanner.verified + 1
        BY <1>2, <4>1
      <4> QED BY <1>3, <2>1, <4>2
    <3>4. Eldest.parent = 1 /\ Len(scanner.chain) <= MaxAncestryDepth
      BY <1>1, Probing DEF ChainSound
    <3> QED BY <1>1, <2>2, <3>1, <3>2, <3>3, <3>4, ChainGoesOn
  <2>5. seen = {procs} => QuietProbe'
    BY <1>1, <2>2, Probing DEF QuietProbe, QuietChain, Climbs, At, Lives, Youngest, Stat, Fds, Eldest, Shown
  <2> QED BY <1>1, <2>2, <2>3, <2>4, <2>5, LookedOn
<1>6. CASE ~Unchanged(scanner.verified + 1)
  <2>1. scanner' = [scanner EXCEPT !.step = "protocol"]
    BY <1>6 DEF VerifyChain
  <2>2. seen # {procs}
    <3> SUFFICES ASSUME seen = {procs} PROVE FALSE
      OBVIOUS
    <3>1. Shown(procs, k)
      BY <1>1, <1>2, <1>3, Probing DEF QuietProbe, QuietChain
    <3> QED BY <1>3, <1>4, <1>6, <3>1, ShownStat DEF Unchanged
  <2> QED BY <1>1, <2>1, <2>2, NotExcluded
<1> QED BY <1>5, <1>6

\* All of the chain was read again, and a launcher still is one.
LEMMA VerifyLauncherKeeps ==
  ASSUME ScanInv, UNCHANGED tableVars, VerifyLauncher
  PROVE  ScanInv'
<1>1. /\ scanner.at # None /\ scanner.step = "verify" /\ Climbs
      /\ UNCHANGED <<owners, candidates>>
      /\ procs' = procs /\ seen' = seen
      /\ scanner.verified = Len(scanner.chain) /\ DOMAIN scanner = ScannerFields
      /\ scanner.marker # 0
  BY Probing DEF VerifyLauncher, Stage, tableVars, Climbs, ChainSound
<1>2. PICK c, m : c = scanner.chain /\ m = scanner.marker
  OBVIOUS
<1>3. /\ Len(c) \in Nat /\ m \in 2 .. Len(c) /\ m \in Nat /\ m >= 2
      /\ c[1] = Youngest /\ Youngest # None /\ Youngest.pid = At
      /\ \A i \in 1 .. m : c[i] \in StatSet /\ StatSound(c[i])
      /\ \A i \in 1 .. m - 1 : c[i + 1].pid = c[i].parent
      /\ \A i, j \in 1 .. m : c[i].pid = c[j].pid => i = j
  <2>1. m \in 0 .. Len(c) /\ m # 1 /\ m # 0 /\ Len(c) \in Nat
    BY <1>1, <1>2, ChainKnown
  <2>2. m \in 2 .. Len(c) /\ m \in Nat /\ m >= 2 /\ \A i \in 1 .. m : i \in 1 .. Len(c)
    BY <2>1
  <2>3. \A i \in 1 .. m - 1 : i \in 1 .. Len(c) - 1
    BY <2>1
  <2> QED BY <1>1, <1>2, <2>1, <2>2, <2>3, ChainKnown
<1>4. PICK table \in seen : LauncherIn(table)
  BY <1>1, ChainKnown
<1>5. /\ DOMAIN table = DOMAIN procs
      /\ table[c[m].pid].program \in Launchers
      /\ \A i \in 1 .. m : Shown(table, c[i])
  BY <1>1, <1>2, <1>3, <1>4 DEF LauncherIn
<1>6. \A i \in 1 .. m : c[i].pid \in DOMAIN table
  BY <1>3, <1>5 DEF StatSound, Sighted
<1>7. Launched(table, c[1].pid)
  <2>1. IsFiniteSet(DOMAIN table)
    BY <1>1, <1>5, Probing DEF Tree
  <2> QED BY <1>3, <1>5, <1>6, <2>1, WayUp
<1>8. Launched(table, At) /\ Shown(table, Youngest)
  BY <1>3, <1>5, <1>7
<1>9. CASE Identity(scanner.chain[scanner.marker].pid) \in Launchers
  <2>1. excluded' = excluded \cup {[pid |-> At, start |-> Youngest.start]} /\ PassOver
    BY <1>9 DEF VerifyLauncher
  <2>2. OwnersSound'
    BY <1>1, ScanStands DEF ScanInv, OwnersSound, OwnerKnown
  <2>3. WasLaunched([pid |-> At, start |-> Youngest.start])
    BY <1>3, <1>8 DEF WasLaunched, Shown
  <2>4. PICK key : key = [pid |-> At, start |-> Youngest.start]
    OBVIOUS
  <2>5. WasLaunched(key)'
    BY <2>3, <2>4, ScanStands
  <2>6. ToldSound'
    <3>1. excluded' = excluded \cup {key}
      BY <2>1, <2>4
    <3> QED BY <1>1, <2>5, <3>1, ScanStands DEF ScanInv, ToldSound, OwnerKnown
  <2>7. ASSUME seen = {procs} PROVE ~Eligible(At)
    <3>1. /\ Len(c) \in Nat /\ Len(c) >= 1 /\ c[1].pid = At
          /\ \A i \in 1 .. Len(c) - 1 : c[i + 1].pid = c[i].parent
      BY <1>1, <1>2, ChainKnown
    <3>2. c[Len(c)].parent = 1 /\ Len(c) <= MaxAncestryDepth
      BY <1>1, <1>2, Probing DEF ChainSound, Eldest
    <3>3. \A i \in 1 .. Len(c) : Shown(procs, c[i])
      BY <1>1, <1>2, <2>7, Probing DEF QuietProbe, QuietChain
    <3>4. ~Far(procs, At)
      BY <1>1, <3>1, <3>2, <3>3, Probing, NotFar
    <3>5. Launched(procs, At)
      BY <1>8, <2>7
    <3> QED BY <3>4, <3>5 DEF Eligible
  <2>8. UNCHANGED owners
    BY <1>1
  <2>9. seen = {procs} =>
          DOMAIN owners' = DOMAIN owners \cup (IF Eligible(At) THEN Fds(At) \cap scanner.wanted ELSE {})
    BY <2>7, <2>8
  <2> QED BY <1>1, <2>1, <2>2, <2>6, <2>9, LookedAway
<1>10. CASE Identity(scanner.chain[scanner.marker].pid) \notin Launchers
  <2>1. scanner' = [scanner EXCEPT !.step = "protocol"] /\ UNCHANGED <<owners, excluded, candidates>>
    BY <1>1, <1>10 DEF VerifyLauncher, Advance
  <2>2. seen # {procs}
    <3> SUFFICES ASSUME seen = {procs} PROVE FALSE
      OBVIOUS
    <3>1. procs[c[m].pid].program \in Launchers
      BY <1>1, <1>2, Probing DEF QuietProbe, QuietChain
    <3>2. table = procs
      OBVIOUS
    <3>3. m \in 1 .. m
      BY <1>3
    <3>4. c[m].pid \in DOMAIN procs /\ procs[c[m].pid] # None
      BY <1>5, <1>6, <3>2, <3>3 DEF Shown
    <3> QED BY <1>2, <1>10, <3>1, <3>4 DEF Identity, Lives
  <2> QED BY <1>1, <2>1, <2>2, NotExcluded
<1> QED BY <1>9, <1>10

-----------------------------------------------------------------------------
(* The protocol, the credentials and the end.                              *)

LEMMA ReadProtocolKeeps ==
  ASSUME ScanInv, UNCHANGED tableVars, ReadProtocol
  PROVE  ScanInv'
<1>1. /\ scanner.at # None /\ scanner.step = "protocol" /\ DOMAIN scanner = ScannerFields
      /\ UNCHANGED <<owners, excluded, candidates>>
      /\ procs' = procs /\ procs \in seen /\ At \in DOMAIN procs
  BY Probing DEF ReadProtocol, Stage, tableVars
<1>2. PICK k : k = Youngest
  OBVIOUS
<1>3. /\ k # None => StatSound(k) /\ k.pid = At
      /\ k # None /\ Matches(k) => \A s \in scanner.files : WasListening(k, s)
      /\ scanner.auth = None
  BY <1>1, <1>2, Probing DEF ProbeSound
<1>4. /\ k # None => StatSound(k)'
      /\ k # None /\ Matches(k)' => \A s \in scanner.files : WasListening(k, s)'
  BY <1>3, ScanStands
<1>5. PICK b : b = IF Identity(At) \in Stdio THEN "credentials" ELSE "own"
  OBVIOUS
<1>6. /\ DOMAIN scanner' = ScannerFields /\ scanner'.step = b
      /\ scanner'.phase = scanner.phase /\ scanner'.todo = scanner.todo
      /\ scanner'.wanted = scanner.wanted /\ scanner'.at = scanner.at
      /\ scanner'.before = scanner.before /\ scanner'.files = scanner.files
      /\ scanner'.auth = scanner.auth
  BY <1>1, <1>5 DEF ReadProtocol, ScannerFields
<1>7. b = "credentials" => Lives(At) /\ procs[At].program \in Stdio
  BY <1>1, <1>5, ScanAssumption DEF Identity
<1>8. b = "own" => ~(Lives(At) /\ procs[At].program \in Stdio)
  BY <1>1, <1>5 DEF Identity
<1>9. b = "credentials" /\ k # None /\ Matches(k) => WasStdio(k)
  BY <1>1, <1>3, <1>7 DEF WasStdio, Matches, Lives
<1>10. b = "credentials" /\ k # None /\ Matches(k)' => WasStdio(k)'
  BY <1>9, ScanStands
<1>11. b \in {"credentials", "own"}
  BY <1>5
<1>12. ProbeSound'
  BY <1>1, <1>2, <1>3, <1>4, <1>6, <1>10, <1>11, Probing DEF ProbeSound, Youngest, At
<1>13. ChainSound'
  BY <1>6, <1>11 DEF ChainSound, Climbs
<1>14. seen = {procs} => QuietProbe'
  BY <1>1, <1>6, <1>7, <1>8, <1>11, Probing DEF QuietProbe, Climbs, At, Lives, Youngest, Stat, Fds
<1> QED BY <1>1, <1>6, <1>12, <1>13, <1>14, LookedOn

LEMMA ReadCredentialsKeeps ==
  ASSUME ScanInv, UNCHANGED tableVars, ReadCredentials
  PROVE  ScanInv'
<1>1. /\ scanner.at # None /\ scanner.step = "credentials" /\ DOMAIN scanner = ScannerFields
      /\ UNCHANGED <<owners, excluded, candidates>>
      /\ procs' = procs /\ procs \in seen /\ At \in DOMAIN procs
  BY Probing DEF ReadCredentials, Stage, tableVars
<1>2. CASE Identity(At) \in Passwords
  <2>1. Lives(At) /\ procs[At].program \in Passwords
    BY <1>1, <1>2, ScanAssumption DEF Identity
  <2>2. PICK k, a : k = Youngest /\ a = KeyOf(At)
    OBVIOUS
  <2>3. Sighted(a) /\ a.pid = At /\ a.start = procs[At].start /\ a = [pid |-> At, start |-> procs[At].start]
    BY <1>1, <2>1, <2>2, Probing, KeySighted DEF KeyOf
  <2>4. /\ k # None => StatSound(k) /\ k.pid = At
        /\ k # None /\ Matches(k) => \A s \in scanner.files : WasListening(k, s)
        /\ k # None /\ Matches(k) => WasStdio(k)
    BY <1>1, <2>2, Probing DEF ProbeSound
  <2>5. /\ k # None => StatSound(k)'
        /\ k # None /\ Matches(k)' => \A s \in scanner.files : WasListening(k, s)'
        /\ k # None /\ Matches(k)' => WasStdio(k)'
        /\ Sighted(a)'
    BY <2>3, <2>4, ScanStands
  <2>6. k # None => k.start <= a.start
    BY <2>1, <2>3, <2>4 DEF StatSound, Sighted
  <2>7. /\ DOMAIN scanner' = ScannerFields /\ scanner'.step = "confirm"
        /\ scanner'.phase = scanner.phase /\ scanner'.todo = scanner.todo
        /\ scanner'.wanted = scanner.wanted /\ scanner'.at = scanner.at
        /\ scanner'.before = scanner.before /\ scanner'.files = scanner.files
        /\ scanner'.auth = a
    BY <1>1, <1>2, <2>3 DEF ReadCredentials, ScannerFields
  <2>8. ProbeSound'
    BY <1>1, <2>2, <2>3, <2>4, <2>5, <2>6, <2>7, Probing DEF ProbeSound, Youngest, At
  <2>9. ChainSound'
    BY <2>7 DEF ChainSound, Climbs
  <2>10. seen = {procs} => QuietProbe'
    BY <1>1, <2>1, <2>7, Probing DEF QuietProbe, Climbs, At, Lives, Youngest, Stat, Fds
  <2> QED BY <1>1, <2>7, <2>8, <2>9, <2>10, LookedOn
<1>3. CASE Identity(At) \notin Passwords
  <2>1. PassOver
    BY <1>3 DEF ReadCredentials
  <2>2. seen = {procs} => ~Eligible(At)
    BY <1>1, <1>3, Probing DEF QuietProbe, Eligible, Identity
  <2> QED BY <1>1, <2>1, <2>2, PassesOver
<1> QED BY <1>2, <1>3

LEMMA ConfirmServerKeeps ==
  ASSUME ScanInv, UNCHANGED tableVars, ConfirmServer
  PROVE  ScanInv'
<1>1. /\ scanner.at # None /\ scanner.step = "confirm" /\ DOMAIN scanner = ScannerFields
      /\ UNCHANGED <<owners, excluded, candidates>>
      /\ procs' = procs /\ procs \in seen /\ At \in DOMAIN procs
  BY Probing DEF ConfirmServer, Stage, tableVars
<1>2. CASE SameServer
  <2>1. PICK k, a : k = Youngest /\ a = scanner.auth
    OBVIOUS
  <2>2. /\ k # None /\ StatSound(k) /\ k.pid = At /\ Stat(At) = k
        /\ Matches(k) => \A s \in scanner.files : WasListening(k, s)
        /\ Matches(k) => WasStdio(k)
        /\ a.pid = At /\ Sighted(a) /\ k.start <= a.start
    BY <1>1, <1>2, <2>1, Probing DEF ProbeSound, SameServer
  <2>3. Shown(procs, k) /\ Matches(k) /\ Lives(At) /\ k \in StatSet
    BY <2>2, StatMatches DEF StatSound
  <2>4. a.start = k.start
    <3>1. a.start <= procs[At].start /\ a.start \in 0 .. 3 + changes /\ procs[At].start = k.start
      BY <2>2, <2>3 DEF Sighted, Shown
    <3>2. a.start \in Nat /\ k.start \in Nat
      BY <1>1, <2>3, <3>1, Probing DEF TableSound, StatSet
    <3> QED BY <2>2, <3>1, <3>2
  <2>5. WasStdio(a) /\ \A s \in scanner.files : WasListening(a, s)
    BY <2>2, <2>3, <2>4 DEF WasStdio, WasListening
  <2>6. /\ StatSound(k)' /\ WasStdio(a)'
        /\ Matches(k)' => \A s \in scanner.files : WasListening(k, s)'
        /\ \A s \in scanner.files : WasListening(a, s)'
    BY <2>2, <2>5, ScanStands
  <2>7. /\ DOMAIN scanner' = ScannerFields /\ scanner'.step = "own"
        /\ scanner'.phase = scanner.phase /\ scanner'.todo = scanner.todo
        /\ scanner'.wanted = scanner.wanted /\ scanner'.at = scanner.at
        /\ scanner'.before = scanner.before /\ scanner'.files = scanner.files
        /\ scanner'.auth = a
    BY <1>1, <1>2, <2>1 DEF ConfirmServer, Advance, ScannerFields
  <2>8. ProbeSound'
    BY <1>1, <2>1, <2>2, <2>6, <2>7, Probing DEF ProbeSound, Youngest, At
  <2>9. ChainSound'
    BY <2>7 DEF ChainSound, Climbs
  <2>10. seen = {procs} => QuietProbe'
    BY <1>1, <2>7, Probing DEF QuietProbe, Climbs, At, Lives, Youngest, Stat, Fds
  <2> QED BY <1>1, <2>7, <2>8, <2>9, <2>10, LookedOn
<1>3. CASE ~SameServer
  <2>1. PassOver
    BY <1>3 DEF ConfirmServer
  <2>2. seen # {procs}
    <3> SUFFICES ASSUME seen = {procs} PROVE FALSE
      OBVIOUS
    <3>1. Lives(At) /\ Youngest = Stat(At)
      BY <1>1, Probing DEF QuietProbe
    <3> QED BY <1>1, <1>3, <3>1, Probing, StatShows DEF SameServer
  <2> QED BY <1>1, <2>1, <2>2, PassesOver
<1> QED BY <1>2, <1>3

LEMMA OwnKeeps ==
  ASSUME ScanInv, UNCHANGED tableVars, Own
  PROVE  ScanInv'
<1>1. /\ scanner.at # None /\ scanner.step = "own" /\ PassOver
      /\ UNCHANGED <<excluded, candidates>>
      /\ procs' = procs /\ seen' = seen /\ At \in DOMAIN procs
      /\ owners' = [s \in DOMAIN owners \cup scanner.files |->
                      (IF s \in DOMAIN owners THEN owners[s] ELSE {})
                      \cup (IF s \in scanner.files THEN {Owner} ELSE {})]
  BY Probing DEF Own, Stage, tableVars
<1>2. PICK o : o = Owner
  OBVIOUS
<1>3. o.pid \in DOMAIN procs /\ \A s \in scanner.files : OwnerKnown(o, s)
  <2>1. o.pid = At /\ o.auth = scanner.auth
    BY <1>2 DEF Owner
  <2>2. scanner.auth # None =>
          /\ scanner.auth.pid = At /\ WasStdio(scanner.auth)
          /\ \A s \in scanner.files : WasListening(scanner.auth, s)
    BY <1>1, Probing DEF ProbeSound, At
  <2> QED BY <1>1, <2>1, <2>2 DEF OwnerKnown
<1>4. \A s \in scanner.files : OwnerKnown(o, s)'
  BY <1>3, ScanStands DEF OwnerKnown
<1>5. OwnersSound'
  <2>1. ASSUME NEW s \in DOMAIN owners'
        PROVE  /\ owners'[s] # {}
               /\ \A q \in owners'[s] : \/ s \in DOMAIN owners /\ q \in owners[s]
                                        \/ s \in scanner.files /\ q = o
    <3>1. s \in DOMAIN owners => owners[s] # {}
      BY DEF ScanInv, OwnersSound
    <3> QED BY <1>1, <1>2, <3>1
  <2>2. ASSUME NEW s \in DOMAIN owners, NEW q \in owners[s]
        PROVE  q.pid \in DOMAIN procs /\ OwnerKnown(q, s)'
    BY ScanStands DEF ScanInv, OwnersSound, OwnerKnown
  <2>3. ASSUME NEW s \in DOMAIN owners', NEW q \in owners'[s]
        PROVE  q.pid \in DOMAIN procs' /\ OwnerKnown(q, s)'
    <3>1. CASE s \in DOMAIN owners /\ q \in owners[s]
      BY <1>1, <2>2, <3>1
    <3>2. CASE s \in scanner.files /\ q = o
      <4>1. OwnerKnown(o, s)'
        BY <1>4, <3>2
      <4>2. OwnerKnown(q, s)'
        BY <3>2, <4>1
      <4> QED BY <1>1, <1>3, <3>2, <4>2
    <3> QED BY <2>1, <3>1, <3>2
  <2> QED BY <2>1, <2>3 DEF OwnersSound
<1>6. ToldSound'
  BY <1>1, ScanStands DEF ScanInv, ToldSound, OwnerKnown
<1>7. seen = {procs} =>
        DOMAIN owners' = DOMAIN owners \cup (IF Eligible(At) THEN Fds(At) \cap scanner.wanted ELSE {})
  BY <1>1, Probing DEF QuietProbe, Eligible
<1> QED BY <1>1, <1>5, <1>6, <1>7, LookedAway

\* Of the owners of a socket the one with the lowest ID is one of them.
LEMMA LowestOwner ==
  ASSUME ScanInv, NEW s \in DOMAIN owners
  PROVE  (CHOOSE o \in owners[s] : \A q \in owners[s] : o.pid <= q.pid) \in owners[s]
<1>1. /\ owners[s] # {} /\ \A o \in owners[s] : o.pid \in Nat
  BY DEF ScanInv, OwnersSound, Tree
<1> DEFINE T == {o.pid : o \in owners[s]}
<1>2. PICK n \in T : \A k \in T : n <= k
  <2>1. T \in SUBSET Nat /\ T # {}
    BY <1>1
  <2> QED BY <2>1, NatMin
<1>3. \E o \in owners[s] : \A q \in owners[s] : o.pid <= q.pid
  BY <1>2
<1> QED BY <1>3

LEMMA EndListingKeeps ==
  ASSUME ScanInv, UNCHANGED tableVars, EndListing
  PROVE  ScanInv'
<1>1. /\ scanner.phase = "scan" /\ scanner.todo = {}
      /\ UNCHANGED <<owners, excluded>>
      /\ procs' = procs /\ seen' = seen
      /\ scanner' = Inspecting("ended", {}, {})
      /\ candidates' =
           {[socket |-> s, owner |-> CHOOSE o \in owners[s] : \A q \in owners[s] : o.pid <= q.pid] :
              s \in DOMAIN owners}
  BY DEF EndListing, tableVars
<1>2. TableSound' /\ Tree'
  BY ScanStands DEF ScanInv
<1>3. /\ scanner'.phase = "ended" /\ scanner'.todo = {} /\ scanner'.at = None /\ scanner'.wanted = {}
      /\ DOMAIN scanner' = ScannerFields
  BY <1>1 DEF Inspecting, ScannerFields
<1>4. ScannerSound'
  BY <1>1, <1>3 DEF ScannerSound
<1>5. OwnersSound'
  BY <1>1, ScanStands DEF ScanInv, OwnersSound, OwnerKnown
<1>6. \A c \in candidates' : c.socket \in DOMAIN owners /\ c.owner \in owners[c.socket]
  BY <1>1, LowestOwner
<1>7. ToldSound'
  <2>1. \A c \in candidates' : OwnerKnown(c.owner, c.socket)
    BY <1>6 DEF ScanInv, OwnersSound
  <2>2. \A o, s : OwnerKnown(o, s) => OwnerKnown(o, s)'
    BY ScanStands DEF OwnerKnown
  <2>3. \A key \in excluded' : WasLaunched(key)'
    BY <1>1, ScanStands DEF ScanInv, ToldSound
  <2> QED BY <2>1, <2>2, <2>3 DEF ToldSound
<1>8. QuietSound'
  <2> SUFFICES ASSUME seen = {procs}
               PROVE  {c.socket : c \in candidates'} =
                        (Listening \ Outward) \cap UNION {Fds(q)' : q \in {p \in DOMAIN procs' : Eligible(p)'}}
    BY <1>1, <1>3 DEF QuietSound
  <2>1. /\ scanner.wanted = ListenerTable
        /\ DOMAIN owners =
             scanner.wanted \cap UNION {Fds(q) : q \in {p \in DOMAIN procs \ scanner.todo : Eligible(p)}}
    BY <1>1 DEF ScanInv, QuietSound
  <2>2. \A s : s \in DOMAIN owners <=>
                 s \in Listening /\ s \notin Outward /\ \E q \in DOMAIN procs : Eligible(q) /\ s \in Fds(q)
    BY <1>1, <2>1 DEF ListenerTable, Listeners
  <2>3. \A q : (Eligible(q) <=> Eligible(q)') /\ Fds(q)' = Fds(q)
    BY <1>1, ScanStands DEF Fds, Lives
  <2>4. {c.socket : c \in candidates'} = DOMAIN owners
    <3> DEFINE lowest == [s \in DOMAIN owners |->
                            CHOOSE o \in owners[s] : \A q \in owners[s] : o.pid <= q.pid]
    <3>1. candidates' = {[socket |-> s, owner |-> lowest[s]] : s \in DOMAIN owners}
      BY <1>1
    <3> HIDE DEF lowest
    <3>2. ASSUME NEW s \in DOMAIN owners PROVE \E c \in candidates' : c.socket = s
      <4>1. [socket |-> s, owner |-> lowest[s]] \in candidates'
        BY <3>1
      <4> QED BY <4>1
    <3>3. ASSUME NEW c \in candidates' PROVE c.socket \in DOMAIN owners
      BY <3>1
    <3> QED BY <3>2, <3>3
  <2>5. \A s : s \in DOMAIN owners <=>
                 s \in Listening /\ s \notin Outward /\ \E q \in DOMAIN procs' : Eligible(q)' /\ s \in Fds(q)'
    BY <1>1, <2>2, <2>3
  <2> QED BY <2>4, <2>5
<1> QED BY <1>2, <1>4, <1>5, <1>7, <1>8 DEF ScanInv

LEMMA BeginListingKeeps ==
  ASSUME ScanInv, UNCHANGED <<procs, changes>>, BeginListing
  PROVE  ScanInv'
<1>1. /\ procs' = procs /\ changes' = changes /\ seen' = {procs}
      /\ scanner' = Inspecting("scan", DOMAIN procs, ListenerTable)
      /\ owners' = Nothing /\ excluded' = {} /\ candidates' = {}
  BY DEF BeginListing, Look
<1>2. TableSound' /\ Tree'
  BY <1>1 DEF ScanInv, TableSound, Tree, Lives
<1>3. /\ scanner'.phase = "scan" /\ scanner'.todo = DOMAIN procs /\ scanner'.at = None
      /\ scanner'.wanted = ListenerTable /\ DOMAIN scanner' = ScannerFields
  BY <1>1 DEF Inspecting, ScannerFields
<1>4. ScannerSound'
  BY <1>1, <1>3 DEF ScannerSound
<1>5. DOMAIN owners' = {}
  BY <1>1 DEF Nothing
<1>6. OwnersSound' /\ ToldSound'
  BY <1>1, <1>5 DEF OwnersSound, ToldSound
<1>7. QuietSound'
  <2>1. ListenerTable' = ListenerTable
    BY <1>1 DEF ListenerTable, Listeners, Fds, Lives
  <2> QED BY <1>1, <1>3, <1>5, <2>1 DEF QuietSound
<1> QED BY <1>2, <1>4, <1>6, <1>7 DEF ScanInv

\* Every step of a scan keeps what is known.
LEMMA ScanStepKeeps == ASSUME ScanInv, ScanStep PROVE ScanInv'
<1>1. CASE /\ \/ \E p \in DOMAIN procs : Inspect(p)
              \/ LooksLikely \/ StatBefore \/ MatchFiles
              \/ BeginAncestry \/ ReadParent \/ ReadIdentity \/ VerifyChain \/ VerifyLauncher
              \/ ReadProtocol \/ ReadCredentials \/ ConfirmServer \/ Own \/ EndListing
           /\ UNCHANGED tableVars
  BY <1>1, InspectKeeps, LooksLikelyKeeps, StatBeforeKeeps, MatchFilesKeeps, BeginAncestryKeeps,
     ReadParentKeeps, ReadIdentityKeeps, VerifyChainKeeps, VerifyLauncherKeeps, ReadProtocolKeeps,
     ReadCredentialsKeeps, ConfirmServerKeeps, OwnKeeps, EndListingKeeps
<1>2. CASE BeginListing /\ UNCHANGED <<procs, changes>>
  BY <1>2, BeginListingKeeps
<1> QED BY <1>1, <1>2 DEF ScanStep

-----------------------------------------------------------------------------
(* The processes go on between two looks.                                  *)

LEMMA WorldKeepsScan ==
  ASSUME ScanInv, TreeTurns \/ UNCHANGED tableVars, UNCHANGED scanVars
  PROVE  ScanInv'
<1>1. /\ scanner' = scanner /\ owners' = owners /\ excluded' = excluded /\ candidates' = candidates
      /\ seen \subseteq seen' /\ DOMAIN procs' = DOMAIN procs /\ TableSound /\ procs \in seen
      /\ TreeTurns => Turns
  BY DEF scanVars, TreeTurns, Turns, ScanInv, tableVars, TableSound
<1>2. TableSound' /\ Tree'
  BY <1>1, TurnsSound, ScanStands DEF TreeTurns, ScanInv
<1>3. \A k : StatSound(k) => /\ StatSound(k)' /\ (Shown(procs', k) => Shown(procs, k))
                             /\ (Matches(k)' => Matches(k))
  <2>1. CASE TreeTurns
    BY <1>1, <2>1, ShownBefore
  <2>2. CASE UNCHANGED tableVars
    BY <2>2, ScanStands DEF tableVars
  <2> QED BY <2>1, <2>2
<1>4. \A k : Sighted(k) => Sighted(k)'
  BY <1>1, TurnsSighted, ScanStands
<1>5. /\ \A k, s : WasListening(k, s) => WasListening(k, s)'
      /\ \A k : WasStdio(k) => WasStdio(k)'
      /\ \A k : WasLaunched(k) => WasLaunched(k)'
  BY <1>1 DEF WasListening, WasStdio, WasLaunched
<1>6. \A o, s : OwnerKnown(o, s) => OwnerKnown(o, s)'
  BY <1>5 DEF OwnerKnown
<1>7. ASSUME scanner.at # None PROVE ProbeSound' /\ ChainSound'
  <2>1. ProbeSound /\ ChainSound
    BY <1>7, Probing
  <2>2. PICK k, a, d : k = scanner.before /\ a = scanner.auth /\ d = scanner.parent
    OBVIOUS
  <2>3. ProbeSound'
    BY <1>1, <1>3, <1>4, <1>5, <2>1, <2>2 DEF ProbeSound, Youngest, At
  <2>4. ASSUME Climbs PROVE ChainSound'
    <3>1. PICK c : c = scanner.chain
      OBVIOUS
    <3>2. \A i \in 1 .. Len(c) : StatSound(c[i])' /\ (Shown(procs', c[i]) => Shown(procs, c[i]))
      BY <1>3, <1>7, <2>4, <3>1, ChainKnown
    <3>3. ASSUME scanner.marker # 0 PROVE \E table \in seen' : LauncherIn(table)'
      <4>1. PICK table \in seen : LauncherIn(table)
        BY <1>7, <2>4, <3>3, ChainKnown
      <4>2. \A i \in 1 .. scanner.marker : i \in 1 .. Len(c)
        BY <1>7, <2>4, <3>1, ChainKnown
      <4>3. LauncherIn(table)'
        BY <1>1, <3>1, <3>2, <4>1, <4>2 DEF LauncherIn
      <4> QED BY <1>1, <4>1, <4>3
    <3>4. scanner.step = "identity" => StatSound(d)'
      BY <1>3, <2>1, <2>2 DEF ChainSound
    <3> QED BY <1>1, <2>1, <2>2, <2>4, <3>1, <3>2, <3>3, <3>4 DEF ChainSound, Climbs, Youngest, Eldest
  <2>5. ASSUME ~Climbs PROVE ChainSound'
    BY <1>1, <2>1, <2>5 DEF ChainSound, Climbs
  <2> QED BY <2>3, <2>4, <2>5
<1>8. ScannerSound'
  BY <1>1, <1>7 DEF ScanInv, ScannerSound
<1>9. OwnersSound'
  BY <1>1, <1>6 DEF ScanInv, OwnersSound
<1>10. ToldSound'
  BY <1>1, <1>5, <1>6 DEF ScanInv, ToldSound
<1>11. ASSUME seen' = {procs'} PROVE QuietSound'
  <2>1. procs' = procs /\ seen = {procs}
    BY <1>1, <1>11
  <2>2. QuietSound
    BY DEF ScanInv
  <2>3. ListenerTable' = ListenerTable /\ \A q : Fds(q)' = Fds(q) /\ (Eligible(q) <=> Eligible(q)')
    BY <2>1 DEF ListenerTable, Listeners, Fds, Lives, Eligible
  <2>4. /\ UNION {Fds(q) : q \in {p \in DOMAIN procs \ scanner.todo : Eligible(p)}}
           = UNION {Fds(q)' : q \in {p \in DOMAIN procs' \ scanner'.todo : Eligible(p)'}}
        /\ UNION {Fds(q) : q \in {p \in DOMAIN procs : Eligible(p)}}
           = UNION {Fds(q)' : q \in {p \in DOMAIN procs' : Eligible(p)'}}
    BY <1>1, <2>3
  <2>5. QuietProbe => QuietProbe'
    BY <1>1, <2>1 DEF QuietProbe, QuietChain, Climbs, At, Lives, Youngest, Eldest, Stat, Fds, Shown
  <2> QED BY <1>1, <2>1, <2>2, <2>3, <2>4, <2>5 DEF QuietSound
<1>12. QuietSound'
  BY <1>11 DEF QuietSound
<1> QED BY <1>2, <1>8, <1>9, <1>10, <1>12 DEF ScanInv

-----------------------------------------------------------------------------
(* Any scan.                                                               *)

ScanBegin == TableSound /\ Tree /\ ScanInit

ScanNext == ScanStep \/ (TreeTurns /\ UNCHANGED scanVars)

ScanSpec == ScanBegin /\ [][ScanNext]_<<tableVars, scanVars>>

\* A scan begins with the invariant.
LEMMA ScanBegun == ASSUME ScanBegin PROVE ScanInv
<1>1. /\ scanner = Inspecting("idle", {}, {})
      /\ owners = Nothing /\ excluded = {} /\ candidates = {} /\ TableSound /\ Tree
  BY DEF ScanBegin, ScanInit
<1>2. /\ scanner.phase = "idle" /\ scanner.todo = {} /\ scanner.at = None /\ scanner.wanted = {}
      /\ DOMAIN scanner = ScannerFields
  BY <1>1 DEF Inspecting, ScannerFields
<1>3. ScannerSound
  BY <1>1, <1>2 DEF ScannerSound
<1>4. DOMAIN owners = {}
  BY <1>1 DEF Nothing
<1>5. OwnersSound /\ ToldSound
  BY <1>1, <1>4 DEF OwnersSound, ToldSound
<1>6. QuietSound
  BY <1>2 DEF QuietSound
<1> QED BY <1>1, <1>3, <1>5, <1>6 DEF ScanInv

\* And every step keeps it.
LEMMA ScanKeeps == ASSUME ScanInv, [ScanNext]_<<tableVars, scanVars>> PROVE ScanInv'
<1>1. CASE UNCHANGED <<tableVars, scanVars>>
  <2>1. UNCHANGED tableVars /\ UNCHANGED scanVars
    BY <1>1
  <2> QED BY <2>1, WorldKeepsScan
<1> QED BY <1>1, ScanStepKeeps, WorldKeepsScan DEF ScanNext

\* Whatever the processes do between two looks of the scan, as long as every
\* parent is older than its children: a password goes with a socket of the very
\* process it was read from, nothing is excluded that no launcher was above,
\* and while nothing changes exactly the eligible servers are found: those of
\* likely processes with no launcher above them, or with more processes up to
\* init than the walk goes through (MaxAncestryDepth).
THEOREM ScansStaySound == ScanSpec => []ScanSound
<1>1. ScanBegin => ScanInv
  BY ScanBegun
<1>2. ScanInv /\ [ScanNext]_<<tableVars, scanVars>> => ScanInv'
  BY ScanKeeps
<1>3. ScanInv => ScanSound
  BY ScansHold
<1> QED BY <1>1, <1>2, <1>3, PTL DEF ScanSpec

-----------------------------------------------------------------------------
(* The small instance is one of them.                                      *)

\* Every process is one of those of the small instance.
ScanTyped ==
  /\ DOMAIN procs \in {{2, 3, 4}, {2, 3, 4, 5}}
  /\ \A q \in DOMAIN procs : procs[q] \in {None} \cup ScanProcesses

\* A behavior about procfs keeps to this; in any other nothing is scanned.
ScanSide ==
  IF part = "procfs" THEN ScanInv /\ ScanTyped
  ELSE candidates = {} /\ excluded = {} /\ scanner.phase = "idle"

\* The fields of a process, and that one that is changed is one still.
LEMMA ProcessTyped ==
  ASSUME NEW r \in ScanProcesses
  PROVE  /\ r # None /\ r.program # None /\ r.program \in ScanPrograms
         /\ r.start \in Nat /\ r.parent \in Nat /\ r.fds \in SUBSET {"k", "l", "o"}
         /\ LET q == [r EXCEPT !.parent = 1]
            IN  q \in ScanProcesses /\ q.program = r.program /\ q.start = r.start /\ q.parent = 1
         /\ \A program \in ScanPrograms :
              LET q == [r EXCEPT !.program = program]
              IN  q \in ScanProcesses /\ q.program = program /\ q.start = r.start /\ q.parent = r.parent
         /\ \A files_ \in SUBSET {"k", "l", "o"} :
              LET q == [r EXCEPT !.fds = files_]
              IN  q \in ScanProcesses /\ q.program = r.program /\ q.start = r.start /\ q.parent = r.parent
BY ScanProcessAssumption DEF ScanProcesses

LEMMA NewTyped ==
  ASSUME NEW program \in ScanPrograms, NEW start \in Nat, NEW parent \in Nat,
         NEW fds \in SUBSET {"k", "l", "o"}
  PROVE  LET q == Process(program, start, parent, fds, None)
         IN  q \in ScanProcesses /\ q.program = program /\ q.start = start /\ q.parent = parent
BY DEF ScanProcesses, Process

\* Processes of the small instance do what they may.
LEMMA ScanWorldTurns ==
  ASSUME TableSound, Tree, ScanTyped, ScanWorld
  PROVE  TreeTurns /\ ScanTyped'
<1>0. PICK p \in DOMAIN procs :
        \/ Ends(p)
        \/ \E parent \in DOMAIN procs : Fork(p, parent, "stdio", None)
        \/ \E program \in {"stdio", "launcher"} : Start(p, program, {}, None) \/ Execute(p, program)
        \/ "l" \in Held /\ OpenSocket(p, "l")
        \/ CloseSocket(p, "l")
  BY DEF ScanWorld
<1>1. Turns
  BY <1>0, ActionsTurn
<1>2. /\ DOMAIN procs \subseteq Nat \ {0, 1} /\ IsFiniteSet(DOMAIN procs) /\ changes \in Nat
      /\ DOMAIN procs' = DOMAIN procs /\ DOMAIN procs \in {{2, 3, 4}, {2, 3, 4, 5}}
  BY <1>1 DEF Tree, TableSound, Turns, ScanTyped
<1>3. \A q \in DOMAIN procs : procs[q] # None =>
        /\ procs[q].start \in 0 .. 3 + changes /\ procs[q] \in ScanProcesses
        /\ \/ procs[q].parent = 1
           \/ /\ procs[q].parent \in DOMAIN procs /\ procs[procs[q].parent] # None
              /\ procs[procs[q].parent].start < procs[q].start
  BY DEF Tree, TableSound, Lives, ScanTyped
\* What is to be shown of a process after the step.
<1> DEFINE Kept(q) == /\ procs'[q] \in {None} \cup ScanProcesses
                      /\ procs'[q] # None =>
                           /\ \/ procs'[q].parent = 1
                              \/ /\ procs'[q].parent \in DOMAIN procs /\ procs'[procs'[q].parent] # None
                                 /\ procs'[procs'[q].parent].start < procs'[q].start
                           /\ procs[q] # None /\ procs'[q].start = procs[q].start
                                => procs'[q].parent \in {procs[q].parent, 1}
<1>4. ASSUME Ends(p)
      PROVE  \A q \in DOMAIN procs : Kept(q)
  <2>1. /\ procs'[p] = None
        /\ \A q \in DOMAIN procs : q # p =>
             procs'[q] = IF procs[q] # None /\ procs[q].parent = p THEN [procs[q] EXCEPT !.parent = 1]
                         ELSE procs[q]
    BY <1>4 DEF Ends, Becomes, Lives
  <2>2. ASSUME NEW q \in DOMAIN procs, q # p, procs[q] # None
        PROVE  /\ procs'[q] \in ScanProcesses /\ procs'[q] # None
               /\ procs'[q].start = procs[q].start
               /\ procs'[q].parent = IF procs[q].parent = p THEN 1 ELSE procs[q].parent
    <3>1. procs[q] \in ScanProcesses
      BY <1>3, <2>2
    <3>2. PICK r : r = [procs[q] EXCEPT !.parent = 1]
      OBVIOUS
    <3>3. r \in ScanProcesses /\ r # None /\ r.start = procs[q].start /\ r.parent = 1
      BY <3>1, <3>2, ProcessTyped
    <3> QED BY <2>1, <2>2, <3>1, <3>2, <3>3
  <2>3. \A q \in DOMAIN procs : q # p /\ procs[q] = None => procs'[q] = None
    BY <2>1
  <2>4. \A q \in DOMAIN procs : Kept(q)
    BY <1>3, <2>1, <2>2, <2>3
  <2> QED BY <2>4
<1>5. ASSUME NEW r \in ScanProcesses, procs' = [procs EXCEPT ![p] = r],
             procs[p] = None, r.start = 4 + changes,
             r.parent = 1 \/ (r.parent \in DOMAIN procs /\ procs[r.parent] # None)
      PROVE  \A q \in DOMAIN procs : Kept(q)
  <2>1. r # None /\ procs'[p] = r /\ \A q \in DOMAIN procs : q # p => procs'[q] = procs[q]
    BY <1>5, ProcessTyped
  <2>2. ASSUME NEW q \in DOMAIN procs, procs[q] # None
        PROVE  procs'[q] # None /\ procs'[q] = procs[q] /\ procs[q].start < r.start
    BY <1>2, <1>3, <1>5, <2>1, <2>2
  <2>3. Kept(p)
    BY <1>5, <2>1, <2>2
  <2>4. ASSUME NEW q \in DOMAIN procs, q # p PROVE Kept(q)
    BY <1>3, <2>1, <2>2, <2>4 DEF ScanTyped
  <2> QED BY <2>3, <2>4
<1>6. ASSUME NEW r \in ScanProcesses, procs' = [procs EXCEPT ![p] = r],
             procs[p] # None, r.start = procs[p].start, r.parent = procs[p].parent
      PROVE  \A q \in DOMAIN procs : Kept(q)
  <2>1. r # None /\ procs'[p] = r /\ \A q \in DOMAIN procs : q # p => procs'[q] = procs[q]
    BY <1>6, ProcessTyped
  <2>2. ASSUME NEW q \in DOMAIN procs, procs[q] # None
        PROVE  procs'[q] # None /\ procs'[q].start = procs[q].start /\ procs'[q].parent = procs[q].parent
    BY <1>6, <2>1, <2>2
  <2> QED BY <1>3, <1>6, <2>1, <2>2 DEF ScanTyped
<1>7. ASSUME \E parent \in DOMAIN procs : Fork(p, parent, "stdio", None)
      PROVE  \A q \in DOMAIN procs : Kept(q)
  <2>1. PICK parent \in DOMAIN procs : Fork(p, parent, "stdio", None)
    BY <1>7
  <2>2. PICK r : r = Process("stdio", NextStart, parent, procs[parent].fds, None)
    OBVIOUS
  <2>3. procs[p] = None /\ procs[parent] # None /\ procs' = [procs EXCEPT ![p] = r]
    BY <2>1, <2>2 DEF Fork, Becomes, Lives
  <2>4. procs[parent].fds \in SUBSET {"k", "l", "o"}
    BY <1>3, <2>3, ProcessTyped
  <2>5. r \in ScanProcesses /\ r.start = 4 + changes /\ r.parent = parent
    <3>1. parent \in Nat /\ 4 + changes \in Nat /\ NextStart = 4 + changes /\ "stdio" \in ScanPrograms
      BY <1>2 DEF NextStart, ScanPrograms
    <3>2. PICK fds : fds = procs[parent].fds
      OBVIOUS
    <3>3. fds \in SUBSET {"k", "l", "o"} /\ r = Process("stdio", NextStart, parent, fds, None)
      BY <2>2, <2>4, <3>2
    <3> HIDE DEF Kept
    <3> QED BY <3>1, <3>3, NewTyped
  <2> QED BY <1>5, <2>3, <2>5
<1>8. ASSUME \E program \in {"stdio", "launcher"} : Start(p, program, {}, None)
      PROVE  \A q \in DOMAIN procs : Kept(q)
  <2>1. PICK program \in {"stdio", "launcher"} : Start(p, program, {}, None)
    BY <1>8
  <2>2. PICK r : r = Process(program, NextStart, 1, {}, None)
    OBVIOUS
  <2>3. procs[p] = None /\ procs' = [procs EXCEPT ![p] = r]
    BY <2>1, <2>2 DEF Start, Becomes, Lives
  <2>4. r \in ScanProcesses /\ r.start = 4 + changes /\ r.parent = 1
    BY <1>2, <2>2, NewTyped DEF NextStart, ScanPrograms
  <2> QED BY <1>5, <2>3, <2>4
<1>9. ASSUME \E program \in {"stdio", "launcher"} : Execute(p, program)
      PROVE  \A q \in DOMAIN procs : Kept(q)
  <2>1. PICK program \in {"stdio", "launcher"} : Execute(p, program)
    BY <1>9
  <2>2. PICK r : r = [procs[p] EXCEPT !.program = program]
    OBVIOUS
  <2>3. procs[p] # None /\ procs' = [procs EXCEPT ![p] = r] /\ program \in ScanPrograms
    BY <2>1, <2>2 DEF Execute, Becomes, Lives, ScanPrograms
  <2>4. r \in ScanProcesses /\ r.start = procs[p].start /\ r.parent = procs[p].parent
    BY <1>3, <2>2, <2>3, ProcessTyped
  <2> QED BY <1>6, <2>3, <2>4
<1>10. ASSUME OpenSocket(p, "l") \/ CloseSocket(p, "l")
      PROVE  \A q \in DOMAIN procs : Kept(q)
  <2>1. PICK kept : kept = IF OpenSocket(p, "l") THEN procs[p].fds \cup {"l"} ELSE procs[p].fds \ {"l"}
    OBVIOUS
  <2>2. PICK r : r = [procs[p] EXCEPT !.fds = kept]
    OBVIOUS
  <2>3. procs[p] # None /\ procs' = [procs EXCEPT ![p] = r]
    BY <1>3, <1>10, <2>1, <2>2 DEF OpenSocket, CloseSocket, Becomes, Lives, Fds
  <2>4. r \in ScanProcesses /\ r.start = procs[p].start /\ r.parent = procs[p].parent
    <3>1. procs[p] \in ScanProcesses
      BY <1>3, <2>3
    <3>2. kept \in SUBSET {"k", "l", "o"}
      BY <2>1, <3>1, ProcessTyped
    <3> QED BY <2>2, <3>1, <3>2, ProcessTyped
  <2> QED BY <1>6, <2>3, <2>4
<1>11. \A q \in DOMAIN procs : Kept(q)
  BY <1>0, <1>4, <1>7, <1>8, <1>9, <1>10
<1> HIDE DEF Kept
<1>12. ScanTyped'
  BY <1>2, <1>11 DEF Kept, ScanTyped
<1>13. \A q \in DOMAIN procs : procs'[q] # None => procs'[q].program # None
  BY <1>11, ProcessTyped DEF Kept
<1>14. Tree'
  BY <1>2, <1>11, <1>13 DEF Kept, Tree, Lives
<1>15. TreeTurns
  BY <1>1, <1>2, <1>11, <1>14 DEF Kept, TreeTurns
<1> QED BY <1>12, <1>15

\* A table of processes that are children of init or of older ones.
LEMMA TableBegins ==
  ASSUME NEW first, TableInit(first), ScanInit,
         DOMAIN first \in {{2, 3, 4}, {2, 3, 4, 5}},
         \A q \in DOMAIN first :
           /\ first[q] \in ScanProcesses /\ first[q].start \in 0 .. 3
           /\ \/ first[q].parent = 1
              \/ /\ first[q].parent \in DOMAIN first
                 /\ first[first[q].parent].start < first[q].start
  PROVE  ScanBegin /\ ScanTyped
<1>1. procs = first /\ changes = 0 /\ seen = {first}
  BY DEF TableInit
<1>2. \A q \in DOMAIN first :
        first[q] # None /\ first[q].program # None /\ DOMAIN first[q] = ProcessFields
  BY ProcessTyped DEF ScanProcesses, ProcessFields
<1>3. ScanTyped
  BY <1>1 DEF ScanTyped
<1>4. TableSound
  BY <1>1, <1>2 DEF TableSound, Lives
<1>5. Tree
  <2>1. IsFiniteSet(DOMAIN first)
    <3>1. PICK a \in Int, b \in Int, d \in Int : a = 2 /\ b = 4 /\ d = 5
      OBVIOUS
    <3>2. {2, 3, 4} = a .. b /\ {2, 3, 4, 5} = a .. d
      BY <3>1
    <3>3. IsFiniteSet(a .. b) /\ IsFiniteSet(a .. d)
      BY FS_Interval
    <3> QED BY <3>2, <3>3
  <2>2. DOMAIN first \subseteq Nat \ {0, 1}
    OBVIOUS
  <2> QED BY <1>1, <1>2, <2>1, <2>2 DEF Tree, Lives
<1> QED BY <1>3, <1>4, <1>5 DEF ScanBegin

\* The tables that a behavior about procfs begins with.
LEMMA ScanTablesSound ==
  ASSUME NEW first \in ScanTables, TableInit(first), ScanInit
  PROVE  ScanBegin /\ ScanTyped
<1>1. \/ \E parent \in {1, 2, 3} :
           first = [p \in {2, 3, 4} |->
                      CASE p = 2 -> Process("launcher", 1, 1, {}, None)
                        [] p = 3 -> Process("other", 2, 2, {}, None)
                        [] p = 4 -> Process("stdio", 3, parent, {"l", "o"}, None)]
      \/ first = [p \in {2, 3, 4} |->
                    CASE p = 2 -> Process("v1server", 1, 1, {"l"}, None)
                      [] p = 3 -> Process("v1server", 2, 2, {"l"}, None)
                      [] p = 4 -> Process("stdio", 3, 3, {"k"}, None)]
      \/ first = [p \in {2, 3, 4, 5} |->
                    CASE p = 2 -> Process("launcher", 0, 1, {}, None)
                      [] p = 3 -> Process("other", 1, 2, {}, None)
                      [] p = 4 -> Process("other", 2, 3, {}, None)
                      [] p = 5 -> Process("stdio", 3, 4, {"l"}, None)]
  BY DEF ScanTables
<1>2. CASE \E parent \in {1, 2, 3} :
             first = [p \in {2, 3, 4} |->
                        CASE p = 2 -> Process("launcher", 1, 1, {}, None)
                          [] p = 3 -> Process("other", 2, 2, {}, None)
                          [] p = 4 -> Process("stdio", 3, parent, {"l", "o"}, None)]
  <2>1. PICK parent \in {1, 2, 3} :
             first = [p \in {2, 3, 4} |->
                        CASE p = 2 -> Process("launcher", 1, 1, {}, None)
                          [] p = 3 -> Process("other", 2, 2, {}, None)
                          [] p = 4 -> Process("stdio", 3, parent, {"l", "o"}, None)]
    BY <1>2
  <2>2. /\ DOMAIN first = {2, 3, 4}
        /\ first[2] = Process("launcher", 1, 1, {}, None)
        /\ first[3] = Process("other", 2, 2, {}, None)
        /\ first[4] = Process("stdio", 3, parent, {"l", "o"}, None)
    BY <2>1
  <2>3. {"l", "o"} \in SUBSET {"k", "l", "o"} /\ {} \in SUBSET {"k", "l", "o"}
        /\ "launcher" \in ScanPrograms /\ "other" \in ScanPrograms /\ "stdio" \in ScanPrograms
    BY DEF ScanPrograms
  <2>5. parent \in Nat /\ parent \in {1, 2, 3}
    BY <2>1
  <2>6. first[4] \in ScanProcesses /\ first[4].start = 3 /\ first[4].parent = parent
    BY <2>2, <2>3, <2>5, NewTyped
  <2>4. /\ first[2] \in ScanProcesses /\ first[2].start = 1 /\ first[2].parent = 1
        /\ first[3] \in ScanProcesses /\ first[3].start = 2 /\ first[3].parent = 2
    BY <2>2, <2>3, NewTyped
  <2> QED BY <2>2, <2>4, <2>5, <2>6, TableBegins
<1>3. CASE first = [p \in {2, 3, 4} |->
                      CASE p = 2 -> Process("v1server", 1, 1, {"l"}, None)
                        [] p = 3 -> Process("v1server", 2, 2, {"l"}, None)
                        [] p = 4 -> Process("stdio", 3, 3, {"k"}, None)]
  <2>1. /\ DOMAIN first = {2, 3, 4}
        /\ first[2] = Process("v1server", 1, 1, {"l"}, None)
        /\ first[3] = Process("v1server", 2, 2, {"l"}, None)
        /\ first[4] = Process("stdio", 3, 3, {"k"}, None)
    BY <1>3
  <2>2. {"l"} \in SUBSET {"k", "l", "o"} /\ {"k"} \in SUBSET {"k", "l", "o"}
        /\ "v1server" \in ScanPrograms /\ "stdio" \in ScanPrograms
    BY DEF ScanPrograms
  <2>3. /\ first[2] \in ScanProcesses /\ first[2].start = 1 /\ first[2].parent = 1
        /\ first[3] \in ScanProcesses /\ first[3].start = 2 /\ first[3].parent = 2
        /\ first[4] \in ScanProcesses /\ first[4].start = 3 /\ first[4].parent = 3
    BY <2>1, <2>2, NewTyped
  <2> QED BY <2>1, <2>3, TableBegins
<1>4. CASE first = [p \in {2, 3, 4, 5} |->
                      CASE p = 2 -> Process("launcher", 0, 1, {}, None)
                        [] p = 3 -> Process("other", 1, 2, {}, None)
                        [] p = 4 -> Process("other", 2, 3, {}, None)
                        [] p = 5 -> Process("stdio", 3, 4, {"l"}, None)]
  <2>1. /\ DOMAIN first = {2, 3, 4, 5}
        /\ first[2] = Process("launcher", 0, 1, {}, None)
        /\ first[3] = Process("other", 1, 2, {}, None)
        /\ first[4] = Process("other", 2, 3, {}, None)
        /\ first[5] = Process("stdio", 3, 4, {"l"}, None)
    BY <1>4
  <2>2. {"l"} \in SUBSET {"k", "l", "o"} /\ {} \in SUBSET {"k", "l", "o"}
        /\ "launcher" \in ScanPrograms /\ "other" \in ScanPrograms /\ "stdio" \in ScanPrograms
    BY DEF ScanPrograms
  <2>3. /\ first[2] \in ScanProcesses /\ first[2].start = 0 /\ first[2].parent = 1
        /\ first[3] \in ScanProcesses /\ first[3].start = 1 /\ first[3].parent = 2
        /\ first[4] \in ScanProcesses /\ first[4].start = 2 /\ first[4].parent = 3
        /\ first[5] \in ScanProcesses /\ first[5].start = 3 /\ first[5].parent = 4
    BY <2>1, <2>2, NewTyped
  <2> QED BY <2>1, <2>3, TableBegins
<1> QED BY <1>1, <1>2, <1>3, <1>4

\* The small instance begins with the invariant.
LEMMA ScanSideBegins == ASSUME Init PROVE ScanSide
<1>0. ScanInit
  BY DEF Init
<1>1. CASE part = "procfs"
  <2>1. PICK first \in ScanTables : TableInit(first)
    BY <1>1 DEF Init
  <2> QED BY <1>0, <1>1, <2>1, ScanTablesSound, ScanBegun DEF ScanSide
<1>2. CASE part # "procfs"
  BY <1>0, <1>2 DEF ScanSide, ScanInit, Inspecting
<1> QED BY <1>1, <1>2

\* And keeps it.
LEMMA ScanSideHolds ==
  ASSUME ScanSide,
         [Next]_<<tableVars, samplerVars, memoryVars, scanVars, fileVars, reading, markerVars,
                  streamVars, pagesVars, argumentVars, part>>
  PROVE  ScanSide'
<1>1. CASE part' = part /\ part # "procfs" /\ UNCHANGED scanVars
  BY <1>1 DEF ScanSide, scanVars
<1>2. CASE part' = part /\ part = "procfs" /\ ScanPart
  <2>1. ScanInv /\ ScanTyped /\ TableSound /\ Tree
    BY <1>2 DEF ScanSide, ScanInv
  <2>2. CASE ScanStep
    <3>1. procs' = procs
      BY <2>2 DEF ScanStep, tableVars
    <3>2. ScanTyped'
      BY <2>1, <3>1 DEF ScanTyped
    <3> QED BY <1>2, <2>1, <2>2, <3>2, ScanStepKeeps DEF ScanSide
  <2>3. CASE ScanWorld /\ UNCHANGED scanVars
    BY <1>2, <2>1, <2>3, ScanWorldTurns, WorldKeepsScan DEF ScanSide
  <2> QED BY <1>2, <2>2, <2>3 DEF ScanPart
<1>3. CASE UNCHANGED <<tableVars, scanVars, part>>
  <2>1. ScanInv => ScanInv'
    BY <1>3, ScanKeeps
  <2> QED BY <1>3, <2>1 DEF ScanSide, ScanTyped, scanVars, tableVars
<1>4. CASE Next /\ part = "procfs"
  <2>1. part' = part /\ ScanPart
    BY <1>4 DEF Next, AttachmentPart, MemoryPart, RegistrationPart, MarkerPart, StreamPart, PagesPart, ArgumentsPart
  <2> QED BY <1>2, <1>4, <2>1
<1>5. CASE Next /\ part # "procfs"
  <2>1. part' = part /\ UNCHANGED scanVars
    BY <1>5 DEF Next, AttachmentPart, MemoryPart, ScanPart, RegistrationPart, MarkerPart, StreamPart, PagesPart, ArgumentsPart
  <2> QED BY <1>1, <1>5, <2>1
<1> QED BY <1>3, <1>4, <1>5

\* Whatever the processes of the instance do between two looks of the scan, a
\* password goes with a socket of the very process it was read from, nothing is
\* excluded that no launcher was above, and while nothing changes exactly the
\* eligible servers are found.
THEOREM ScansSound == Spec => []ScanSound
<1>1. Init => ScanSide
  BY ScanSideBegins
<1>2. ScanSide /\ [Next]_<<tableVars, samplerVars, memoryVars, scanVars, fileVars, reading, markerVars,
                           streamVars, pagesVars, argumentVars, part>> => ScanSide'
  BY ScanSideHolds
<1>3. ScanSide => ScanSound
  <2>1. CASE part = "procfs"
    BY <2>1, ScansHold DEF ScanSide
  <2>2. CASE part # "procfs"
    BY <2>2 DEF ScanSide, ScanSound
  <2> QED BY <2>1, <2>2
<1> QED BY <1>1, <1>2, <1>3, PTL DEF Spec

-----------------------------------------------------------------------------
(* What comes in pieces.                                                   *)

\* Streams, listings and arguments of the instance begin as any do.
LEMMA PiecesBegin == ASSUME Init PROVE StreamInv /\ PagesInv /\ ArgumentsInv
<1>1. StreamInv
  BY StreamBegun DEF Init
<1>2. PagesInv
  <2>1. \E order, shapes, location : \E fault \in BOOLEAN :
          order \in MCOrders \cup {<<1, 2, 3>>, <<2, 1>>, <<1, 2>>, <<1>>}
            /\ PagesInit(order, fault, shapes, location)
    <3>1. CASE part = "pages"
      <4>1. PagesBegin
        BY <3>1 DEF Init
      <4> QED BY <4>1 DEF PagesBegin
    <3>2. CASE part # "pages"
      <4>1. PagesInit(<<1>>, FALSE, <<>>, NoPath)
        BY <3>2 DEF Init
      <4> QED BY <4>1
    <3> QED BY <3>1, <3>2
  <2>2. PICK order, shapes, location :
          \E fault \in BOOLEAN : order \in MCOrders \cup {<<1, 2, 3>>, <<2, 1>>, <<1, 2>>, <<1>>}
                                 /\ PagesInit(order, fault, shapes, location)
    BY <2>1
  <2>3. PICK fault \in BOOLEAN : PagesInit(order, fault, shapes, location)
    BY <2>2
  <2>4. order \in {<<1, 2, 3>>, <<3, 2, 1>>, <<2, 3, 1>>, <<3, 1>>, <<2, 1>>, <<1, 2>>, <<1>>}
    BY <2>2 DEF MCOrders
  <2>5. PagesStart(order)
    <3>1. /\ order \in Seq(Sessions) /\ order # <<>>
          /\ Len(order) \in 1 .. 3
          /\ Len(order) > 1 => order[1] # order[2]
          /\ Len(order) > 2 => order[1] # order[3] /\ order[2] # order[3]
      <4>1. 1 \in Sessions /\ 2 \in Sessions /\ 3 \in Sessions
        BY OrderAssumption
      <4>2. CASE order \in {<<1, 2, 3>>, <<3, 2, 1>>, <<2, 3, 1>>}
        <5>1. \E x, y, z \in {1, 2, 3} : order = <<x, y, z>> /\ x # y /\ x # z /\ y # z
          BY <4>2
        <5>2. PICK x, y, z \in {1, 2, 3} : order = <<x, y, z>> /\ x # y /\ x # z /\ y # z
          BY <5>1
        <5>3. x \in Sessions /\ y \in Sessions /\ z \in Sessions
          BY <4>1, <5>2
        <5>4. order \in Seq(Sessions) /\ order # <<>> /\ Len(order) = 3
          BY <5>2, <5>3
        <5>5. order[1] = x /\ order[2] = y /\ order[3] = z
          BY <5>2
        <5> QED BY <5>2, <5>4, <5>5
      <4>3. CASE order \in {<<3, 1>>, <<2, 1>>, <<1, 2>>}
        BY <4>1, <4>3
      <4>4. CASE order = <<1>>
        BY <4>1, <4>4
      <4> QED BY <2>4, <4>2, <4>3, <4>4
    <3>2. ASSUME NEW i \in 1 .. Len(order), NEW j \in 1 .. Len(order), order[i] = order[j] PROVE i = j
      <4>1. i \in {1, 2, 3} /\ j \in {1, 2, 3} /\ i <= Len(order) /\ j <= Len(order)
        BY <3>1, <3>2
      <4> QED BY <3>1, <3>2, <4>1
    <3>3. DOMAIN order = 1 .. Len(order)
      BY <3>1
    <3> QED BY <3>1, <3>2, <3>3 DEF PagesStart
  <2> QED BY <2>3, <2>5, PagesBegun
<1>3. ArgumentsInv
  <2>1. PICK lengths : lengths = Begins("arguments", 0 .. MaxArguments, {0})
    OBVIOUS
  <2>2. lengths \in SUBSET Nat /\ ArgumentsInit(lengths)
    BY <2>1, ArgumentsAssumption DEF Init, Begins
  <2> QED BY <2>2, ArgumentsBegin
<1> QED BY <1>1, <1>2, <1>3

\* A step of one reader leaves the others alone.
LEMMA PiecesStep ==
  ASSUME [Next]_<<tableVars, samplerVars, memoryVars, scanVars, fileVars, reading, markerVars,
                  streamVars, pagesVars, argumentVars, part>>
  PROVE  /\ StreamNext \/ UNCHANGED streamVars
         /\ PagesNext \/ UNCHANGED pagesVars
         /\ Take \/ UNCHANGED argumentVars
<1>1. CASE StreamPart
  BY <1>1 DEF StreamPart
<1>2. CASE PagesPart
  BY <1>2 DEF PagesPart
<1>3. CASE ArgumentsPart
  BY <1>3 DEF ArgumentsPart
<1>4. CASE AttachmentPart \/ MemoryPart \/ ScanPart \/ RegistrationPart \/ MarkerPart
  BY <1>4 DEF AttachmentPart, MemoryPart, ScanPart, RegistrationPart, MarkerPart
<1>5. CASE UNCHANGED <<tableVars, samplerVars, memoryVars, scanVars, fileVars, reading, markerVars,
                       streamVars, pagesVars, argumentVars, part>>
  BY <1>5
<1> QED BY <1>1, <1>2, <1>3, <1>4, <1>5 DEF Next

\* What comes in pieces means what it means as a whole: the events of a stream,
\* however it is cut into chunks; the sessions of a listing, whatever becomes of
\* them between the pages; the options and words of a process (client.rs,
\* decode_next_frame and OpenCodeV2Client::snapshot; attachment.rs,
\* classify_argv).
THEOREM PiecesStayFaithful == Spec => []PiecesFaithful
<1>1. Init => StreamInv /\ PagesInv /\ ArgumentsInv
  BY PiecesBegin
<1>2. /\ StreamInv /\ PagesInv /\ ArgumentsInv
      /\ [Next]_<<tableVars, samplerVars, memoryVars, scanVars, fileVars, reading, markerVars,
                  streamVars, pagesVars, argumentVars, part>>
      => (StreamInv /\ PagesInv /\ ArgumentsInv)'
  BY PiecesStep, StreamKept, PagesKept, ArgumentsKeep, ArgumentsStay
<1>3. StreamInv /\ PagesInv /\ ArgumentsInv => PiecesFaithful
  BY StreamMeans, PagesMean, ArgumentsMean DEF PiecesFaithful
<1> QED BY <1>1, <1>2, <1>3, PTL DEF Spec
=================================================================================
