---------------------------- MODULE RegistrationFile ----------------------------
(***************************************************************************)
(* How src/src/discovery.rs reads the registration of a managed service,   *)
(* read_registration and discover_registration, while the service may      *)
(* change the file.                                                        *)
(***************************************************************************)
EXTENDS ChangingFile

VARIABLE reading \* the reading in progress, or its end

\* safe_registration_metadata
SafeMetadata(entry) == entry # NoFile /\ entry.safe

-----------------------------------------------------------------------------
(* read_registration                                                       *)

Rejected == reading' = [reading EXCEPT !.step = "rejected"]

Goes(ok, next) == IF ok THEN reading' = next ELSE Rejected

Stands(step) == reading.step = step /\ UNCHANGED fileVars

LookBefore ==
  /\ Stands("before")
  /\ Goes(SafeMetadata(Entry(named)), [reading EXCEPT !.step = "open", !.before = Entry(named)])

OpenFile ==
  /\ Stands("open")
  /\ Goes(named # NoFile, [reading EXCEPT !.step = "opened", !.file = named])

\* From here on the open file is read, whatever has its name.
LookOpened ==
  /\ Stands("opened")
  /\ LET entry == Entry(reading.file)
     IN  Goes(SafeMetadata(entry) /\ entry = reading.before, [reading EXCEPT !.step = "first"])

ReadFirst ==
  /\ Stands("first")
  /\ Goes(TRUE, [reading EXCEPT !.step = "second", !.first = files[reading.file].first])

ReadSecond ==
  /\ Stands("second")
  /\ Goes(TRUE, [reading EXCEPT !.step = "after", !.second = files[reading.file].second])

LookAfter ==
  /\ Stands("after")
  /\ Goes(TRUE, [reading EXCEPT !.step = "path", !.after = Entry(reading.file)])

\* Mutant of Untouched: it is the same file, whatever became of it.
UntouchedSame(path) == path # NoFile /\ reading.before.file = path.file

Untouched(path) == reading.before = reading.after /\ reading.before = path

\* The path is looked at last; then the text is parsed.
LookPath ==
  /\ Stands("path")
  /\ \/ /\ Untouched(Entry(named)) /\ Missing \notin {reading.first, reading.second}
        /\ reading' = [reading EXCEPT !.step = "accepted"]
     \/ /\ \/ ~Untouched(Entry(named))
           \/ reading.first # reading.second
           \/ Missing \in {reading.first, reading.second}
        /\ Rejected

-----------------------------------------------------------------------------
ReadingInit ==
  reading = [step |-> "before", before |-> NoFile, file |-> NoFile, after |-> NoFile,
             first |-> Missing, second |-> Missing]

ReadingStep ==
  \/ LookBefore \/ OpenFile \/ LookOpened \/ ReadFirst \/ ReadSecond \/ LookAfter \/ LookPath

-----------------------------------------------------------------------------
(* Property.                                                               *)

\* However the file is replaced, rewritten or made unsafe meanwhile: a
\* registration is accepted only whole, of one edition, from a file that was
\* safe; and while nobody touches a safe file it is accepted.
RegistrationWhole ==
  /\ reading.step = "accepted" =>
       /\ reading.first = reading.second
       /\ reading.before.safe
       /\ reading.file = reading.before.file
  /\ reading.step = "rejected" => edits > 0 \/ ~files[1].safe
=================================================================================
