---------------------------- MODULE ChangingFile ----------------------------
(***************************************************************************)
(* A file that another program may replace, rewrite in place or remove,    *)
(* and whose mode it may change, while Beacon looks at it, opens it, reads *)
(* it piece by piece and looks again.                                      *)
(*                                                                         *)
(* A file is told by its number; what stat tells of it is the number, its  *)
(* mode and a stamp that every change moves on (size and both times).  Its *)
(* text has two pieces, each from the edition it was written in; a text of *)
(* two editions may be valid as well, an incomplete one is not.            *)
(***************************************************************************)
EXTENDS Integers, FiniteSets

CONSTANTS NoFile,  \* no file, nothing read
          MaxEdits \* bound: changes of the file

VARIABLES
  files, \* every file there has been
  named, \* the file at the path, or NoFile
  edits  \* changes so far

fileVars == <<files, named, edits>>

Missing == 0

Edition == [file : Nat, safe : BOOLEAN, stamp : Nat]

ASSUME FileAssumption == NoFile \notin Nat /\ NoFile \notin Edition

\* What stat tells; NoFile where there is no file.
Entry(f) == IF f = NoFile THEN NoFile ELSE [file |-> f, safe |-> files[f].safe, stamp |-> files[f].stamp]

Edits == edits < MaxEdits /\ edits' = edits + 1

Write(f, first, second, safe) ==
  files' = [g \in DOMAIN files \cup {f} |->
              IF g = f THEN [first |-> first, second |-> second, safe |-> safe, stamp |-> edits + 1]
              ELSE files[g]]

\* A complete file takes the name.
ReplaceFile(safe) ==
  /\ Edits
  /\ LET f == Cardinality(DOMAIN files) + 1
     IN  Write(f, edits + 2, edits + 2, safe) /\ named' = f

\* In place: truncated, then written.
Truncate ==
  /\ Edits /\ named # NoFile
  /\ Write(named, Missing, Missing, files[named].safe) /\ UNCHANGED named

Rewrite ==
  /\ Edits /\ named # NoFile
  /\ Write(named, edits + 2, edits + 2, files[named].safe) /\ UNCHANGED named

ChangeMode ==
  /\ Edits /\ named # NoFile
  /\ Write(named, files[named].first, files[named].second, ~files[named].safe) /\ UNCHANGED named

RemoveFile == Edits /\ named # NoFile /\ named' = NoFile /\ UNCHANGED files

-----------------------------------------------------------------------------
FileInit ==
  /\ named = 1 /\ edits = 0
  /\ \E safe \in BOOLEAN : files = [f \in {1} |-> [first |-> 1, second |-> 1, safe |-> safe, stamp |-> 0]]

FileEdited ==
  \/ \E safe \in BOOLEAN : ReplaceFile(safe)
  \/ Truncate \/ Rewrite \/ ChangeMode \/ RemoveFile
=============================================================================
