------------------------------ MODULE ClaudeMarker ------------------------------
(***************************************************************************)
(* How src/src/claude.rs reads the marker of a Claude session,             *)
(* ClaudeDiscovery::read_marker: the file is looked at, the process that it*)
(* is named for is looked at, the file is opened and read, and the process *)
(* is looked at again.  Claude may change the file meanwhile, and processes*)
(* start, end and go on with other programs.                               *)
(*                                                                         *)
(* Abstracted: whether there is a terminal; a file that is not regular, not*)
(* the user's or too large is not safe; a complete text of one edition is  *)
(* valid, one of two editions may be.                                      *)
(***************************************************************************)
EXTENDS ProcessTable, ChangingFile

CONSTANTS Marked,       \* the process ID that the marker is named for
          ClaudeProgram \* programs that run as claude

VARIABLES
  marker,  \* the reading in progress, or its end
  foreign, \* history: there was no Claude process when the reading began
  writer   \* history: the process there was when the text was read

markerVars == <<marker, foreign, writer>>

-----------------------------------------------------------------------------
\* The marker is passed over.
NoMarker == marker' = [marker EXCEPT !.step = "none"]

Awaits(step) == marker.step = step /\ UNCHANGED <<foreign, writer>>

Takes(ok, next) == IF ok THEN marker' = next ELSE NoMarker

\* is_claude_process
IsClaude == Lives(Marked) /\ procs[Marked].program \in ClaudeProgram

\* One entry of the directory, by the number in its name.
TakeMarker ==
  /\ marker.step = "entry"
  /\ foreign' = ~IsClaude
  /\ UNCHANGED <<seen, writer>>
  /\ Takes(Entry(named) # NoFile /\ Entry(named).safe,
           [marker EXCEPT !.step = "stat", !.expected = Entry(named)])

\* From now on it is this process.
StatClaude ==
  /\ Awaits("stat")
  /\ Look
  /\ Takes(Lives(Marked),
           [marker EXCEPT !.step = "program",
              !.key = [pid |-> Marked, start |-> procs[Marked].start]])

IdentifyClaude ==
  /\ Awaits("program")
  /\ Takes(IsClaude, [marker EXCEPT !.step = "open"])
  /\ UNCHANGED seen

-----------------------------------------------------------------------------
(* read_marker_json                                                        *)

OpenMarker ==
  /\ Awaits("open")
  /\ Takes(named # NoFile, [marker EXCEPT !.step = "opened", !.file = named])
  /\ UNCHANGED seen

\* Mutant of SameMarker: only the file is compared, whatever became of it.
SameMarkerFile(expected, actual) == expected.file = actual.file

SameMarker(expected, actual) == expected = actual

LookMarkerOpened ==
  /\ Awaits("opened")
  /\ Takes(SameMarker(marker.expected, Entry(marker.file)), [marker EXCEPT !.step = "first"])
  /\ UNCHANGED seen

\* Piece by piece.
ReadMarker ==
  /\ UNCHANGED <<seen, foreign>>
  /\ \/ /\ marker.step = "first"
        /\ marker' = [marker EXCEPT !.step = "second", !.first = files[marker.file].first]
        /\ UNCHANGED writer
     \/ /\ marker.step = "second"
        /\ marker' = [marker EXCEPT !.step = "read", !.second = files[marker.file].second]
        /\ writer' = procs[Marked]

\* The open file again, not the path; then the text is parsed.
LookMarkerRead ==
  /\ Awaits("read")
  /\ \/ /\ SameMarker(marker.expected, Entry(marker.file))
        /\ Missing \notin {marker.first, marker.second}
        /\ marker' = [marker EXCEPT !.step = "stat again"]
     \/ /\ \/ ~SameMarker(marker.expected, Entry(marker.file))
           \/ marker.first # marker.second
           \/ Missing \in {marker.first, marker.second}
        /\ NoMarker
  /\ UNCHANGED seen

-----------------------------------------------------------------------------
\* Mutant of SameClaude: the process is not compared.
SameClaudeUnread == Lives(Marked)

SameClaude == Matches(marker.key)

StatClaudeAgain ==
  /\ Awaits("stat again")
  /\ Takes(SameClaude, [marker EXCEPT !.step = "program again"])
  /\ UNCHANGED seen

IdentifyClaudeAgain ==
  /\ Awaits("program again")
  /\ Takes(IsClaude, [marker EXCEPT !.step = "found"])
  /\ UNCHANGED seen

-----------------------------------------------------------------------------
MarkerInit ==
  /\ marker = [step |-> "entry", expected |-> NoFile, key |-> None, file |-> NoFile,
               first |-> Missing, second |-> Missing]
  /\ foreign = FALSE /\ writer = None

MarkerStep ==
  /\ \/ TakeMarker \/ StatClaude \/ IdentifyClaude
     \/ OpenMarker \/ LookMarkerOpened \/ ReadMarker \/ LookMarkerRead
     \/ StatClaudeAgain \/ IdentifyClaudeAgain
  /\ UNCHANGED <<procs, changes, fileVars>>

-----------------------------------------------------------------------------
(* Property.                                                               *)

\* Whatever happens to the marker and to the processes meanwhile: a session is
\* found only with a marker that is whole, of one edition and from a safe file,
\* for a process that ran as Claude and was the one there when the marker was
\* read; and a marker is passed over only if it was not safe, or there was no
\* Claude, or one of them changed.
MarkerWhole ==
  /\ marker.step = "found" =>
       /\ marker.first = marker.second
       /\ marker.expected.safe /\ marker.file = marker.expected.file
       /\ Was(marker.key, LAMBDA process : process.program \in ClaudeProgram)
       /\ writer # None /\ writer.start = marker.key.start
  /\ marker.step = "none" => foreign \/ edits > 0 \/ changes > 0 \/ ~files[1].safe
=================================================================================
