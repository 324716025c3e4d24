------------------------------- MODULE MCReaders -------------------------------
(* Small instances of the readers; every behavior is about one of them.    *)
EXTENDS AttachmentSampler, MemorySampler, ProcfsScan, RegistrationFile, ClaudeMarker,
        EventStream, SessionPages, TuiArguments, TLC

VARIABLE part \* the reader that this behavior is about

Held == UNION {Fds(p) : p \in DOMAIN procs}

-----------------------------------------------------------------------------
(* Attachments: a terminal, the owner of a v1 server and a kitty.          *)

MCPeer == [s \in {"x", "y", "z", "l", "k"} |->
             CASE s \in {"x", "z"} -> "e" [] s = "y" -> "f" [] OTHER -> None]

MCServers ==
  {[protocol |-> "v2", pid |-> 9, endpoint |-> "e", inode |-> None],
   [protocol |-> "v2", pid |-> 9, endpoint |-> "f", inode |-> None],
   [protocol |-> "v1", pid |-> 3, endpoint |-> "g", inode |-> "l"]}

MCKitty ==
  [p \in {"tui", "kittytui", "v1server", "claude", "kitty", "other"} |->
     IF p = "kittytui" THEN 4 ELSE 0]

\* The owners of the listening sockets of v1 servers are among them.
ASSUME AttachmentAssumption == \A i \in Servers : i.protocol # "v2" => i.pid \in {2, 3, 4}

AttachmentTables ==
  {[p \in {2, 3, 4} |->
      CASE p = 2 -> Process(tui, 1, 1, {"x"}, None)
        [] p = 3 -> Process("v1server", 2, 1, {"l"}, None)
        [] p = 4 -> Process("kitty", 0, 1, {"k"}, None)] : tui \in {"tui", "kittytui"}}

AttachmentWorld ==
  \E p \in {2, 3} :
    \/ Ends(p)
    \/ \E parent \in {2, 3} : Fork(p, parent, "tui", None)
    \/ \E program \in {"tui", "claude"}, fds \in {{}, {"x"}, {"y"}} :
         fds \cap Held = {} /\ Start(p, program, fds, None)
    \/ \E s \in {"y", "z"} \ Held :
         Lives(p) /\ procs[p].program = "tui" /\ OpenSocket(p, s)
    \/ \E s \in {"x", "y"} : CloseSocket(p, s)

-----------------------------------------------------------------------------
(* Memory: two groups that have one path, one after the other, and another *)
(* one; two servers in one group or in two.                                *)

MCPath == [g \in {"a", "a2", "b"} |-> IF g = "b" THEN "/b" ELSE "/a"]

MCPidOf == [i \in {"i", "j"} |-> IF i = "i" THEN 2 ELSE 3]

\* The instances are the processes of the table.
ASSUME GroupAssumption == Path = MCPath /\ \A i \in Instances : PidOf[i] \in {2, 3}

MemoryTables ==
  {[p \in {2, 3} |-> IF p = 2 THEN Process("v1server", 1, 1, {}, "a")
                     ELSE Process("v1server", 2, 1, {}, g)] : g \in {"a", "b"}}

MemoryWorld ==
  \/ /\ \E p \in {2, 3} : \/ Ends(p)
                          \/ \E g \in Groups : Start(p, "other", {}, g)
                          \/ "b" \in Groups /\ MoveTo(p, "b")
     /\ UNCHANGED memoryVars
  \/ /\ \E path \in {"/a", "/b"} : ReplaceDirectory(path, IF path = "/a" THEN "a2" ELSE None)
     /\ UNCHANGED <<instances, scopes, memory, resolved, views, now>>

-----------------------------------------------------------------------------
(* Procfs: a server below a launcher, directly or not, too far or next to  *)
(* it; two that share a socket.                                            *)

ScanTables ==
  {[p \in {2, 3, 4} |->
      CASE p = 2 -> Process("launcher", 1, 1, {}, None)
        [] p = 3 -> Process("other", 2, 2, {}, None)
        [] p = 4 -> Process("stdio", 3, parent, {"l", "o"}, None)] : parent \in {1, 2, 3}}
  \cup {[p \in {2, 3, 4} |->
           CASE p = 2 -> Process("v1server", 1, 1, {"l"}, None)
             [] p = 3 -> Process("v1server", 2, 2, {"l"}, None)
             [] p = 4 -> Process("stdio", 3, 3, {"k"}, None)],
        [p \in {2, 3, 4, 5} |->
           CASE p = 2 -> Process("launcher", 0, 1, {}, None)
             [] p = 3 -> Process("other", 1, 2, {}, None)
             [] p = 4 -> Process("other", 2, 3, {}, None)
             [] p = 5 -> Process("stdio", 3, 4, {"l"}, None)]}

ScanPrograms == {"launcher", "other", "stdio", "v1server"}

ScanProcesses ==
  [program : ScanPrograms, start : Nat, parent : Nat, fds : SUBSET {"k", "l", "o"}, group : {None}]

\* Nothing that is not there is a program or a process of these tables.
ASSUME ScanProcessAssumption == None \notin ScanPrograms /\ None \notin ScanProcesses

ScanWorld ==
  \E p \in DOMAIN procs :
    \/ Ends(p)
    \/ \E parent \in DOMAIN procs : Fork(p, parent, "stdio", None)
    \/ \E program \in {"stdio", "launcher"} : Start(p, program, {}, None) \/ Execute(p, program)
    \/ "l" \in Held /\ OpenSocket(p, "l")
    \/ CloseSocket(p, "l")

-----------------------------------------------------------------------------
(* Markers: of Claude, or of a process ID that is of something else.       *)

MarkerTables ==
  {[p \in {Marked} |-> state] :
     state \in {None} \cup {Process(program, 1, 1, {}, None) : program \in {"claude", "other"}}}

MarkerWorld ==
  \/ Ends(Marked)
  \/ \E program \in {"claude", "other"} :
       Start(Marked, program, {}, None) \/ Execute(Marked, program)

-----------------------------------------------------------------------------
(* Streams: every text of at most six bytes.                               *)

MCTexts == UNION {[1 .. n -> {"d", "c", "r", "n"}] : n \in 0 .. 6}

-----------------------------------------------------------------------------
(* Pages: three sessions in every order, or two and one that comes later.  *)

MCOrders == {<<1, 2, 3>>, <<3, 2, 1>>, <<2, 3, 1>>, <<3, 1>>}

ASSUME OrderAssumption == {1, 2, 3} \subseteq Sessions

Shape(own, located, inner, outer) ==
  [own |-> own, located |-> located, inner |-> inner, outer |-> outer]

Plain == Shape(NoPath, FALSE, NoPath, NoPath)

MCEntries ==
  {Plain, Shape(NoPath, FALSE, "inner", NoPath), Shape("own", FALSE, "inner", NoPath),
   Shape(NoPath, TRUE, "inner", "outer"), Shape(NoPath, TRUE, "inner", NoPath)}

PagesBegin ==
  \/ \E order \in MCOrders : PagesInit(order, FALSE, [s \in Sessions |-> Plain], NoPath)
  \/ \E order \in {<<1, 2, 3>>, <<2, 1>>} : PagesInit(order, TRUE, [s \in Sessions |-> Plain], NoPath)
  \/ \E entry \in MCEntries :
       PagesInit(<<1, 2>>, FALSE, [s \in Sessions |-> IF s = 2 THEN entry ELSE Plain], "page")

-----------------------------------------------------------------------------
(* Arguments: every sequence of at most five.                              *)

MCSessionOf == [argument \in {"--session=b"} |-> "b"]

-----------------------------------------------------------------------------
(* Every behavior is about one of them; the others rest.                   *)

AttachmentPart ==
  /\ part = "attachments"
  /\ SamplerStep \/ (AttachmentWorld /\ UNCHANGED samplerVars)
  /\ UNCHANGED <<memoryVars, scanVars, fileVars, reading, markerVars, streamVars, pagesVars, argumentVars>>

MemoryPart ==
  /\ part = "memory"
  /\ MemoryStep \/ MemoryWorld
  /\ UNCHANGED <<samplerVars, scanVars, fileVars, reading, markerVars, streamVars, pagesVars, argumentVars>>

ScanPart ==
  /\ part = "procfs"
  /\ ScanStep \/ (ScanWorld /\ UNCHANGED scanVars)
  /\ UNCHANGED <<samplerVars, memoryVars, fileVars, reading, markerVars, streamVars, pagesVars, argumentVars>>

RegistrationPart ==
  /\ part = "registration"
  /\ ReadingStep \/ (FileEdited /\ UNCHANGED reading)
  /\ UNCHANGED <<tableVars, samplerVars, memoryVars, scanVars, markerVars, streamVars, pagesVars, argumentVars>>

MarkerPart ==
  /\ part = "marker"
  /\ \/ MarkerStep
     \/ MarkerWorld /\ UNCHANGED <<fileVars, markerVars>>
     \/ FileEdited /\ UNCHANGED <<tableVars, markerVars>>
  /\ UNCHANGED <<samplerVars, memoryVars, scanVars, reading, streamVars, pagesVars, argumentVars>>

StreamPart ==
  /\ part = "stream"
  /\ StreamNext
  /\ UNCHANGED <<tableVars, samplerVars, memoryVars, scanVars, fileVars, reading, markerVars, pagesVars, argumentVars>>

PagesPart ==
  /\ part = "pages"
  /\ PagesNext
  /\ UNCHANGED <<tableVars, samplerVars, memoryVars, scanVars, fileVars, reading, markerVars, streamVars, argumentVars>>

ArgumentsPart ==
  /\ part = "arguments"
  /\ Take
  /\ UNCHANGED <<tableVars, samplerVars, memoryVars, scanVars, fileVars, reading, markerVars, streamVars, pagesVars>>

Parts ==
  {"attachments", "memory", "procfs", "registration", "marker", "stream", "pages", "arguments"}

\* What the part that a behavior is about can begin with; the others begin
\* with one value.
Begins(p, some, one) == IF part = p THEN some ELSE one

Init ==
  /\ part \in Parts
  /\ \E table \in CASE part = "attachments" -> AttachmentTables
                   [] part = "memory"      -> MemoryTables
                   [] part = "procfs"      -> ScanTables
                   [] part = "marker"      -> MarkerTables
                   [] OTHER                -> {Nothing} : TableInit(table)
  /\ SamplerInit /\ MemoryInit /\ directory["/a"] = "a" /\ ScanInit
  /\ FileInit /\ (part \notin {"registration", "marker"} => files[1].safe)
  /\ ReadingInit /\ MarkerInit
  /\ text \in Begins("stream", Texts, {<<>>}) /\ StreamInit
  /\ IF part = "pages" THEN PagesBegin ELSE PagesInit(<<1>>, FALSE, <<>>, NoPath) /\ active = {}
  /\ ArgumentsInit(Begins("arguments", 0 .. MaxArguments, {0}))

Next ==
  /\ UNCHANGED part
  /\ \/ AttachmentPart \/ MemoryPart \/ ScanPart \/ RegistrationPart
     \/ MarkerPart \/ StreamPart \/ PagesPart \/ ArgumentsPart

Spec ==
  Init /\ [][Next]_<<tableVars, samplerVars, memoryVars, scanVars, fileVars, reading, markerVars,
                    streamVars, pagesVars, argumentVars, part>>

-----------------------------------------------------------------------------
(* Properties of two readers each.                                         *)

\* What is read of a file that its owner goes on to change is whole, and of
\* the process that it is for: registrations and markers.
FilesWhole == RegistrationWhole /\ MarkerWhole

\* What comes in pieces means what it means as a whole: events in chunks,
\* sessions in pages, options in arguments.
PiecesFaithful == FramesFaithful /\ SessionsFetched /\ ArgumentsRead
=================================================================================
