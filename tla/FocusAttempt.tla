---------------------------- MODULE FocusAttempt ----------------------------
(***************************************************************************)
(* One Enter: focus_client of src/src/focus.rs, from the row's target to   *)
(* the result.  Between any two commands the terminals may change, and     *)
(* every command may fail or time out; the future may be dropped at any    *)
(* await.  Files may fail as well: the socket may be bound and then neither*)
(* be secured nor given to a value that removes it, a script may be opened *)
(* and not be written, and every removal may fail, which nobody is told of.*)
(*                                                                         *)
(* The two ways, for Konsole and for Kitty, are programs: sequences of     *)
(* steps that a program counter goes through.  A step that checks a fact   *)
(* bears its name.                                                         *)
(***************************************************************************)
EXTENDS Naturals, Sequences

CONSTANTS None,
          MaxChanges,   \* bound: changes of the facts during an attempt
          MaxAttempts,  \* how often the current session is asked for
          MaxDatagrams  \* how many datagrams the token receiver reads

VARIABLES
  client, there, token, result,  \* as in FocusPromise
  pc,        \* the next step of the program
  single,    \* the target's window was the only one when last listed
  attempts,  \* how often the current session was asked for
  heard,     \* datagrams the token receiver has ignored
  source,    \* Beacon's own Kitty window is the one it was
  lying,     \* what this attempt has put into the file system: "socket", "script"
  guards,    \* of that: what a value of the program removes when it is dropped
  loaded,    \* the script is loaded in KWin
  raised,    \* KWin acknowledged the script
  changes,   \* how many changes there were
  slips,     \* history: removals that failed, and "secure", of the bound socket
  sure, acts, done  \* history, as in FocusPromise

scratch == <<single, attempts, heard>>
left == <<lying, guards, slips>>
things == <<left, loaded, raised>>
history == <<sure, acts, done>>
world == <<client, there, source, changes>>
attemptVars == <<world, token, result, pc, scratch, things, history>>

\* The abstract specification.  The pc, the scratch and what lies around in
\* the system are not its business.
Promise ==
  INSTANCE FocusPromise WITH
    None <- None, client <- client, there <- there, sure <- sure, token <- token,
    acts <- acts, done <- done, result <- result

ASSUME FocusAssumption ==
  /\ MaxChanges \in Nat /\ MaxAttempts \in Nat \ {0} /\ MaxDatagrams \in Nat \ {0}
  /\ None \notin Promise!Results

-----------------------------------------------------------------------------
(* The programs.                                                           *)

\* Mutant of Steps: what was known before the token was waited for is not
\* looked at again.
StepsTrusting ==
  [konsole |->
     <<"process", "owner", "window", "session", "process", "owner", "window", "session",
       "version", "capabilities", "probe", "bind", "request", "receive", "konsole",
       "process", "owner", "process", "owner", "activate",
       "process", "owner", "window", "session", "select", "verify", "owner", "process",
       "script", "load", "run", "unload">>,
   kitty |->
     <<"process", "target", "supported", "probe", "bind", "request", "receive", "konsole",
       "target", "activate", "target", "focus">>]

\* First the bridge: the target is validated, the broker asked for a token,
\* from Beacon's own Kitty and from its own Konsole then, and the target
\* validated again.  Then the fallback.
Steps ==
  [konsole |->
     <<"process", "owner", "window", "session", "process", "owner", "window", "session",
       "version", "capabilities", "probe", "bind", "request", "receive", "konsole",
       "process", "owner", "window", "session", "activate",
       "process", "owner", "window", "session", "select", "verify", "owner", "process",
       "script", "load", "run", "unload">>,
   kitty |->
     <<"process", "target", "supported", "probe", "bind", "request", "receive", "konsole",
       "target", "activate", "target", "focus">>]

\* Where the fallback begins.
Fallback == [konsole |-> 21, kitty |-> 11]

\* Where Konsole is asked for a token.
Konsole == [konsole |-> 15, kitty |-> 8]

At(s) == result = None /\ Steps[client][pc] = s

Continue == pc' = pc + 1 /\ result' = None

Keep == UNCHANGED left

\* A file or a socket is there, and with it the value that removes it.
Make(what) ==
  /\ lying' = lying \cup {what} /\ guards' = guards \cup {what}
  /\ UNCHANGED slips

\* What is held is removed, if that can be; an error is ignored.
Drop(held) ==
  \E stuck \in SUBSET held :
    /\ lying' = (lying \ held) \cup stuck
    /\ guards' = guards \ held
    /\ slips' = slips \cup stuck

\* An attempt ends, and holds what it holds no more.
Finish(r, held) ==
  /\ result' = r
  /\ Drop(held)
  /\ UNCHANGED pc

Report(r) == Finish(r, guards)

FallBack ==
  /\ pc' = Fallback[client]
  /\ sure' = {}
  /\ UNCHANGED result

-----------------------------------------------------------------------------
(* Checks and negotiation.                                                 *)

\* A check of a Kitty target looks at the process too.
Demanded(f) == IF f = "target" THEN {"process", "target"} ELSE {f}

\* Only D-Bus commands can fail; procfs answers at once.
Asked(f) == f \in {"owner", "window", "session"}

\* The listing of the windows before the tab is selected tells how many
\* there are.
CountWindows(f) ==
  IF f = "window" /\ pc > Fallback[client] THEN single' \in BOOLEAN ELSE UNCHANGED single

\* What does not hold any more ends the attempt.
Check(f) ==
  /\ At(f)
  /\ IF Demanded(f) \subseteq there
     THEN \/ Continue /\ sure' = sure \cup Demanded(f) /\ Keep
          \/ Asked(f) /\ (\E r \in {"NoOp", "Error"} : Report(r)) /\ UNCHANGED sure
     ELSE \/ Report("NoOp") /\ UNCHANGED sure
          \/ Asked(f) /\ Report("Error") /\ UNCHANGED sure
  /\ CountWindows(f)
  /\ UNCHANGED <<world, token, attempts, heard, loaded, raised, acts, done>>

\* An answer the bridge can be used with, or none: no connection, a refusal,
\* a timeout, another version, a capability that is missing.
BridgeAnswers ==
  \/ Continue /\ UNCHANGED sure
  \/ FallBack

\* Is there a Konsole bridge, and can it do what is needed?
Negotiate(question) ==
  /\ At(question)
  /\ BridgeAnswers
  /\ Keep
  /\ UNCHANGED <<world, token, scratch, loaded, raised, acts, done>>

\* One request over Kitty's socket: the answer may be cut off, too long or
\* no answer at all.
Supported ==
  /\ At("supported")
  /\ BridgeAnswers
  /\ Keep
  /\ UNCHANGED <<world, token, scratch, loaded, raised, acts, done>>

-----------------------------------------------------------------------------
(* The broker and its sources.                                             *)

SkipKitty == pc' = Konsole[client] /\ UNCHANGED <<result, sure, token>>

\* The source is of no use: the receiver is dropped, and Konsole is asked.
NextSource == SkipKitty /\ Drop(guards \cap {"socket"})

\* The source is probed, and asked for a token once the socket is bound.
AskKitty(step) ==
  /\ At(step)
  /\ \/ source /\ Continue /\ Keep /\ UNCHANGED <<sure, token>>
     \/ NextSource
  /\ UNCHANGED <<world, scratch, loaded, raised, acts, done>>

\* A socket whose mode cannot be set, or that cannot be looked at, stays:
\* no receiver is there yet that would remove it.
Unsecured ==
  /\ lying' = lying \cup {"socket"} /\ slips' = slips \cup {"secure"}
  /\ UNCHANGED guards

\* It is not bound, or it is not as it should be and removed at once.
BindSocket ==
  /\ At("bind")
  /\ \/ Continue /\ Make("socket") /\ UNCHANGED <<sure, token>>
     \/ SkipKitty /\ (Keep \/ Unsecured \/ Drop({"socket"}))
  /\ UNCHANGED <<world, scratch, loaded, raised, acts, done>>

Held == token' = "held" /\ sure' = {} /\ UNCHANGED result

\* The answer with the nonce of this request, if the source is still there
\* then.
Receive ==
  /\ At("receive")
  /\ IF source
     THEN pc' = pc + 2 /\ Drop(guards \cap {"socket"}) /\ Held
     ELSE NextSource
  /\ UNCHANGED <<world, scratch, loaded, raised, acts, done>>

\* Mutant of Ignore: every datagram is waited for anew.
IgnoreRestarting ==
  /\ At("receive")
  /\ heard' = (heard + 1) % MaxDatagrams
  /\ Keep
  /\ UNCHANGED <<pc, result, sure, token>>
  /\ UNCHANGED <<world, single, attempts, loaded, raised, acts, done>>

\* A datagram of another request, or of no meaning.
Ignore ==
  /\ At("receive")
  /\ heard' = heard + 1
  /\ IF heard' < MaxDatagrams
     THEN Keep /\ UNCHANGED <<pc, result, sure, token>>
     ELSE NextSource
  /\ UNCHANGED <<world, single, attempts, loaded, raised, acts, done>>

ReceiveTimeout ==
  /\ At("receive")
  /\ NextSource
  /\ UNCHANGED <<world, scratch, loaded, raised, acts, done>>

AskKonsole ==
  /\ At("konsole")
  /\ \/ pc' = pc + 1 /\ Held
     \/ FallBack /\ UNCHANGED token
  /\ Keep
  /\ UNCHANGED <<world, scratch, loaded, raised, acts, done>>

-----------------------------------------------------------------------------
(* The bridge.                                                             *)

\* A refusal, a failure or a timeout costs the token, and so does a session
\* whose number does not fit the bridge's argument.
Activate ==
  /\ At("activate")
  /\ token' = "spent"
  /\ \/ /\ acts' = acts \cup {"activate"} /\ done' = done \cup {"activate"}
        /\ Report("Requested") /\ UNCHANGED sure
     \/ /\ acts' \in {acts, acts \cup {"activate"}}
        /\ FallBack /\ Keep /\ UNCHANGED done
  /\ UNCHANGED <<world, scratch, loaded, raised>>

-----------------------------------------------------------------------------
(* The fallbacks.                                                          *)

\* A command that timed out, or whose output is refused, may have focused
\* the window.
KittenFocus(outcome) ==
  /\ acts' = acts \cup {"focus"}
  /\ done' = IF outcome = "Ok" THEN done \cup {"focus"} ELSE done

FocusKitty ==
  /\ At("focus")
  /\ \E outcome \in {"Ok", "Unavailable", "Failed", "Other"} :
       /\ KittenFocus(outcome)
       /\ \/ outcome = "Ok" /\ Report("KittySelected")
          \/ outcome = "Failed" /\ Report("NoOp")
          \/ outcome # "Ok" /\ Report("Error")
  /\ UNCHANGED <<world, token, scratch, loaded, raised, sure>>

SelectTab ==
  /\ At("select")
  /\ acts' = acts \cup {"select"}
  /\ sure' = sure \ {"process", "owner"}
  /\ \/ Continue /\ Keep
     \/ Report("Error")
  /\ UNCHANGED <<world, token, scratch, loaded, raised, done>>

\* The tab is the current one: that is all for one of several windows.
Verified ==
  /\ At("verify")
  /\ done' = done \cup {"select"}
  /\ IF single THEN Continue /\ Keep ELSE Report("TabSelected")
  /\ UNCHANGED <<world, token, scratch, loaded, raised, sure, acts>>

NotYet ==
  /\ At("verify")
  /\ attempts' = attempts + 1
  /\ IF attempts' < MaxAttempts THEN Keep /\ UNCHANGED <<pc, result>> ELSE Report("NoOp")
  /\ UNCHANGED <<world, token, single, heard, loaded, raised, history>>

VerifyFails ==
  /\ At("verify")
  /\ \E r \in {"NoOp", "Error"} : Report(r)
  /\ UNCHANGED <<world, token, scratch, loaded, raised, history>>

\* Mutant of CreateScript: its value is made when the script is written.
CreateScriptLate ==
  /\ At("script")
  /\ \/ Continue /\ Make("script")
     \/ Report("Error")
     \/ /\ result' = "Error" /\ lying' = lying \cup {"script"}
        /\ UNCHANGED <<pc, guards, slips>>
  /\ UNCHANGED <<world, token, scratch, loaded, raised, history>>

\* The file is not opened; or it is, and not written.
CreateScript ==
  /\ At("script")
  /\ \/ Continue /\ Make("script")
     \/ Report("Error")
     \/ Finish("Error", guards \cup {"script"})
  /\ UNCHANGED <<world, token, scratch, loaded, raised, history>>

\* A command that timed out may have been executed.
LoadScript ==
  /\ At("load")
  /\ \/ Continue /\ Keep /\ loaded' = TRUE
     \/ Report("Error") /\ loaded' \in BOOLEAN
  /\ UNCHANGED <<world, token, scratch, raised, history>>

\* The script raises the window of the owner if it is the only one; whether
\* it does is not known.
RunScript ==
  /\ At("run")
  /\ Continue /\ Keep
  /\ acts' = acts \cup {"raise"}
  /\ raised' \in BOOLEAN
  /\ done' = IF raised' THEN done \cup {"raise"} ELSE done
  /\ UNCHANGED <<world, token, scratch, loaded, sure>>

\* Mutant of UnloadScript: a script that stays is not reported.
UnloadScriptSilent ==
  /\ At("unload")
  /\ \/ loaded' = FALSE /\ Report(IF raised THEN "Requested" ELSE "Error")
     \/ UNCHANGED loaded /\ Report(IF raised THEN "Requested" ELSE "Error")
  /\ UNCHANGED <<world, token, scratch, raised, history>>

\* It is unloaded whether it ran or not.
UnloadScript ==
  /\ At("unload")
  /\ \/ loaded' = FALSE /\ Report(IF raised THEN "Requested" ELSE "Error")
     \/ UNCHANGED loaded /\ Report("Error")
  /\ UNCHANGED <<world, token, scratch, raised, history>>

-----------------------------------------------------------------------------
(* The surroundings.                                                       *)

\* The caller drops the attempt.
Cancel ==
  /\ result = None
  /\ Report("Cancelled")
  /\ UNCHANGED <<world, token, scratch, loaded, raised, history>>

\* A tab moves, a window closes or opens, a program ends, another one takes
\* over its process ID: what belongs to the identity of a process is gone
\* for good, the rest may come again.
Change ==
  /\ result = None /\ changes < MaxChanges
  /\ changes' = changes + 1
  /\ \E f \in Promise!Facts[client] :
       there' = IF f \in there THEN there \ {f}
                ELSE IF f \in {"window", "session"} THEN there \cup {f} ELSE there
  /\ source' \in {source, FALSE}
  /\ UNCHANGED <<client, token, result, pc, scratch, things, history>>

\* The row is that of a target as it was sampled some time ago.  Names of
\* files are random: what earlier attempts have left is not in the way.
Begin(c) ==
  /\ client' = c
  /\ there' \in {Promise!Facts[c]} \cup {Promise!Facts[c] \ {f} : f \in Promise!Facts[c]}
  /\ source' \in BOOLEAN
  /\ token' = "none" /\ result' = None /\ pc' = 1
  /\ single' = FALSE /\ attempts' = 0 /\ heard' = 0
  /\ lying' = {} /\ guards' = {} /\ slips' = {} /\ loaded' = FALSE /\ raised' = FALSE
  /\ changes' = 0
  /\ sure' = {} /\ acts' = {} /\ done' = {}

\* No attempt was made yet.
AttemptInit ==
  /\ client \in Promise!Clients
  /\ there = Promise!Facts[client]
  /\ source = TRUE
  /\ token = "none" /\ result = "Cancelled" /\ pc = 1
  /\ single = FALSE /\ attempts = 0 /\ heard = 0
  /\ lying = {} /\ guards = {} /\ slips = {} /\ loaded = FALSE /\ raised = FALSE
  /\ changes = 0
  /\ sure = {} /\ acts = {} /\ done = {}

\* The steps of the attempt itself.
AttemptStep ==
  \/ \E f \in {"process", "owner", "window", "session", "target"} : Check(f)
  \/ \E question \in {"version", "capabilities"} : Negotiate(question)
  \/ Supported
  \/ \E step \in {"probe", "request"} : AskKitty(step)
  \/ BindSocket \/ Receive \/ Ignore \/ ReceiveTimeout \/ AskKonsole
  \/ Activate \/ FocusKitty
  \/ SelectTab \/ Verified \/ NotYet \/ VerifyFails
  \/ CreateScript \/ LoadScript \/ RunScript \/ UnloadScript

AttemptNext ==
  \/ AttemptStep \/ Cancel \/ Change
  \/ result # None /\ \E c \in Promise!Clients : Begin(c)

AttemptSpec == AttemptInit /\ [][AttemptNext]_attemptVars

-----------------------------------------------------------------------------
(* Properties.                                                             *)

\* Every attempt keeps the promise: the token is handed out once at most, a
\* target is touched only when all of its facts were seen to hold since the
\* token was waited for, the fallback starts from nothing known, and what is
\* reported was done.
KeepsPromise == Promise!PromiseSpec

\* However an attempt ends, by a report at any step or by being dropped at
\* any await, it has tried to remove its script, also one that was never
\* written, and its socket, unless the socket could not be secured after it
\* was bound: what it has left is what could not be removed and that.  A
\* script is left loaded in KWin only if the user is told of an error, or the
\* attempt was dropped.
LeavesNothing ==
  result # None =>
    /\ "script" \in lying => "script" \in slips
    /\ "socket" \in lying => slips \cap {"secure", "socket"} # {}
    /\ loaded => result \in {"Error", "Cancelled"}
=============================================================================
