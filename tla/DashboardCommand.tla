-------------------------- MODULE DashboardCommand --------------------------
(***************************************************************************)
(* The dashboard command: run_dashboard of src/src/main.rs with its        *)
(* TerminalGuard, around the focus attempts it makes.                      *)
(*                                                                         *)
(* The terminal is put into raw mode and onto its alternate screen; the    *)
(* loop then waits for signals, keys, events of the monitor and timers.    *)
(* While an attempt to focus is under way it waits for that attempt and    *)
(* for the signals only.  Whatever ends the loop, the terminal is restored *)
(* before the monitor is waited for, and once more, as far as it was not,  *)
(* when the guard is dropped.                                              *)
(***************************************************************************)
EXTENDS FocusAttempt, FiniteSets

CONSTANTS MaxKeys,   \* bound: how often Enter is pressed
          MaxFaults  \* bound: terminal operations that fail

VARIABLES
  stage,    \* where the command is
  active,   \* the terminal modes the guard knows to be on: "raw", "screen"
  monitor,  \* the monitor's tasks
  signal,   \* SIGINT or SIGTERM was received and not yet acted on
  keys,     \* how often Enter was pressed
  refused   \* modes that failed to be left, as often as that happened

commandVars == <<stage, active, monitor, signal, keys, refused>>
allVars == <<commandVars, attemptVars>>

Modes == {"raw", "screen"}

ASSUME CommandAssumption == MaxKeys \in Nat /\ MaxFaults \in Nat

Faults == refused["raw"] + refused["screen"]

Goes(from, to) == stage = from /\ stage' = to

-----------------------------------------------------------------------------
(* Starting.                                                               *)

\* Raw mode comes first, then the screen; if that fails, raw mode is left,
\* and again when the guard is dropped if it could not be.
Enter ==
  /\ \/ Goes("entering", "opening") /\ active' = Modes
     \/ Goes("entering", "dropping") /\ active' \in SUBSET {"raw"}
     \/ Goes("entering", "exited") /\ UNCHANGED active
  /\ UNCHANGED <<monitor, signal, keys, refused>>

\* The terminal is opened, the monitor spawned, the first frame drawn.
Open ==
  /\ \/ Goes("opening", "dropping") /\ UNCHANGED monitor
     \/ Goes("opening", "looping") /\ monitor' = "running"
     \/ Goes("opening", "restoring") /\ monitor' = "stopping"
  /\ UNCHANGED <<active, signal, keys, refused>>

-----------------------------------------------------------------------------
(* The loop.                                                               *)

\* A signal, q, a failed draw, the end of the terminal's or the monitor's
\* events.
Quits ==
  /\ Goes("looping", "restoring")
  /\ monitor' = "stopping"
  /\ UNCHANGED <<active, keys, refused>>

TakeSignal == signal /\ Quits /\ signal' = FALSE

Quit == Quits /\ UNCHANGED signal

FocusSelected ==
  /\ keys < MaxKeys /\ keys' = keys + 1
  /\ Goes("looping", "focusing")
  /\ \E c \in Promise!Clients : Begin(c)
  /\ UNCHANGED <<active, monitor, signal, refused>>

\* The result is shown, or showing it fails.
ReportFocus ==
  /\ result # None
  /\ \/ Goes("focusing", "looping") /\ UNCHANGED monitor
     \/ Goes("focusing", "restoring") /\ monitor' = "stopping"
  /\ UNCHANGED <<active, signal, keys, refused, attemptVars>>

\* Mutant of Interrupted: the attempt takes the signal for itself.
InterruptedOnly ==
  /\ signal /\ signal' = FALSE
  /\ Goes("focusing", "looping")
  /\ Cancel
  /\ UNCHANGED <<active, monitor, keys, refused>>

\* A signal drops the attempt.
Interrupted ==
  /\ signal /\ signal' = FALSE
  /\ Goes("focusing", "restoring")
  /\ monitor' = "stopping"
  /\ Cancel
  /\ UNCHANGED <<active, keys, refused>>

-----------------------------------------------------------------------------
(* Ending.                                                                 *)

\* Mutant of Restore: raw mode is left only if the screen could be.
RestoreInOrder ==
  \E failed \in {f \in SUBSET active : "screen" \in f => active = f} :
    /\ Faults + Cardinality(failed \cap {"screen"}) <= MaxFaults
    /\ active' = failed
    /\ refused' = [w \in Modes |->
                     refused[w] + (IF w = "screen" /\ w \in failed THEN 1 ELSE 0)]

\* Each mode that is on is left, whether the other one could be left or not.
Restore ==
  \E failed \in SUBSET active :
    /\ Faults + Cardinality(failed) <= MaxFaults
    /\ active' = failed
    /\ refused' = [w \in Modes |-> refused[w] + (IF w \in failed THEN 1 ELSE 0)]

RestoreTerminal ==
  /\ Goes("restoring", "joining")
  /\ Restore
  /\ UNCHANGED <<monitor, signal, keys>>

\* Within the grace period, or aborted after it.
JoinMonitor ==
  /\ Goes("joining", "dropping")
  /\ monitor' = "joined"
  /\ UNCHANGED <<active, signal, keys, refused>>

DropGuard ==
  /\ Goes("dropping", "exited")
  /\ Restore
  /\ UNCHANGED <<monitor, signal, keys>>

-----------------------------------------------------------------------------

Signal ==
  /\ stage \notin {"entering", "exited"} /\ ~signal
  /\ signal' = TRUE
  /\ UNCHANGED <<stage, active, monitor, keys, refused, attemptVars>>

CommandInit ==
  /\ stage = "entering" /\ active = {} /\ monitor = "none"
  /\ signal = FALSE /\ keys = 0 /\ refused = [w \in Modes |-> 0]
  /\ AttemptInit

CommandStep ==
  \/ Enter \/ Open \/ TakeSignal
  \/ RestoreTerminal \/ JoinMonitor \/ DropGuard

Attempting == stage = "focusing" /\ AttemptStep /\ UNCHANGED commandVars

Next ==
  \/ CommandStep /\ UNCHANGED attemptVars
  \/ Quit /\ UNCHANGED attemptVars
  \/ FocusSelected \/ ReportFocus \/ Interrupted
  \/ Attempting
  \/ stage = "focusing" /\ Change /\ UNCHANGED commandVars
  \/ Signal
  \/ stage = "exited" /\ UNCHANGED allVars

\* The command runs, and every command it waits for answers or times out.
Spec ==
  /\ CommandInit /\ [][Next]_allVars
  /\ WF_allVars(CommandStep /\ UNCHANGED attemptVars)
  /\ WF_allVars(ReportFocus) /\ WF_allVars(Interrupted)
  /\ WF_allVars(Attempting)

-----------------------------------------------------------------------------
(* Properties.                                                             *)

\* When the command has ended, and already while it waits for the monitor,
\* the terminal is as it was, but for a mode that could not be left; and
\* nothing the monitor spawned is left running.
TerminalRestored ==
  /\ stage \in {"joining", "exited"} => \A w \in active : refused[w] > 0
  /\ stage = "exited" => monitor \in {"none", "joined"}

\* A signal ends the command, whatever it is waiting for, and an attempt to
\* focus ends even if a token never comes.
NeverStuck ==
  /\ signal ~> stage = "exited"
  /\ stage = "focusing" ~> stage # "focusing"
=============================================================================
