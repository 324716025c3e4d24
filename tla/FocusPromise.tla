---------------------------- MODULE FocusPromise ----------------------------
(***************************************************************************)
(* What Enter promises, whatever the way it takes to keep it: the terminal *)
(* of the selected row, and no other, is brought to the front, with one    *)
(* activation token at most, and the user is told what was done.           *)
(*                                                                         *)
(* A target is what a set of facts says of it: its process, and what its   *)
(* terminal program shows of it.  Facts come and go without notice.  The   *)
(* promise is that nothing is done on facts from before the last time      *)
(* somebody else was waited for.                                           *)
(***************************************************************************)
EXTENDS Naturals

CONSTANT None

Clients == {"konsole", "kitty"}

\* The facts that make a target what it was when its row was sampled.
Facts == [konsole |-> {"process", "owner", "window", "session"},
          kitty |-> {"process", "target"}]

\* The commands that change what the user sees.
Acts == {"activate", "select", "raise", "focus"}

Results == {"Requested", "TabSelected", "KittySelected", "NoOp", "Error", "Cancelled"}

VARIABLES
  client,  \* the program the target runs in
  there,   \* the facts that hold
  sure,    \* the facts that were seen to hold since the last wait
  token,   \* the activation token: none, held or spent
  acts,    \* the commands sent
  done,    \* the commands that were acknowledged
  result   \* what is reported; None before

promiseVars == <<client, there, sure, token, acts, done, result>>

Certain == sure = Facts[client]

Truthful(r, d) ==
  /\ r = "Requested" => d \cap {"activate", "raise"} # {}
  /\ r = "TabSelected" => "select" \in d /\ "raise" \notin d
  /\ r = "KittySelected" => "focus" \in d
  /\ r = "NoOp" => d \cap {"activate", "raise", "focus"} = {}

-----------------------------------------------------------------------------

Change ==
  /\ there' \in SUBSET Facts[client]
  /\ UNCHANGED <<client, sure, token, acts, done, result>>

Begin ==
  /\ result # None
  /\ client' \in Clients
  /\ there' \in SUBSET Facts[client']
  /\ sure' = {} /\ token' = "none" /\ acts' = {} /\ done' = {} /\ result' = None

Confirm ==
  /\ result = None
  /\ sure' \in SUBSET (sure \cup there)
  /\ sure \subseteq sure'
  /\ UNCHANGED <<client, there, token, acts, done, result>>

\* A token comes from another program, and what was known is old by then.
Acquire ==
  /\ result = None
  /\ token = "none" /\ token' = "held"
  /\ sure' = {}
  /\ UNCHANGED <<client, there, acts, done, result>>

\* Without a token, or after it was of no use, everything starts over.
StartOver ==
  /\ result = None
  /\ token # "held"
  /\ sure' = {}
  /\ UNCHANGED <<client, there, token, acts, done, result>>

\* The token is handed out, once, for a target that is certain.
Activate(accepted) ==
  /\ result = None
  /\ token = "held" /\ Certain
  /\ token' = "spent"
  /\ IF accepted
     THEN /\ acts' = acts \cup {"activate"} /\ done' = done \cup {"activate"}
          /\ result' = "Requested" /\ sure' = sure
     ELSE /\ acts' \in {acts, acts \cup {"activate"}} /\ done' = done
          /\ result' = None /\ sure' = {}
  /\ UNCHANGED <<client, there>>

\* The fallback selects, raises or focuses a target that is certain; only a
\* tab that was selected is raised, and its process and owner are looked at
\* once more before.
Do(a) ==
  /\ result = None
  /\ token # "held" /\ Certain
  /\ a \in {"select", "focus", "raise"}
  /\ a = "raise" => "select" \in done
  /\ acts' = acts \cup {a}
  /\ sure' = IF a = "select" THEN sure \ {"process", "owner"} ELSE sure
  /\ done' \in {done, done \cup {a}}
  /\ \/ result' = None
     \/ result' \in Results /\ Truthful(result', done')
  /\ UNCHANGED <<client, there, token>>

Acknowledge ==
  /\ result = None
  /\ "select" \in acts
  /\ done' = done \cup {"select"}
  /\ result' \in {None, "TabSelected"}
  /\ result' = "TabSelected" => "raise" \notin done
  /\ UNCHANGED <<client, there, sure, token, acts>>

Report(r) ==
  /\ result = None
  /\ Truthful(r, done)
  /\ result' = r
  /\ UNCHANGED <<client, there, sure, token, acts, done>>

\* No attempt is under way.
PromiseInit ==
  /\ client \in Clients /\ there \in SUBSET Facts[client]
  /\ sure = {} /\ token = "none" /\ acts = {} /\ done = {} /\ result = "Cancelled"

PromiseNext ==
  \/ Change \/ Begin \/ Confirm \/ Acquire \/ StartOver \/ Acknowledge
  \/ \E accepted \in BOOLEAN : Activate(accepted)
  \/ \E a \in Acts : Do(a)
  \/ \E r \in Results : Report(r)

PromiseSpec == PromiseInit /\ [][PromiseNext]_promiseVars
=============================================================================
