------------------------ MODULE DashboardCommand_proofs ------------------------
(***************************************************************************)
(* Proofs about FocusAttempt and DashboardCommand, for any bounds: an      *)
(* attempt keeps its promise, which is that it refines FocusPromise, and   *)
(* leaves nothing behind but what could not be removed, or secured once it *)
(* was bound; the attempts of the command are those of                     *)
(* FocusAttempt, whose theorems therefore hold of it, and the terminal is  *)
(* restored.                                                               *)
(***************************************************************************)
EXTENDS DashboardCommand, TLAPS

-----------------------------------------------------------------------------
(* Where the program counter is when a step is next.                       *)

KonsoleAt(S) == client = "konsole" /\ pc \in S

KittyAt(S) == client = "kitty" /\ pc \in S

InProgram ==
  \/ client = "konsole" /\ pc \in 1 .. 32
  \/ client = "kitty" /\ pc \in 1 .. 12

\* The places of each step in the two programs.
LEMMA Places ==
  ASSUME InProgram
  PROVE  /\ At("process") => KonsoleAt({1, 5, 16, 21, 28}) \/ KittyAt({1})
         /\ At("owner") => KonsoleAt({2, 6, 17, 22, 27})
         /\ At("window") => KonsoleAt({3, 7, 18, 23})
         /\ At("session") => KonsoleAt({4, 8, 19, 24})
         /\ At("target") => KittyAt({2, 9, 11})
         /\ At("version") => KonsoleAt({9})
         /\ At("capabilities") => KonsoleAt({10})
         /\ At("supported") => KittyAt({3})
         /\ At("probe") => KonsoleAt({11}) \/ KittyAt({4})
         /\ At("bind") => KonsoleAt({12}) \/ KittyAt({5})
         /\ At("request") => KonsoleAt({13}) \/ KittyAt({6})
         /\ At("receive") => KonsoleAt({14}) \/ KittyAt({7})
         /\ At("konsole") => KonsoleAt({15}) \/ KittyAt({8})
         /\ At("activate") => KonsoleAt({20}) \/ KittyAt({10})
         /\ At("focus") => KittyAt({12})
         /\ At("select") => KonsoleAt({25})
         /\ At("verify") => KonsoleAt({26})
         /\ At("script") => KonsoleAt({29})
         /\ At("load") => KonsoleAt({30})
         /\ At("run") => KonsoleAt({31})
         /\ At("unload") => KonsoleAt({32})
<1>1. CASE client = "konsole" /\ pc \in 1 .. 32
  BY <1>1 DEF At, Steps, KonsoleAt, KittyAt
<1>2. CASE client = "kitty" /\ pc \in 1 .. 12
  BY <1>2 DEF At, Steps, KonsoleAt, KittyAt
<1> QED BY <1>1, <1>2 DEF InProgram

-----------------------------------------------------------------------------
(* The inductive invariant.                                                *)

\* The values the variables have.
Typed ==
  /\ InProgram
  /\ result \in Promise!Results \cup {None}
  /\ token \in {"none", "held", "spent"}
  /\ there \subseteq Promise!Facts[client]
  /\ sure \subseteq Promise!Facts[client]
  /\ raised \in BOOLEAN /\ loaded \in BOOLEAN

\* What lies in the file system and is held by nothing was not to be removed.
Accounted ==
  /\ "script" \in lying \ guards => "script" \in slips
  /\ "socket" \in lying \ guards => slips \cap {"secure", "socket"} # {}

\* The token is asked for before it is spent, and spent before the fallback.
TokenInTime ==
  /\ client = "konsole" => /\ pc <= 15 => token = "none"
                           /\ pc \in 16 .. 20 => token = "held"
                           /\ pc >= 21 => token # "held"
  /\ client = "kitty" => /\ pc <= 8 => token = "none"
                         /\ pc \in 9 .. 10 => token = "held"
                         /\ pc >= 11 => token # "held"

\* What was checked is known until the next wait.
KnownInTime ==
  /\ client = "konsole" =>
       /\ pc \in (17 .. 20) \cup (22 .. 25) \cup (29 .. 31) => "process" \in sure
       /\ pc \in (18 .. 20) \cup (23 .. 25) \cup (28 .. 31) => "owner" \in sure
       /\ pc \in (19 .. 20) \cup (24 .. 31) => "window" \in sure
       /\ pc \in {20} \cup (25 .. 31) => "session" \in sure
  /\ client = "kitty" => (pc \in {10, 12} => {"process", "target"} \subseteq sure)

\* What was done, and what KWin holds.
DoneInTime ==
  /\ client = "konsole" =>
       /\ pc <= 26 => done = {}
       /\ pc >= 26 => "select" \in acts
       /\ pc >= 27 => "select" \in done
       /\ done \subseteq {"select", "raise"}
       /\ "raise" \in done => raised /\ pc = 32
       /\ raised /\ pc = 32 => "raise" \in done
       /\ loaded => pc >= 31
  /\ client = "kitty" => done = {} /\ ~loaded

IInv ==
  /\ Typed
  /\ Accounted
  /\ result = None => TokenInTime /\ KnownInTime /\ DoneInTime
  /\ LeavesNothing

LEMMA InitIInv == AttemptInit => IInv
<1> SUFFICES ASSUME AttemptInit PROVE IInv
  OBVIOUS
<1>1. InProgram
  BY DEF AttemptInit, Promise!Clients, InProgram
<1>2. result = "Cancelled" /\ result # None
  BY FocusAssumption DEF AttemptInit, Promise!Results
<1>3. /\ raised \in BOOLEAN /\ loaded \in BOOLEAN /\ Accounted
  BY DEF AttemptInit, Accounted
<1>4. Typed
  BY <1>1, <1>2, <1>3 DEF AttemptInit, Typed, Promise!Results
<1>5. LeavesNothing
  BY DEF AttemptInit, LeavesNothing
<1> QED BY <1>2, <1>3, <1>4, <1>5 DEF IInv

\* All the ways in which the program deals with its files keep account.
LEMMA FilesAccounted ==
  ASSUME Accounted,
         \/ Keep \/ Unsecured \/ Make("socket") \/ Make("script")
         \/ Drop(guards) \/ Drop(guards \cap {"socket"})
         \/ Drop({"socket"}) \/ Drop(guards \cup {"script"})
  PROVE  Accounted'
<1>1. CASE Keep \/ Unsecured \/ Make("socket") \/ Make("script")
  BY <1>1 DEF Accounted, Keep, left, Unsecured, Make
<1>2. CASE Drop(guards) \/ Drop(guards \cup {"script"})
  BY <1>2 DEF Accounted, Drop
<1>3. CASE Drop(guards \cap {"socket"}) \/ Drop({"socket"})
  BY <1>3 DEF Accounted, Drop
<1> QED BY <1>1, <1>2, <1>3

\* An attempt ends by a report, or because its script could not be written.
Ended(r) == Report(r) \/ Finish(r, guards \cup {"script"})

\* Nothing is held by an attempt that has ended.
LEMMA EndedFree ==
  ASSUME Accounted, NEW r, Ended(r)
  PROVE  /\ result' = r /\ UNCHANGED pc
         /\ Accounted' /\ guards' = {}
<1>1. result' = r /\ UNCHANGED pc /\ (Drop(guards) \/ Drop(guards \cup {"script"}))
  BY DEF Ended, Report, Finish
<1>2. guards' = {}
  BY <1>1 DEF Drop
<1> QED BY <1>1, <1>2, FilesAccounted

-----------------------------------------------------------------------------
(* Every step preserves the invariant and is a step of FocusPromise, or    *)
(* changes nothing there.                                                  *)

Keeps == IInv' /\ [Promise!PromiseNext]_(Promise!promiseVars)

\* The end of an attempt by a report that is true.
LEMMA Reports ==
  ASSUME IInv, NEW r, result = None, r \in Promise!Results, Ended(r),
         Promise!Truthful(r, done),
         loaded' \in BOOLEAN, loaded' => r \in {"Error", "Cancelled"},
         UNCHANGED <<client, there, sure, token, acts, done, raised>>
  PROVE  Keeps
<1>1. result' = r /\ r # None /\ UNCHANGED pc /\ Accounted' /\ guards' = {}
  BY EndedFree, FocusAssumption DEF IInv
<1>2. Typed'
  <2>1. InProgram'
    BY <1>1 DEF IInv, Typed, InProgram
  <2>2. raised' \in BOOLEAN
    BY DEF IInv, Typed
  <2> QED BY <1>1, <2>1, <2>2 DEF IInv, Typed
<1>3. LeavesNothing'
  BY <1>1 DEF LeavesNothing, Accounted
<1>4. Promise!Report(r)
  BY <1>1 DEF Promise!Report
<1> QED BY <1>1, <1>2, <1>3, <1>4 DEF Keeps, IInv, Promise!PromiseNext

\* An attempt goes on.
LEMMA GoesOn ==
  ASSUME IInv, result = None, result' = None, UNCHANGED <<client, there>>,
         InProgram', token' \in {"none", "held", "spent"},
         sure' \subseteq Promise!Facts[client],
         raised' \in BOOLEAN, loaded' \in BOOLEAN, Accounted',
         TokenInTime', KnownInTime', DoneInTime'
  PROVE  IInv'
<1>1. Typed'
  BY DEF IInv, Typed
<1>2. LeavesNothing'
  BY DEF LeavesNothing
<1> QED BY <1>1, <1>2 DEF IInv

LEMMA CheckStep ==
  ASSUME IInv, NEW f \in {"process", "owner", "window", "session", "target"}, Check(f)
  PROVE  Keeps
<1>1. result = None /\ At(f)
  BY DEF Check, At
<1>2. InProgram
  BY DEF IInv, Typed
<1>3. /\ f = "process" => KonsoleAt({1, 5, 16, 21, 28}) \/ KittyAt({1})
      /\ f = "owner" => KonsoleAt({2, 6, 17, 22, 27})
      /\ f = "window" => KonsoleAt({3, 7, 18, 23})
      /\ f = "session" => KonsoleAt({4, 8, 19, 24})
      /\ f = "target" => KittyAt({2, 9, 11})
  BY <1>1, <1>2, Places
<1>4. UNCHANGED <<client, there, token, acts, done, loaded, raised>>
  BY DEF Check, world
<1>5. TokenInTime /\ KnownInTime /\ DoneInTime
  BY <1>1 DEF IInv
<1>6. CASE Demanded(f) \subseteq there /\ Continue /\ sure' = sure \cup Demanded(f) /\ Keep
  <2>1. result' = None /\ pc' = pc + 1
    BY <1>6 DEF Continue
  <2>2. InProgram'
    BY <1>3, <1>4, <2>1 DEF InProgram, KonsoleAt, KittyAt
  <2>3. sure' \subseteq Promise!Facts[client] /\ sure \subseteq sure' /\ sure' \subseteq sure \cup there
    BY <1>6 DEF IInv, Typed
  <2>4. Accounted' /\ raised' \in BOOLEAN /\ loaded' \in BOOLEAN
    BY <1>4, <1>6, FilesAccounted DEF IInv, Typed
  <2>5. token' \in {"none", "held", "spent"}
    BY <1>4 DEF IInv, Typed
  <2>6. TokenInTime'
    BY <1>3, <1>4, <1>5, <2>1 DEF TokenInTime, KonsoleAt, KittyAt
  <2>7. KnownInTime'
    <3>1. (f # "target" => f \in sure') /\ (f = "target" => {"process", "target"} \subseteq sure')
      BY <1>6 DEF Demanded
    <3> QED BY <1>3, <1>4, <1>5, <2>1, <2>3, <3>1 DEF KnownInTime, KonsoleAt, KittyAt
  <2>8. DoneInTime'
    BY <1>3, <1>4, <1>5, <2>1 DEF DoneInTime, KonsoleAt, KittyAt
  <2>9. IInv'
    BY <1>1, <1>4, <2>1, <2>2, <2>3, <2>4, <2>5, <2>6, <2>7, <2>8, GoesOn
  <2>10. Promise!Confirm
    BY <1>1, <1>4, <2>1, <2>3 DEF Promise!Confirm
  <2> QED BY <2>9, <2>10 DEF Keeps, Promise!PromiseNext
<1>7. CASE (\E r \in {"NoOp", "Error"} : Report(r)) /\ UNCHANGED sure
  <2>1. PICK r \in {"NoOp", "Error"} : Report(r)
    BY <1>7
  <2>2. done \cap {"activate", "raise", "focus"} = {} /\ ~loaded
    BY <1>3, <1>5 DEF DoneInTime, KonsoleAt, KittyAt
  <2>3. Promise!Truthful(r, done)
    BY <2>2 DEF Promise!Truthful
  <2>4. r \in Promise!Results
    BY DEF Promise!Results
  <2>5. loaded' \in BOOLEAN /\ (loaded' => r \in {"Error", "Cancelled"})
    <3>1. loaded \in BOOLEAN /\ loaded' = loaded
      BY <1>4 DEF IInv, Typed
    <3> QED BY <2>2, <3>1, Zenon
  <2>6. UNCHANGED <<client, there, sure, token, acts, done, raised>>
    BY <1>4, <1>7
  <2> QED BY <1>1, <2>1, <2>3, <2>4, <2>5, <2>6, Reports DEF Ended
<1>8. \/ Demanded(f) \subseteq there /\ Continue /\ sure' = sure \cup Demanded(f) /\ Keep
      \/ (\E r \in {"NoOp", "Error"} : Report(r)) /\ UNCHANGED sure
  BY DEF Check
<1> QED BY <1>6, <1>7, <1>8

LEMMA FallsBack ==
  ASSUME IInv, result = None, FallBack, UNCHANGED <<client, there, loaded, raised, done>>,
         done = {}, ~loaded, token' \in {"none", "spent"},
         Accounted'
  PROVE  IInv' /\ result' = None /\ sure' = {}
<1>1. InProgram
  BY DEF IInv, Typed
<1>2. /\ client = "konsole" => pc' = 21
      /\ client = "kitty" => pc' = 11
  BY DEF FallBack, Fallback
<1>3. InProgram'
  BY <1>1, <1>2 DEF InProgram
<1>4. sure' = {} /\ result' = None
  BY DEF FallBack
<1>5. TokenInTime' /\ KnownInTime'
  BY <1>1, <1>2 DEF InProgram, TokenInTime, KnownInTime
<1>6. DoneInTime'
  BY <1>1, <1>2 DEF InProgram, DoneInTime
<1>7. raised' \in BOOLEAN /\ loaded' \in BOOLEAN
  BY DEF IInv, Typed
<1> QED BY <1>3, <1>4, <1>5, <1>6, <1>7, GoesOn

\* The first half of both programs.
Asking == KonsoleAt(1 .. 15) \/ KittyAt(1 .. 8)

LEMMA EarlyFacts ==
  ASSUME IInv, result = None, Asking
  PROVE  token = "none" /\ done = {} /\ ~loaded
<1>1. TokenInTime /\ DoneInTime
  BY DEF IInv
<1> QED BY <1>1 DEF TokenInTime, DoneInTime, Asking, KonsoleAt, KittyAt

\* A step of the first half that learns nothing.
LEMMA AsksOn ==
  ASSUME IInv, result = None, Asking,
         UNCHANGED <<client, there, token, result, sure, acts, done, loaded, raised>>,
         pc' \in Nat, pc' <= Konsole[client], pc' > 0,
         client = "konsole" => pc' >= 9,
         Accounted'
  PROVE  Keeps
<1>1. InProgram
  BY DEF IInv, Typed
<1>2. /\ client = "konsole" => pc' \in 9 .. 15
      /\ client = "kitty" => pc' \in 1 .. 8
  BY <1>1 DEF Konsole, InProgram
<1>3. InProgram'
  BY <1>1, <1>2 DEF InProgram
<1>4. token = "none" /\ done = {} /\ ~loaded
  BY EarlyFacts
<1>5. TokenInTime' /\ KnownInTime' /\ DoneInTime'
  <2>1. TokenInTime'
    BY <1>1, <1>2, <1>4 DEF InProgram, TokenInTime
  <2>2. KnownInTime'
    BY <1>1, <1>2 DEF InProgram, KnownInTime
  <2>3. DoneInTime'
    BY <1>1, <1>2, <1>4 DEF InProgram, DoneInTime
  <2> QED BY <2>1, <2>2, <2>3
<1>6. /\ token' \in {"none", "held", "spent"} /\ sure' \subseteq Promise!Facts[client]
      /\ raised' \in BOOLEAN /\ loaded' \in BOOLEAN
  BY <1>4 DEF IInv, Typed
<1>7. IInv'
  BY <1>3, <1>5, <1>6, GoesOn
<1>8. UNCHANGED Promise!promiseVars
  BY DEF Promise!promiseVars
<1> QED BY <1>7, <1>8 DEF Keeps

LEMMA BridgeStep ==
  ASSUME IInv, NEW q \in {"version", "capabilities", "supported"}, At(q), BridgeAnswers, Keep,
         UNCHANGED <<world, token, loaded, raised, acts, done>>
  PROVE  Keeps
<1>1. result = None /\ At(q)
  BY DEF At
<1>2. KonsoleAt({9, 10}) \/ KittyAt({3})
  <2>1. InProgram
    BY DEF IInv, Typed
  <2> QED BY <1>1, <2>1, Places DEF KonsoleAt, KittyAt
<1>3. Asking
  BY <1>2 DEF Asking, KonsoleAt, KittyAt
<1>4. UNCHANGED <<client, there, token, acts, done, loaded, raised>>
  BY DEF world
<1>5. Accounted'
  BY FilesAccounted DEF IInv
<1>6. CASE Continue /\ UNCHANGED sure
  <2>1. result' = result /\ pc' = pc + 1
    BY <1>1, <1>6 DEF Continue
  <2>2. pc' \in Nat /\ pc' <= Konsole[client] /\ pc' > 0 /\ (client = "konsole" => pc' >= 9)
    BY <1>2, <2>1 DEF KonsoleAt, KittyAt, Konsole
  <2> QED BY <1>1, <1>3, <1>4, <1>5, <1>6, <2>1, <2>2, AsksOn
<1>7. CASE FallBack
  <2>1. token = "none" /\ done = {} /\ ~loaded
    BY <1>1, <1>3, EarlyFacts
  <2>2. IInv' /\ result' = None /\ sure' = {}
    BY <1>1, <1>4, <1>5, <1>7, <2>1, FallsBack
  <2>3. Promise!StartOver
    BY <1>1, <1>4, <2>1, <2>2 DEF Promise!StartOver
  <2> QED BY <2>2, <2>3 DEF Keeps, Promise!PromiseNext
<1> QED BY <1>6, <1>7 DEF BridgeAnswers

LEMMA NegotiateStep ==
  ASSUME IInv, NEW q \in {"version", "capabilities"}, Negotiate(q)
  PROVE  Keeps
BY BridgeStep DEF Negotiate

LEMMA SupportedStep == IInv /\ Supported => Keeps
BY BridgeStep DEF Supported

\* Konsole is asked when Kitty is of no use.
LEMMA NextSources ==
  ASSUME IInv, result = None, KonsoleAt(11 .. 14) \/ KittyAt(4 .. 7), NextSource,
         UNCHANGED <<client, there, acts, done, loaded, raised>>
  PROVE  Keeps
<1>1. Asking
  BY DEF Asking, KonsoleAt, KittyAt
<1>2. /\ pc' \in Nat /\ pc' <= Konsole[client] /\ pc' > 0
      /\ pc' \in {8, 15} /\ (client = "konsole" => pc' >= 9)
  BY DEF NextSource, SkipKitty, Konsole, KonsoleAt, KittyAt
<1>3. UNCHANGED <<client, there, token, result, sure, acts, done, loaded, raised>>
  BY DEF NextSource, SkipKitty
<1>4. Accounted'
  BY FilesAccounted DEF NextSource, IInv
<1> QED BY <1>1, <1>2, <1>3, <1>4, AsksOn

LEMMA AskKittyStep ==
  ASSUME IInv, NEW s \in {"probe", "request"}, AskKitty(s)
  PROVE  Keeps
<1>1. result = None /\ At(s)
  BY DEF AskKitty, At
<1>2. KonsoleAt({11, 13}) \/ KittyAt({4, 6})
  <2>1. InProgram
    BY DEF IInv, Typed
  <2> QED BY <1>1, <2>1, Places DEF KonsoleAt, KittyAt
<1>3. UNCHANGED <<client, there, acts, done, loaded, raised>>
  BY DEF AskKitty, world
<1>4. CASE Continue /\ Keep /\ UNCHANGED <<sure, token>>
  <2>1. result' = result /\ pc' = pc + 1
    BY <1>1, <1>4 DEF Continue
  <2>2. pc' \in Nat /\ pc' <= Konsole[client] /\ pc' > 0 /\ (client = "konsole" => pc' >= 9)
    BY <1>2, <2>1 DEF KonsoleAt, KittyAt, Konsole
  <2>3. Accounted'
    BY <1>4, FilesAccounted DEF IInv
  <2>4. Asking
    BY <1>2 DEF Asking, KonsoleAt, KittyAt
  <2> QED BY <1>1, <1>3, <1>4, <2>1, <2>2, <2>3, <2>4, AsksOn
<1>5. CASE NextSource
  <2>1. KonsoleAt(11 .. 14) \/ KittyAt(4 .. 7)
    BY <1>2 DEF KonsoleAt, KittyAt
  <2> QED BY <1>1, <1>3, <1>5, <2>1, NextSources
<1> QED BY <1>4, <1>5 DEF AskKitty

LEMMA BindSocketStep == IInv /\ BindSocket => Keeps
<1> SUFFICES ASSUME IInv, BindSocket PROVE Keeps
  OBVIOUS
<1>1. result = None /\ At("bind")
  BY DEF BindSocket, At
<1>2. KonsoleAt({12}) \/ KittyAt({5})
  BY <1>1, Places DEF IInv, Typed
<1>3. UNCHANGED <<client, there, token, sure, acts, done, loaded, raised>>
  BY DEF BindSocket, SkipKitty, world
<1>4. result' = result /\ (pc' = pc + 1 \/ pc' = Konsole[client])
  BY <1>1 DEF BindSocket, SkipKitty, Continue
<1>5. pc' \in Nat /\ pc' <= Konsole[client] /\ pc' > 0 /\ (client = "konsole" => pc' >= 9)
  BY <1>2, <1>4 DEF KonsoleAt, KittyAt, Konsole
<1>6. Accounted'
  BY FilesAccounted DEF BindSocket, IInv
<1>7. Asking
  BY <1>2 DEF Asking, KonsoleAt, KittyAt
<1> QED BY <1>1, <1>3, <1>4, <1>5, <1>6, <1>7, AsksOn

\* A token has come: what was known is old.
LEMMA TokenComes ==
  ASSUME IInv, result = None, KonsoleAt({14, 15}) \/ KittyAt({7, 8}), Held,
         UNCHANGED <<client, there, acts, done, loaded, raised>>,
         client = "konsole" => pc' = 16, client = "kitty" => pc' = 9,
         Accounted'
  PROVE  Keeps
<1>1. Asking
  BY DEF Asking, KonsoleAt, KittyAt
<1>2. token = "none" /\ done = {} /\ ~loaded
  BY <1>1, EarlyFacts
<1>3. token' = "held" /\ sure' = {} /\ result' = None
  BY DEF Held
<1>4. InProgram' /\ TokenInTime' /\ KnownInTime' /\ DoneInTime'
  <2>1. InProgram' /\ TokenInTime'
    BY <1>3 DEF KonsoleAt, KittyAt, InProgram, TokenInTime
  <2>2. KnownInTime' /\ DoneInTime'
    BY <1>2 DEF KonsoleAt, KittyAt, KnownInTime, DoneInTime
  <2> QED BY <2>1, <2>2
<1>5. raised' \in BOOLEAN /\ loaded' \in BOOLEAN
  BY DEF IInv, Typed
<1>6. IInv'
  BY <1>3, <1>4, <1>5, GoesOn
<1>7. Promise!Acquire
  BY <1>2, <1>3 DEF Promise!Acquire
<1> QED BY <1>6, <1>7 DEF Keeps, Promise!PromiseNext

LEMMA ReceiveStep == IInv /\ Receive => Keeps
<1> SUFFICES ASSUME IInv, Receive PROVE Keeps
  OBVIOUS
<1>1. result = None /\ At("receive")
  BY DEF Receive, At
<1>2. KonsoleAt({14}) \/ KittyAt({7})
  BY <1>1, Places DEF IInv, Typed
<1>3. UNCHANGED <<client, there, acts, done, loaded, raised>>
  BY DEF Receive, world
<1>4. CASE pc' = pc + 2 /\ Drop(guards \cap {"socket"}) /\ Held
  <2>1. /\ client = "konsole" => pc' = 16
        /\ client = "kitty" => pc' = 9
    BY <1>2, <1>4 DEF KonsoleAt, KittyAt
  <2>2. KonsoleAt({14, 15}) \/ KittyAt({7, 8})
    BY <1>2 DEF KonsoleAt, KittyAt
  <2>3. Accounted'
    BY <1>4, FilesAccounted DEF IInv
  <2> QED BY <1>1, <1>3, <1>4, <2>1, <2>2, <2>3, TokenComes
<1>5. CASE NextSource
  <2>1. KonsoleAt(11 .. 14) \/ KittyAt(4 .. 7)
    BY <1>2 DEF KonsoleAt, KittyAt
  <2> QED BY <1>1, <1>3, <1>5, <2>1, NextSources
<1> QED BY <1>4, <1>5 DEF Receive

LEMMA IgnoreStep == IInv /\ Ignore => Keeps
<1> SUFFICES ASSUME IInv, Ignore PROVE Keeps
  OBVIOUS
<1>1. result = None /\ At("receive")
  BY DEF Ignore, At
<1>2. KonsoleAt({14}) \/ KittyAt({7})
  BY <1>1, Places DEF IInv, Typed
<1>3. UNCHANGED <<client, there, acts, done, loaded, raised>>
  BY DEF Ignore, world
<1>4. CASE Keep /\ UNCHANGED <<pc, result, sure, token>>
  <2>1. pc' \in Nat /\ pc' <= Konsole[client] /\ pc' > 0 /\ (client = "konsole" => pc' >= 9)
    BY <1>2, <1>4 DEF KonsoleAt, KittyAt, Konsole
  <2>2. Accounted'
    BY <1>4, FilesAccounted DEF IInv
  <2>3. Asking
    BY <1>2 DEF Asking, KonsoleAt, KittyAt
  <2> QED BY <1>1, <1>3, <1>4, <2>1, <2>2, <2>3, AsksOn
<1>5. CASE NextSource
  <2>1. KonsoleAt(11 .. 14) \/ KittyAt(4 .. 7)
    BY <1>2 DEF KonsoleAt, KittyAt
  <2> QED BY <1>1, <1>3, <1>5, <2>1, NextSources
<1> QED BY <1>4, <1>5 DEF Ignore

LEMMA ReceiveTimeoutStep == IInv /\ ReceiveTimeout => Keeps
<1> SUFFICES ASSUME IInv, ReceiveTimeout PROVE Keeps
  OBVIOUS
<1>1. result = None /\ At("receive") /\ NextSource
  BY DEF ReceiveTimeout, At
<1>2. KonsoleAt({14}) \/ KittyAt({7})
  BY <1>1, Places DEF IInv, Typed
<1>3. UNCHANGED <<client, there, acts, done, loaded, raised>>
  BY DEF ReceiveTimeout, world
<1>4. KonsoleAt(11 .. 14) \/ KittyAt(4 .. 7)
  BY <1>2 DEF KonsoleAt, KittyAt
<1> QED BY <1>1, <1>3, <1>4, NextSources

LEMMA AskKonsoleStep == IInv /\ AskKonsole => Keeps
<1> SUFFICES ASSUME IInv, AskKonsole PROVE Keeps
  OBVIOUS
<1>1. result = None /\ At("konsole")
  BY DEF AskKonsole, At
<1>2. KonsoleAt({15}) \/ KittyAt({8})
  BY <1>1, Places DEF IInv, Typed
<1>3. UNCHANGED <<client, there, acts, done, loaded, raised>>
  BY DEF AskKonsole, world
<1>4. Accounted'
  BY FilesAccounted DEF AskKonsole, IInv
<1>5. CASE pc' = pc + 1 /\ Held
  <2>1. /\ client = "konsole" => pc' = 16
        /\ client = "kitty" => pc' = 9
    BY <1>2, <1>5 DEF KonsoleAt, KittyAt
  <2>2. KonsoleAt({14, 15}) \/ KittyAt({7, 8})
    BY <1>2 DEF KonsoleAt, KittyAt
  <2> QED BY <1>1, <1>3, <1>4, <1>5, <2>1, <2>2, TokenComes
<1>6. CASE FallBack /\ UNCHANGED token
  <2>1. Asking
    BY <1>2 DEF Asking, KonsoleAt, KittyAt
  <2>2. token = "none" /\ done = {} /\ ~loaded
    BY <1>1, <2>1, EarlyFacts
  <2>3. IInv' /\ result' = None /\ sure' = {}
    BY <1>1, <1>3, <1>4, <1>6, <2>2, FallsBack
  <2>4. Promise!StartOver
    BY <1>1, <1>3, <1>6, <2>2, <2>3 DEF Promise!StartOver
  <2> QED BY <2>3, <2>4 DEF Keeps, Promise!PromiseNext
<1> QED BY <1>5, <1>6 DEF AskKonsole

LEMMA ActivateStep == IInv /\ Activate => Keeps
<1> SUFFICES ASSUME IInv, Activate PROVE Keeps
  OBVIOUS
<1>1. result = None /\ At("activate") /\ token' = "spent"
  BY DEF Activate, At
<1>2. KonsoleAt({20}) \/ KittyAt({10})
  BY <1>1, Places DEF IInv, Typed
<1>3. UNCHANGED <<client, there, loaded, raised>>
  BY DEF Activate, world
<1>4. TokenInTime /\ KnownInTime /\ DoneInTime /\ sure \subseteq Promise!Facts[client]
  BY <1>1 DEF IInv, Typed
<1>5. token = "held" /\ done = {} /\ ~loaded
  BY <1>2, <1>4 DEF TokenInTime, DoneInTime, KonsoleAt, KittyAt
<1>6. Promise!Certain
  BY <1>2, <1>4 DEF KnownInTime, Promise!Certain, Promise!Facts, KonsoleAt, KittyAt
<1>7. CASE /\ acts' = acts \cup {"activate"} /\ done' = done \cup {"activate"}
           /\ Report("Requested") /\ UNCHANGED sure
  <2>1. result' = "Requested" /\ result' # None /\ UNCHANGED pc /\ Accounted' /\ guards' = {}
    BY <1>7, EndedFree, FocusAssumption DEF IInv, Ended, Promise!Results
  <2>2. Typed'
    <3>1. InProgram' /\ result' \in Promise!Results
      BY <1>3, <1>7, <2>1 DEF IInv, Typed, InProgram, Promise!Results
    <3>2. raised' \in BOOLEAN /\ loaded' \in BOOLEAN
      BY <1>3, <1>7 DEF IInv, Typed
    <3> QED BY <1>1, <1>3, <1>7, <3>1, <3>2 DEF IInv, Typed
  <2>3. LeavesNothing'
    <3>2. loaded \in BOOLEAN /\ loaded' = loaded
      BY <1>3 DEF IInv, Typed
    <3>3. ~loaded'
      BY <1>5, <3>2, Zenon
    <3> QED BY <2>1, <3>3 DEF LeavesNothing, Accounted
  <2>4. Promise!Activate(TRUE)
    BY <1>1, <1>3, <1>5, <1>6, <1>7, <2>1 DEF Promise!Activate
  <2> QED BY <2>1, <2>2, <2>3, <2>4 DEF Keeps, IInv, Promise!PromiseNext
<1>8. CASE /\ acts' \in {acts, acts \cup {"activate"}}
           /\ FallBack /\ Keep /\ UNCHANGED done
  <2>1. Accounted'
    BY <1>8, FilesAccounted DEF IInv
  <2>2. IInv' /\ result' = None /\ sure' = {}
    BY <1>1, <1>3, <1>5, <1>8, <2>1, FallsBack
  <2>3. Promise!Activate(FALSE)
    BY <1>1, <1>3, <1>5, <1>6, <1>8, <2>2 DEF Promise!Activate
  <2> QED BY <2>2, <2>3 DEF Keeps, Promise!PromiseNext
<1> QED BY <1>7, <1>8 DEF Activate

\* The end of an attempt.
LEMMA Ends ==
  ASSUME IInv, NEW r \in Promise!Results, Report(r),
         UNCHANGED <<client, there>>, token' \in {"none", "held", "spent"},
         sure' \subseteq Promise!Facts[client],
         loaded' \in BOOLEAN, raised' \in BOOLEAN, loaded' => r \in {"Error", "Cancelled"}
  PROVE  IInv' /\ result' = r /\ result' # None
<1>1. result' = r /\ result' # None /\ UNCHANGED pc /\ Accounted' /\ guards' = {}
  BY EndedFree, FocusAssumption DEF IInv, Ended
<1>2. InProgram'
  BY <1>1 DEF IInv, Typed, InProgram
<1>3. Typed'
  BY <1>1, <1>2 DEF IInv, Typed
<1>4. LeavesNothing'
  BY <1>1 DEF LeavesNothing, Accounted
<1> QED BY <1>1, <1>3, <1>4 DEF IInv

LEMMA FocusKittyStep == IInv /\ FocusKitty => Keeps
<1> SUFFICES ASSUME IInv, FocusKitty PROVE Keeps
  OBVIOUS
<1>1. result = None /\ At("focus")
  BY DEF FocusKitty, At
<1>2. KittyAt({12})
  BY <1>1, Places DEF IInv, Typed
<1>3. UNCHANGED <<client, there, token, sure, loaded, raised>> /\ acts' = acts \cup {"focus"}
  BY DEF FocusKitty, KittenFocus, world
<1>4. TokenInTime /\ KnownInTime /\ DoneInTime /\ sure \subseteq Promise!Facts[client]
  BY <1>1 DEF IInv, Typed
<1>5. token # "held" /\ done = {} /\ ~loaded
  BY <1>2, <1>4 DEF TokenInTime, DoneInTime, KittyAt
<1>6. Promise!Certain
  BY <1>2, <1>4 DEF KnownInTime, Promise!Certain, Promise!Facts, KittyAt
<1>7. PICK r \in {"KittySelected", "NoOp", "Error"} :
        Report(r) /\ done' = IF r = "KittySelected" THEN done \cup {"focus"} ELSE done
  BY DEF FocusKitty, KittenFocus
<1>8. r \in Promise!Results
  BY DEF Promise!Results
<1>9. IInv' /\ result' = r
  <2>1. loaded' = loaded /\ loaded \in BOOLEAN /\ raised' \in BOOLEAN
    BY <1>3 DEF IInv, Typed
  <2>2. ~loaded'
    BY <1>5, <2>1, Zenon
  <2>3. token' \in {"none", "held", "spent"} /\ sure' \subseteq Promise!Facts[client]
    BY <1>3 DEF IInv, Typed
  <2> QED BY <1>3, <1>7, <1>8, <2>1, <2>2, <2>3, Ends
<1>10. Promise!Truthful(result', done')
  BY <1>5, <1>7, <1>9 DEF Promise!Truthful
<1>11. Promise!Do("focus")
  <2>1. done' \in {done, done \cup {"focus"}}
    BY <1>7
  <2>2. result' \in Promise!Results
    BY <1>8, <1>9
  <2> QED BY <1>1, <1>3, <1>5, <1>6, <1>10, <2>1, <2>2 DEF Promise!Do
<1> QED BY <1>9, <1>11 DEF Keeps, Promise!PromiseNext, Promise!Acts

\* The fallback for Konsole, once the target was validated.
Late == KonsoleAt(25 .. 32)

LEMMA LateFacts ==
  ASSUME IInv, result = None, Late
  PROVE  /\ client = "konsole" /\ pc \in 25 .. 32 /\ token # "held"
         /\ done \subseteq {"select", "raise"}
         /\ pc >= 27 => "select" \in done
         /\ pc <= 26 => done = {}
         /\ pc < 32 => "raise" \notin done
         /\ pc >= 26 => "select" \in acts
         /\ loaded => pc >= 31
<1>1. TokenInTime /\ DoneInTime
  BY DEF IInv
<1>2. client = "konsole" /\ pc \in 25 .. 32
  BY DEF Late, KonsoleAt
<1> QED BY <1>1, <1>2 DEF TokenInTime, DoneInTime

\* The fallback goes on by one step.
LEMMA LateGoesOn ==
  ASSUME IInv, result = None, Late, pc < 32, Continue,
         UNCHANGED <<client, there, token>>,
         sure' = IF pc = 25 THEN sure \ {"process", "owner"} ELSE sure,
         "select" \in acts',
         pc >= 26 => "select" \in done', pc = 25 => done' = {},
         done' \subseteq {"select", "raise"},
         "raise" \in done' => pc = 31 /\ raised', raised' /\ pc = 31 => "raise" \in done',
         pc \notin {27, 28},
         Accounted', loaded' \in BOOLEAN, raised' \in BOOLEAN,
         loaded' => pc >= 30
  PROVE  IInv'
<1>1. client = "konsole" /\ pc \in 25 .. 31
  BY DEF Late, KonsoleAt
<1>2. pc' = pc + 1 /\ result' = None
  BY DEF Continue
<1>3. InProgram'
  BY <1>1, <1>2 DEF InProgram
<1>4. TokenInTime /\ KnownInTime /\ DoneInTime /\ sure \subseteq Promise!Facts[client]
      /\ token \in {"none", "held", "spent"}
  BY DEF IInv, Typed
<1>5. TokenInTime'
  BY <1>1, <1>2, <1>4 DEF TokenInTime
<1>6. KnownInTime'
  BY <1>1, <1>2, <1>4 DEF KnownInTime
<1>7. DoneInTime'
  <2>1. client' = "konsole" /\ pc' \in 26 .. 32 /\ pc' = pc + 1
    BY <1>1, <1>2
  <2> QED BY <1>1, <2>1 DEF DoneInTime
<1>8. token' \in {"none", "held", "spent"} /\ sure' \subseteq Promise!Facts[client]
  BY <1>4
<1> QED BY <1>2, <1>3, <1>5, <1>6, <1>7, <1>8, GoesOn

LEMMA SelectTabStep == IInv /\ SelectTab => Keeps
<1> SUFFICES ASSUME IInv, SelectTab PROVE Keeps
  OBVIOUS
<1>1. result = None /\ At("select")
  BY DEF SelectTab, At
<1>2. KonsoleAt({25})
  BY <1>1, Places DEF IInv, Typed
<1>3. Late /\ pc = 25
  BY <1>2 DEF Late, KonsoleAt
<1>4. /\ UNCHANGED <<client, there, token, done, loaded, raised>>
      /\ acts' = acts \cup {"select"} /\ sure' = sure \ {"process", "owner"}
  BY DEF SelectTab, world
<1>5. client = "konsole" /\ token # "held" /\ done = {} /\ (loaded => pc >= 31)
  BY <1>1, <1>3, LateFacts
<1>6. KnownInTime /\ sure \subseteq Promise!Facts[client] /\ loaded \in BOOLEAN /\ raised' \in BOOLEAN
      /\ token' \in {"none", "held", "spent"}
  BY <1>1, <1>4 DEF IInv, Typed
<1>7. Promise!Certain
  BY <1>3, <1>5, <1>6 DEF KnownInTime, Promise!Certain, Promise!Facts
<1>8. loaded' \in BOOLEAN /\ ~loaded'
  <2>1. ~loaded
    BY <1>3, <1>5
  <2> QED BY <1>4, <1>6, <2>1, Zenon
<1>9. CASE Continue /\ Keep
  <2>1. result' = None /\ Accounted'
    BY <1>9, FilesAccounted DEF Continue, IInv
  <2>2. IInv'
    BY <1>1, <1>3, <1>4, <1>5, <1>6, <1>8, <1>9, <2>1, LateGoesOn
  <2>3. Promise!Do("select")
    BY <1>1, <1>4, <1>5, <1>7, <2>1 DEF Promise!Do
  <2> QED BY <2>2, <2>3 DEF Keeps, Promise!PromiseNext, Promise!Acts
<1>10. CASE Report("Error")
  <2>1. "Error" \in Promise!Results
    BY DEF Promise!Results
  <2>2. sure' \subseteq Promise!Facts[client]
    BY <1>4, <1>6
  <2>3. IInv' /\ result' = "Error"
    BY <1>4, <1>6, <1>8, <1>10, <2>1, <2>2, Ends
  <2>4. Promise!Truthful("Error", done')
    BY DEF Promise!Truthful
  <2>5. Promise!Do("select")
    BY <1>1, <1>4, <1>5, <1>7, <2>1, <2>3, <2>4 DEF Promise!Do
  <2> QED BY <2>3, <2>5 DEF Keeps, Promise!PromiseNext, Promise!Acts
<1> QED BY <1>9, <1>10 DEF SelectTab

LEMMA VerifiedStep == IInv /\ Verified => Keeps
<1> SUFFICES ASSUME IInv, Verified PROVE Keeps
  OBVIOUS
<1>1. result = None /\ At("verify")
  BY DEF Verified, At
<1>2. KonsoleAt({26})
  BY <1>1, Places DEF IInv, Typed
<1>3. Late /\ pc = 26
  BY <1>2 DEF Late, KonsoleAt
<1>4. /\ UNCHANGED <<client, there, token, sure, acts, loaded, raised>>
      /\ done' = done \cup {"select"}
  BY DEF Verified, world
<1>5. client = "konsole" /\ done = {} /\ "select" \in acts /\ (loaded => pc >= 31)
  BY <1>1, <1>3, LateFacts
<1>6. /\ sure' \subseteq Promise!Facts[client] /\ loaded \in BOOLEAN /\ raised' \in BOOLEAN
      /\ token' \in {"none", "held", "spent"}
  BY <1>4 DEF IInv, Typed
<1>7. loaded' \in BOOLEAN /\ ~loaded'
  <2>1. ~loaded
    BY <1>3, <1>5
  <2> QED BY <1>4, <1>6, <2>1, Zenon
<1>8. CASE Continue /\ Keep
  <2>1. result' = None /\ Accounted'
    BY <1>8, FilesAccounted DEF Continue, IInv
  <2>2. IInv'
    BY <1>1, <1>3, <1>4, <1>5, <1>6, <1>7, <1>8, <2>1, LateGoesOn
  <2>3. Promise!Acknowledge
    BY <1>1, <1>4, <1>5, <2>1, FocusAssumption DEF Promise!Acknowledge, Promise!Results
  <2> QED BY <2>2, <2>3 DEF Keeps, Promise!PromiseNext
<1>9. CASE Report("TabSelected")
  <2>1. "TabSelected" \in Promise!Results
    BY DEF Promise!Results
  <2>2. IInv' /\ result' = "TabSelected"
    BY <1>4, <1>6, <1>7, <1>9, <2>1, Ends
  <2>3. Promise!Acknowledge
    BY <1>1, <1>4, <1>5, <2>2 DEF Promise!Acknowledge
  <2> QED BY <2>2, <2>3 DEF Keeps, Promise!PromiseNext
<1> QED BY <1>8, <1>9 DEF Verified

LEMMA NotYetStep == IInv /\ NotYet => Keeps
<1> SUFFICES ASSUME IInv, NotYet PROVE Keeps
  OBVIOUS
<1>1. result = None /\ At("verify")
  BY DEF NotYet, At
<1>2. KonsoleAt({26})
  BY <1>1, Places DEF IInv, Typed
<1>3. Late /\ pc = 26
  BY <1>2 DEF Late, KonsoleAt
<1>4. UNCHANGED <<client, there, token, sure, acts, done, loaded, raised>>
  BY DEF NotYet, world, history
<1>5. done = {} /\ (loaded => pc >= 31)
  BY <1>1, <1>3, LateFacts
<1>6. loaded' \in BOOLEAN /\ ~loaded'
  <2>1. ~loaded
    BY <1>3, <1>5
  <2>2. loaded \in BOOLEAN
    BY DEF IInv, Typed
  <2> QED BY <1>4, <2>1, <2>2, Zenon
<1>7. CASE Keep /\ UNCHANGED <<pc, result>>
  <2>1. UNCHANGED <<client, there, token, result, pc, lying, guards, slips, loaded, raised, sure, acts, done>>
    BY <1>4, <1>7 DEF Keep, left
  <2>2. IInv'
    BY <2>1 DEF IInv, Typed, InProgram, TokenInTime, KnownInTime, DoneInTime, LeavesNothing,
                  Accounted
  <2>3. UNCHANGED Promise!promiseVars
    BY <2>1 DEF Promise!promiseVars
  <2> QED BY <2>2, <2>3 DEF Keeps
<1>8. CASE Report("NoOp")
  <2>1. Promise!Truthful("NoOp", done) /\ "NoOp" \in Promise!Results
    BY <1>5 DEF Promise!Truthful, Promise!Results
  <2>2. UNCHANGED <<client, there, sure, token, acts, done, raised>>
    BY <1>4
  <2> QED BY <1>1, <1>6, <1>8, <2>1, <2>2, Reports DEF Ended
<1> QED BY <1>7, <1>8 DEF NotYet

LEMMA VerifyFailsStep == IInv /\ VerifyFails => Keeps
<1> SUFFICES ASSUME IInv, VerifyFails PROVE Keeps
  OBVIOUS
<1>1. result = None /\ At("verify")
  BY DEF VerifyFails, At
<1>2. KonsoleAt({26})
  BY <1>1, Places DEF IInv, Typed
<1>3. Late /\ pc = 26
  BY <1>2 DEF Late, KonsoleAt
<1>4. UNCHANGED <<client, there, token, sure, acts, done, loaded, raised>>
  BY DEF VerifyFails, world, history
<1>5. done = {} /\ (loaded => pc >= 31)
  BY <1>1, <1>3, LateFacts
<1>6. loaded' \in BOOLEAN /\ ~loaded'
  <2>1. ~loaded
    BY <1>3, <1>5
  <2>2. loaded \in BOOLEAN
    BY DEF IInv, Typed
  <2> QED BY <1>4, <2>1, <2>2, Zenon
<1>7. PICK r \in {"NoOp", "Error"} : Report(r)
  BY DEF VerifyFails
<1>8. Promise!Truthful(r, done) /\ r \in Promise!Results
  BY <1>5 DEF Promise!Truthful, Promise!Results
<1>9. UNCHANGED <<client, there, sure, token, acts, done, raised>>
  BY <1>4
<1> QED BY <1>1, <1>6, <1>7, <1>8, <1>9, Reports DEF Ended

\* An error of the fallback is reported.
LEMMA LateFails ==
  ASSUME IInv, result = None, Ended("Error"), loaded' \in BOOLEAN,
         UNCHANGED <<client, there, token, sure, acts, done, raised>>
  PROVE  Keeps
<1>1. Promise!Truthful("Error", done) /\ "Error" \in Promise!Results
  BY DEF Promise!Truthful, Promise!Results
<1> QED BY <1>1, Reports

\* The script is prepared: nothing the user sees happens.
LEMMA Prepares ==
  ASSUME IInv, result = None, Late, pc \in 29 .. 30, Continue,
         UNCHANGED <<client, there, token, sure, acts, done, raised>>,
         Accounted', loaded' \in BOOLEAN, loaded' => pc >= 30
  PROVE  Keeps
<1>1. /\ "select" \in acts' /\ "select" \in done' /\ "raise" \notin done'
      /\ done' \subseteq {"select", "raise"}
  BY LateFacts
<1>2. raised' \in BOOLEAN /\ pc < 32 /\ pc # 25 /\ pc # 31
  BY DEF IInv, Typed
<1>3. IInv'
  BY <1>1, <1>2, LateGoesOn
<1>4. result' = result
  BY DEF Continue
<1>5. UNCHANGED Promise!promiseVars
  BY <1>4 DEF Promise!promiseVars
<1> QED BY <1>3, <1>5 DEF Keeps

LEMMA CreateScriptStep == IInv /\ CreateScript => Keeps
<1> SUFFICES ASSUME IInv, CreateScript PROVE Keeps
  OBVIOUS
<1>1. result = None /\ At("script")
  BY DEF CreateScript, At
<1>2. KonsoleAt({29})
  BY <1>1, Places DEF IInv, Typed
<1>3. Late /\ pc = 29
  BY <1>2 DEF Late, KonsoleAt
<1>4. UNCHANGED <<client, there, token, sure, acts, done, loaded, raised>>
  BY DEF CreateScript, world, history
<1>5. loaded' \in BOOLEAN /\ ~loaded'
  <2>1. ~loaded
    BY <1>1, <1>3, LateFacts
  <2>2. loaded \in BOOLEAN
    BY DEF IInv, Typed
  <2> QED BY <1>4, <2>1, <2>2, Zenon
<1>6. CASE Continue /\ Make("script")
  <2>1. Accounted'
    BY <1>6, FilesAccounted DEF IInv
  <2> QED BY <1>1, <1>3, <1>4, <1>5, <1>6, <2>1, Prepares
<1>7. CASE Report("Error") \/ Finish("Error", guards \cup {"script"})
  BY <1>1, <1>4, <1>5, <1>7, LateFails DEF Ended
<1> QED BY <1>6, <1>7 DEF CreateScript

LEMMA LoadScriptStep == IInv /\ LoadScript => Keeps
<1> SUFFICES ASSUME IInv, LoadScript PROVE Keeps
  OBVIOUS
<1>1. result = None /\ At("load")
  BY DEF LoadScript, At
<1>2. KonsoleAt({30})
  BY <1>1, Places DEF IInv, Typed
<1>3. Late /\ pc = 30
  BY <1>2 DEF Late, KonsoleAt
<1>4. UNCHANGED <<client, there, token, sure, acts, done, raised>>
  BY DEF LoadScript, world, history
<1>5. CASE Continue /\ Keep /\ loaded' = TRUE
  <2>1. Accounted'
    BY <1>5, FilesAccounted DEF IInv
  <2> QED BY <1>1, <1>3, <1>4, <1>5, <2>1, Prepares
<1>6. CASE Report("Error") /\ loaded' \in BOOLEAN
  BY <1>1, <1>4, <1>6, LateFails DEF Ended
<1> QED BY <1>5, <1>6 DEF LoadScript

LEMMA RunScriptStep == IInv /\ RunScript => Keeps
<1> SUFFICES ASSUME IInv, RunScript PROVE Keeps
  OBVIOUS
<1>1. result = None /\ At("run") /\ Continue /\ Keep
  BY DEF RunScript, At
<1>2. KonsoleAt({31})
  BY <1>1, Places DEF IInv, Typed
<1>3. Late /\ pc = 31 /\ client = "konsole"
  BY <1>2 DEF Late, KonsoleAt
<1>4. /\ UNCHANGED <<client, there, token, sure, loaded>>
      /\ acts' = acts \cup {"raise"} /\ raised' \in BOOLEAN
      /\ done' = IF raised' THEN done \cup {"raise"} ELSE done
  BY DEF RunScript, world
<1>5. /\ token # "held" /\ "select" \in acts /\ "select" \in done
      /\ "raise" \notin done /\ done \subseteq {"select", "raise"}
  BY <1>1, <1>3, LateFacts
<1>6. /\ "select" \in acts' /\ "select" \in done' /\ done' \subseteq {"select", "raise"}
  BY <1>4, <1>5
<1>7. ("raise" \in done' => raised') /\ (raised' => "raise" \in done')
  BY <1>4, <1>5
<1>8. Accounted' /\ loaded' \in BOOLEAN /\ result' = None
  BY <1>1, <1>4, FilesAccounted DEF Continue, IInv, Typed
<1>9. IInv'
  <2>1. pc >= 30 /\ pc < 32 /\ pc >= 26 /\ pc # 25 /\ pc \notin {27, 28}
    BY <1>3
  <2> QED BY <1>1, <1>3, <1>4, <1>6, <1>7, <1>8, <2>1, LateGoesOn
<1>10. Promise!Certain
  <2>1. KnownInTime /\ sure \subseteq Promise!Facts[client]
    BY <1>1 DEF IInv, Typed
  <2> QED BY <1>3, <2>1 DEF KnownInTime, Promise!Certain, Promise!Facts
<1>11. Promise!Do("raise")
  <2>1. done' \in {done, done \cup {"raise"}}
    BY <1>4
  <2> QED BY <1>1, <1>4, <1>5, <1>8, <1>10, <2>1 DEF Promise!Do
<1> QED BY <1>9, <1>11 DEF Keeps, Promise!PromiseNext, Promise!Acts

LEMMA UnloadScriptStep == IInv /\ UnloadScript => Keeps
<1> SUFFICES ASSUME IInv, UnloadScript PROVE Keeps
  OBVIOUS
<1>1. result = None /\ At("unload")
  BY DEF UnloadScript, At
<1>2. KonsoleAt({32})
  BY <1>1, Places DEF IInv, Typed
<1>3. client = "konsole" /\ pc = 32
  BY <1>2 DEF KonsoleAt
<1>4. UNCHANGED <<client, there, token, sure, acts, done, raised>>
  BY DEF UnloadScript, world, history
<1>5. raised \in BOOLEAN /\ loaded \in BOOLEAN
  BY DEF IInv, Typed
<1>6. CASE loaded' = FALSE /\ Report(IF raised THEN "Requested" ELSE "Error")
  <2>1. CASE raised
    <3>1. Report("Requested") /\ "Requested" \in Promise!Results
      BY <1>6, <2>1 DEF Promise!Results
    <3>2. "raise" \in done
      BY <1>1, <1>3, <2>1 DEF IInv, DoneInTime
    <3>3. Promise!Truthful("Requested", done)
      BY <3>2 DEF Promise!Truthful
    <3>4. loaded' \in BOOLEAN /\ ~loaded'
      BY <1>6
    <3> QED BY <1>1, <1>4, <3>1, <3>3, <3>4, Reports DEF Ended
  <2>2. CASE ~raised
    <3>1. Report("Error")
      BY <1>6, <2>2
    <3> QED BY <1>1, <1>4, <1>6, <3>1, LateFails DEF Ended
  <2> QED BY <2>1, <2>2
<1>7. CASE UNCHANGED loaded /\ Report("Error")
  BY <1>1, <1>4, <1>5, <1>7, LateFails DEF Ended
<1> QED BY <1>6, <1>7 DEF UnloadScript

LEMMA CancelStep == IInv /\ Cancel => Keeps
<1> SUFFICES ASSUME IInv, Cancel PROVE Keeps
  OBVIOUS
<1>1. result = None /\ Report("Cancelled")
  BY DEF Cancel
<1>2. UNCHANGED <<client, there, token, sure, acts, done, raised, loaded>>
  BY DEF Cancel, world, history
<1>3. loaded' \in BOOLEAN
  BY <1>2 DEF IInv, Typed
<1>4. Promise!Truthful("Cancelled", done) /\ "Cancelled" \in Promise!Results
  BY DEF Promise!Truthful, Promise!Results
<1> QED BY <1>1, <1>2, <1>3, <1>4, Reports DEF Ended

LEMMA ChangeStep == IInv /\ Change => Keeps
<1> SUFFICES ASSUME IInv, Change PROVE Keeps
  OBVIOUS
<1>1. UNCHANGED <<client, token, result, pc, lying, guards, slips, loaded, raised, sure, acts, done>>
  BY DEF Change, scratch, things, left, history
<1>2. there' \subseteq Promise!Facts[client]
  BY DEF Change, IInv, Typed
<1>3. IInv'
  BY <1>1, <1>2 DEF IInv, Typed, InProgram, TokenInTime, KnownInTime, DoneInTime, LeavesNothing,
                  Accounted
<1>4. Promise!Change
  BY <1>1, <1>2 DEF Promise!Change
<1> QED BY <1>3, <1>4 DEF Keeps, Promise!PromiseNext

LEMMA BeginStep ==
  ASSUME IInv, result # None, NEW c \in Promise!Clients, Begin(c)
  PROVE  Keeps
<1>1. /\ client' = c /\ token' = "none" /\ result' = None /\ pc' = 1
      /\ lying' = {} /\ guards' = {} /\ slips' = {} /\ loaded' = FALSE /\ raised' = FALSE
      /\ sure' = {} /\ acts' = {} /\ done' = {}
  BY DEF Begin
<1>2. there' \subseteq Promise!Facts[c]
  BY DEF Begin
<1>3. InProgram'
  BY <1>1 DEF InProgram, Promise!Clients
<1>4. Typed'
  BY <1>1, <1>2, <1>3 DEF Typed
<1>5. TokenInTime' /\ KnownInTime' /\ DoneInTime'
  BY <1>1 DEF TokenInTime, KnownInTime, DoneInTime
<1>6. LeavesNothing' /\ Accounted'
  BY <1>1 DEF LeavesNothing, Accounted
<1>7. Promise!Begin
  BY <1>1, <1>2 DEF Promise!Begin
<1> QED BY <1>4, <1>5, <1>6, <1>7 DEF Keeps, IInv, Promise!PromiseNext

LEMMA StepKeeps == IInv /\ AttemptStep => Keeps
<1> SUFFICES ASSUME IInv, AttemptStep PROVE Keeps
  OBVIOUS
<1>1. ASSUME NEW f \in {"process", "owner", "window", "session", "target"}, Check(f) PROVE Keeps
  BY <1>1, CheckStep
<1>2. ASSUME NEW q \in {"version", "capabilities"}, Negotiate(q) PROVE Keeps
  BY <1>2, NegotiateStep
<1>2a. CASE Supported
  BY <1>2a, SupportedStep
<1>3. ASSUME NEW s \in {"probe", "request"}, AskKitty(s) PROVE Keeps
  BY <1>3, AskKittyStep
<1>4. CASE BindSocket \/ Receive \/ Ignore \/ ReceiveTimeout \/ AskKonsole \/ Activate \/ FocusKitty
  BY <1>4, BindSocketStep, ReceiveStep, IgnoreStep, ReceiveTimeoutStep, AskKonsoleStep, ActivateStep, FocusKittyStep
<1>5. CASE SelectTab \/ Verified \/ NotYet \/ VerifyFails
  BY <1>5, SelectTabStep, VerifiedStep, NotYetStep, VerifyFailsStep
<1>6. CASE CreateScript \/ LoadScript \/ RunScript \/ UnloadScript
  BY <1>6, CreateScriptStep, LoadScriptStep, RunScriptStep, UnloadScriptStep
<1> QED BY <1>1, <1>2, <1>2a, <1>3, <1>4, <1>5, <1>6 DEF AttemptStep

LEMMA NextKeeps == IInv /\ [AttemptNext]_attemptVars => Keeps
<1> SUFFICES ASSUME IInv, [AttemptNext]_attemptVars PROVE Keeps
  OBVIOUS
<1>1. CASE AttemptStep \/ Cancel \/ Change
  BY <1>1, StepKeeps, CancelStep, ChangeStep
<1>2. ASSUME result # None, NEW c \in Promise!Clients, Begin(c) PROVE Keeps
  BY <1>2, BeginStep
<1>3. CASE UNCHANGED attemptVars
  <2>1. UNCHANGED <<client, there, token, result, pc, lying, guards, slips, loaded, raised, sure, acts, done>>
    BY <1>3 DEF attemptVars, world, things, left, history
  <2>2. IInv'
    BY <2>1 DEF IInv, Typed, InProgram, TokenInTime, KnownInTime, DoneInTime, LeavesNothing,
                  Accounted
  <2>3. UNCHANGED Promise!promiseVars
    BY <2>1 DEF Promise!promiseVars
  <2> QED BY <2>2, <2>3 DEF Keeps
<1> QED BY <1>1, <1>2, <1>3 DEF AttemptNext

LEMMA InitPromise == AttemptInit => Promise!PromiseInit
BY DEF AttemptInit, Promise!PromiseInit

-----------------------------------------------------------------------------

\* An attempt of focus_client refines FocusPromise: whatever the terminals do
\* between two of its commands and whichever of them fails, the activation
\* token is handed out once at most and only for a target all of whose facts
\* were seen to hold after the token came, the fallback trusts nothing from
\* before it, and the result that is reported is true of what was done.
THEOREM AttemptKeepsPromise == AttemptSpec => KeepsPromise
<1>1. AttemptInit => IInv /\ Promise!PromiseInit
  BY InitIInv, InitPromise
<1>2. IInv /\ [AttemptNext]_attemptVars => IInv' /\ [Promise!PromiseNext]_(Promise!promiseVars)
  BY NextKeeps DEF Keeps
<1> QED BY <1>1, <1>2, PTL DEF AttemptSpec, KeepsPromise, Promise!PromiseSpec

\* However an attempt ends, each file it made is gone but for one whose
\* removal was tried and failed, and for a socket that could be bound and not
\* be secured; and its script is loaded no more, unless the user is told of
\* an error or the attempt was dropped.
THEOREM AttemptLeavesNothing == AttemptSpec => []LeavesNothing
<1>1. AttemptInit => IInv
  BY InitIInv
<1>2. IInv /\ [AttemptNext]_attemptVars => IInv'
  BY NextKeeps DEF Keeps
<1>3. IInv => LeavesNothing
  BY DEF IInv
<1> QED BY <1>1, <1>2, <1>3, PTL DEF AttemptSpec
-----------------------------------------------------------------------------
(* The command.                                                            *)

\* An attempt is under way only while the command waits for it.
OneAtATime == result = None => stage = "focusing"

LEMMA InitOneAtATime == CommandInit => OneAtATime
BY FocusAssumption DEF CommandInit, AttemptInit, OneAtATime, Promise!Results

LEMMA SameAttempt == UNCHANGED attemptVars => UNCHANGED result
BY DEF attemptVars

\* Every step of the command is a step of its attempt or does not touch it.
LEMMA NextAttempts == OneAtATime /\ [Next]_allVars => OneAtATime' /\ [AttemptNext]_attemptVars
<1> SUFFICES ASSUME OneAtATime, [Next]_allVars PROVE OneAtATime' /\ [AttemptNext]_attemptVars
  OBVIOUS
<1>1. CASE (CommandStep \/ Quit) /\ UNCHANGED attemptVars
  <2>1. stage # "focusing"
    BY <1>1 DEF CommandStep, Enter, Open, TakeSignal, Quit, Quits, RestoreTerminal, JoinMonitor,
                DropGuard, Goes
  <2> QED BY <1>1, <2>1, SameAttempt DEF OneAtATime
<1>2. CASE FocusSelected
  <2>1. result # None /\ stage' = "focusing" /\ \E c \in Promise!Clients : Begin(c)
    BY <1>2 DEF FocusSelected, Goes, OneAtATime
  <2> QED BY <2>1 DEF OneAtATime, AttemptNext
<1>3. CASE ReportFocus
  <2>1. result' # None /\ UNCHANGED attemptVars
    BY <1>3, SameAttempt DEF ReportFocus
  <2> QED BY <2>1 DEF OneAtATime
<1>4. CASE Interrupted
  <2>1. Cancel /\ result' = "Cancelled"
    BY <1>4 DEF Interrupted, Cancel, Report, Finish
  <2> QED BY <2>1, FocusAssumption DEF OneAtATime, AttemptNext, Promise!Results
<1>5. CASE Attempting
  BY <1>5 DEF Attempting, OneAtATime, commandVars, AttemptNext
<1>6. CASE stage = "focusing" /\ Change /\ UNCHANGED commandVars
  BY <1>6 DEF OneAtATime, commandVars, AttemptNext
<1>7. CASE Signal
  BY <1>7, SameAttempt DEF Signal, OneAtATime
<1>8. CASE UNCHANGED allVars
  BY <1>8, SameAttempt DEF allVars, commandVars, OneAtATime
<1> QED BY <1>1, <1>2, <1>3, <1>4, <1>5, <1>6, <1>7, <1>8 DEF Next

LEMMA CommandAttempts == Spec => AttemptSpec
<1>1. Spec => CommandInit /\ [][Next]_allVars
  BY PTL DEF Spec
<1>2. CommandInit => AttemptInit /\ OneAtATime
  BY InitOneAtATime DEF CommandInit
<1> QED BY <1>1, <1>2, NextAttempts, PTL DEF AttemptSpec

\* What Enter promises is kept by the whole command, with its signals and
\* failures, of which any may drop an attempt.
THEOREM CommandKeepsPromise == Spec => KeepsPromise
BY CommandAttempts, AttemptKeepsPromise

\* An attempt that the command is done with, also one that a signal dropped,
\* has left nothing behind but what could not be removed and a socket that
\* could not be secured.
THEOREM CommandLeavesNothing == Spec => []LeavesNothing
BY CommandAttempts, AttemptLeavesNothing

-----------------------------------------------------------------------------
(* The terminal.                                                           *)

RefusedTyped == refused \in [Modes -> Nat]

\* The monitor is spawned after the terminal was entered, and stopped before
\* the guard is dropped; what restoring failed to leave was refused.
RestoredInTime ==
  /\ active \subseteq Modes /\ RefusedTyped
  /\ stage = "entering" => active = {}
  /\ stage \in {"entering", "opening"} => monitor = "none"
  /\ stage \in {"dropping", "exited"} => monitor \in {"none", "joined"}
  /\ stage \in {"joining", "exited"} => \A w \in active : refused[w] > 0

LEMMA InitRestored == CommandInit => RestoredInTime
BY DEF CommandInit, RestoredInTime, RefusedTyped, Modes

LEMMA RestoreRefused ==
  ASSUME RestoredInTime, Restore
  PROVE  /\ active' \subseteq Modes /\ RefusedTyped'
         /\ \A w \in active' : refused'[w] > 0
<1>1. PICK failed \in SUBSET active :
        /\ active' = failed
        /\ refused' = [w \in Modes |-> refused[w] + (IF w \in failed THEN 1 ELSE 0)]
  BY DEF Restore
<1>2. active \subseteq Modes /\ \A w \in Modes : refused[w] \in Nat
  BY DEF RestoredInTime, RefusedTyped
<1>3. RefusedTyped'
  BY <1>1, <1>2 DEF RefusedTyped
<1> QED BY <1>1, <1>2, <1>3

LEMMA NextRestored == RestoredInTime /\ [Next]_allVars => RestoredInTime'
<1> SUFFICES ASSUME RestoredInTime, [Next]_allVars PROVE RestoredInTime'
  OBVIOUS
<1>1. CASE Enter
  <2>1. /\ stage = "entering" /\ stage' \in {"opening", "dropping", "exited"}
        /\ UNCHANGED <<monitor, refused>> /\ active' \subseteq Modes
        /\ stage' = "exited" => active' = active
    BY <1>1 DEF Enter, Goes, Modes, RestoredInTime
  <2> QED BY <2>1 DEF RestoredInTime, RefusedTyped
<1>2. CASE Open
  <2>1. /\ stage = "opening" /\ stage' \in {"dropping", "looping", "restoring"}
        /\ UNCHANGED <<active, refused>> /\ (stage' = "dropping" => monitor' = monitor)
    BY <1>2 DEF Open, Goes
  <2> QED BY <2>1 DEF RestoredInTime, RefusedTyped
<1>3. CASE TakeSignal \/ Quit \/ FocusSelected \/ ReportFocus \/ Interrupted
  <2>1. stage' \in {"restoring", "focusing", "looping"} /\ UNCHANGED <<active, refused>>
    BY <1>3 DEF TakeSignal, Quit, Quits, FocusSelected, ReportFocus, Interrupted, Goes
  <2> QED BY <2>1 DEF RestoredInTime, RefusedTyped
<1>4. CASE RestoreTerminal
  <2>1. stage' = "joining" /\ Restore
    BY <1>4 DEF RestoreTerminal, Goes
  <2> QED BY <2>1, RestoreRefused DEF RestoredInTime
<1>5. CASE JoinMonitor
  <2>1. stage' = "dropping" /\ monitor' = "joined" /\ UNCHANGED <<active, refused>>
    BY <1>5 DEF JoinMonitor, Goes
  <2> QED BY <2>1 DEF RestoredInTime, RefusedTyped
<1>6. CASE DropGuard
  <2>1. stage = "dropping" /\ stage' = "exited" /\ Restore /\ UNCHANGED monitor
    BY <1>6 DEF DropGuard, Goes
  <2> QED BY <2>1, RestoreRefused DEF RestoredInTime
<1>7. CASE \/ Attempting \/ Signal
           \/ stage = "focusing" /\ Change /\ UNCHANGED commandVars
           \/ UNCHANGED allVars
  <2>1. UNCHANGED <<stage, active, monitor, refused>>
    BY <1>7 DEF Attempting, Signal, allVars, commandVars
  <2> QED BY <2>1 DEF RestoredInTime, RefusedTyped
<1> QED BY <1>1, <1>2, <1>3, <1>4, <1>5, <1>6, <1>7 DEF Next, CommandStep

\* Whatever fails and wherever the command ends, each terminal mode it had
\* entered has been left by the time it waits for the monitor, and when it
\* exits, unless leaving that very mode failed; and the monitor has ended.
THEOREM TerminalStaysRestored == Spec => []TerminalRestored
<1>1. Spec => CommandInit /\ [][Next]_allVars
  BY PTL DEF Spec
<1>2. RestoredInTime => TerminalRestored
  BY DEF RestoredInTime, TerminalRestored
<1> QED BY <1>1, <1>2, InitRestored, NextRestored, PTL
=============================================================================
