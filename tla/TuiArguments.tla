------------------------------ MODULE TuiArguments ------------------------------
(***************************************************************************)
(* What the arguments of a process tell of a terminal of OpenCode:         *)
(* classify_argv of src/src/attachment.rs, which goes through them once    *)
(* from left to right.  The value of an option may look like anything,     *)
(* like another option as well.                                            *)
(*                                                                         *)
(* The name of the program, which is argument 0, is OpenCode's.  read_argv *)
(* drops empty arguments before: the arguments here are those that remain, *)
(* and an option whose value was empty takes the next one.                 *)
(***************************************************************************)
EXTENDS SequencesExt

CONSTANTS Dashed,        \* arguments that begin with a dash
          SessionOption, \* of them: --session and -s
          InlineSession, \* --session=name
          ContinueOption,\* --continue and -c
          ValueOption,   \* those of option_takes_value
          Mini,          \* the word "mini"
          Commands,      \* the names of commands that are no terminal
          Words,         \* other words
          SessionOf,     \* the name in --session=name
          NoName,        \* no session, no directory
          MaxArguments   \* bound: arguments behind the name of the program

\* No argument is of two kinds.
ASSUME ArgumentsAssumption ==
  /\ SessionOption \cup InlineSession \cup ContinueOption \cup ValueOption \subseteq Dashed
  /\ (Dashed \cap Commands) \cup (Dashed \cap Words) = {} /\ Mini \notin Dashed \cup Commands
  /\ (SessionOption \cup ValueOption) \cap (InlineSession \cup ContinueOption) = {}
  /\ SessionOption \cap ValueOption = {} /\ InlineSession \cap ContinueOption = {}
  /\ MaxArguments \in Nat

Arguments == Dashed \cup {Mini} \cup Commands \cup Words

VARIABLES
  argv,  \* the arguments
  index, \* the one that is looked at
  taken  \* what was understood: [session, continues, words]

argumentVars == <<argv, index, taken>>

-----------------------------------------------------------------------------
(* The loop.                                                               *)

Value == IF index < Len(argv) THEN argv[index + 1] ELSE NoName

\* How many arguments are taken: the option and its value.
\* Mutant of Width: the value of a session is looked at as well.
WidthOne(argument) == IF argument \in ValueOption THEN 2 ELSE 1

Width(argument) == IF argument \in SessionOption \cup ValueOption THEN 2 ELSE 1

Take ==
  /\ index <= Len(argv)
  /\ LET argument == argv[index]
     IN  /\ index' = index + Width(argument)
         /\ taken' =
              CASE argument \in InlineSession  -> [taken EXCEPT !.session = SessionOf[argument]]
                [] argument \in SessionOption  -> [taken EXCEPT !.session = Value]
                [] argument \in ContinueOption -> [taken EXCEPT !.continues = TRUE]
                [] argument \notin Dashed      -> [taken EXCEPT !.words = Append(@, argument)]
                [] OTHER                       -> taken
  /\ UNCHANGED argv

\* A terminal in full is given a directory: the last word.
Classified ==
  IF taken.words # <<>> /\ taken.words[1] \in Commands THEN [kind |-> "none"]
  ELSE IF taken.words # <<>> /\ taken.words[1] = Mini
  THEN [kind |-> "mini", session |-> taken.session, continues |-> taken.continues, directory |-> NoName]
  ELSE [kind |-> "full", session |-> taken.session, continues |-> taken.continues,
        directory |-> IF taken.words = <<>> THEN NoName ELSE Last(taken.words)]

ArgumentsInit(lengths) ==
  /\ \E n \in lengths : argv \in [1 .. n -> Arguments]
  /\ index = 1
  /\ taken = [session |-> NoName, continues |-> FALSE, words |-> <<>>]

-----------------------------------------------------------------------------
(* What the arguments mean.                                                *)

WantsValue(i) == argv[i] \in SessionOption \cup ValueOption

\* The value of an option is what follows it, unless the option is itself the
\* value of the one before: of a row of options that take values every other
\* one is a value.
IsValue(i) ==
  LET row == {j \in 1 .. i - 1 : \A k \in j .. i - 1 : WantsValue(k)}
  IN  Cardinality(row) % 2 = 1

Options == {i \in DOMAIN argv : ~IsValue(i) /\ argv[i] \in Dashed}

Positions == {i \in DOMAIN argv : ~IsValue(i) /\ argv[i] \notin Dashed}

Telling == {i \in Options : argv[i] \in SessionOption \cup InlineSession}

Meant ==
  IF Telling = {} THEN NoName
  ELSE LET i == Max(Telling)
       IN  IF argv[i] \in InlineSession THEN SessionOf[argv[i]]
           ELSE IF i < Len(argv) THEN argv[i + 1] ELSE NoName

\* For every sequence of arguments: the session is the one named last, by
\* whichever option; no value of an option is taken for an option, a command
\* or a directory; and a process that runs a command is no terminal.
ArgumentsRead ==
  index > Len(argv) =>
    IF Positions # {} /\ argv[Min(Positions)] \in Commands THEN Classified.kind = "none"
    ELSE /\ Classified.session = Meant
         /\ Classified.continues <=> \E i \in Options : argv[i] \in ContinueOption
         /\ Classified.kind = (IF Positions # {} /\ argv[Min(Positions)] = Mini THEN "mini" ELSE "full")
         /\ Classified.directory =
              IF Positions = {} \/ Classified.kind = "mini" THEN NoName ELSE argv[Max(Positions)]
=================================================================================
