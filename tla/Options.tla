------------------------------- MODULE Options -------------------------------
(***************************************************************************)
(* The command line of xattr-stream (run of src/rust/src/main.rs): one     *)
(* argument a step is taken as an option, as an option's value or as a     *)
(* positional argument; then the command is chosen.                        *)
(*                                                                         *)
(* An argument is taken apart: a leading "", "-", "--" or "/", a name, and *)
(* a value behind "=" or ":".  A value is a text: items between commas,    *)
(* each a sequence of digits, NonDigit standing for any other character.   *)
(***************************************************************************)
EXTENDS Integers, SequencesExt, TLC

CONSTANTS
  WordMax,    \* the largest u64, and usize
  MaxCols,
  DefaultLimit,
  Slashed,    \* names that hold a path separator
  CommandLines, Environments

VARIABLES
  env,        \* `windows`: its conventions, which the variable OS may ask for;
              \* `streams`: built for it, values being streams of files
  args,
  i,          \* the next argument
  o,          \* struct Cli
  colsGiven,
  pos,        \* positional arguments
  onlyPositional,
  phase,      \* "scan", "help", "version", a command and its steps, "exit"
  exit

optionVars == <<env, args, i, o, colsGiven, pos, onlyPositional>>

NonDigit == 10
Empty == ""

Arguments == [lead : {Empty, "-", "--", "/"}, name : STRING, eq : {Empty, "=", ":"},
              value : Seq(Seq(0..NonDigit))]

ASSUME OptionsAssumption ==
  /\ WordMax \in Nat /\ MaxCols \in Nat /\ DefaultLimit \in 0..WordMax
  /\ CommandLines \subseteq Seq(Arguments)
  /\ Environments \subseteq [windows : BOOLEAN, streams : BOOLEAN, noColor : BOOLEAN,
                              terminal : BOOLEAN, debug : BOOLEAN]

NoText   == <<<<>>>>            \* the empty text
NotANumber == -1
NoRoot == <<>>
NoExit == 256

Word(name) == [lead |-> Empty, name |-> name, eq |-> Empty, value |-> NoText]

-----------------------------------------------------------------------------
(* Numbers and values                                                      *)

Checked(v) == IF v > WordMax THEN NotANumber ELSE v
Wrapped(v) == v % (WordMax + 1)

\* checked_mul and checked_add: no number at all beyond the width of u64.
InRange(v) == Checked(v)

\* parse_digits
ParseDigits(item) ==
  IF item = <<>> \/ NonDigit \in ToSet(item) THEN NotANumber
  ELSE FoldLeft(LAMBDA v, d : IF v = NotANumber THEN v
                              ELSE LET tens == InRange(v * 10)
                                   IN IF tens = NotANumber THEN tens ELSE InRange(tens + d),
                0, item)

\* parse_u64: a comma is no digit.
ParseNumber(text) == IF Len(text) = 1 THEN ParseDigits(text[1]) ELSE NotANumber

\* An argument as the value of the option before it.
AsValue(arg) == IF arg.lead = Empty /\ arg.name = Empty THEN arg.value ELSE <<<<NonDigit>>>>

\* slash_switch: /name:value and /x as --name=value and -x; the argument
\* itself if it is no switch.
SlashSwitch(arg) ==
  IF arg.lead # "/" \/ arg.name = Empty \/ arg.name \in Slashed THEN arg
  ELSE [lead |-> IF Len(arg.name) = 1 THEN "-" ELSE "--",
        name |-> IF arg.name = "?" THEN "h" ELSE arg.name,
        eq |-> IF arg.eq = Empty THEN Empty ELSE "=", value |-> arg.value]

-----------------------------------------------------------------------------
(* Options                                                                 *)

Sets(field, value) == [field |-> field, value |-> value]

Flags ==
  {<<"-", "r">>} \cup
  ({"--"} \X {"nofollow", "raw", "json", "quiet", "values", "debug", "hex", "utf8", "recurse",
              "depth-first", "allow-unsafe-paths", "tsv", "csv", "table", "md", "markdown",
              "color", "no-color", "no-ansi", "simple"})

\* What an option without a value sets; most are named for it.
Flag ==
  [s \in Flags |->
     CASE s[2] \in {"r", "recurse"}                   -> Sets("recurse", TRUE)
       [] s[2] = "depth-first"                        -> Sets("depthFirst", TRUE)
       [] s[2] = "allow-unsafe-paths"                 -> Sets("allowUnsafe", TRUE)
       [] s[2] = "tsv"                                -> Sets("fmt", "Tsv")
       [] s[2] = "csv"                                -> Sets("fmt", "Csv")
       [] s[2] = "table"                              -> Sets("fmt", "Table")
       [] s[2] \in {"md", "markdown"}                 -> Sets("fmt", "Md")
       [] s[2] = "color"                              -> Sets("color", "on")
       [] s[2] \in {"no-color", "no-ansi", "simple"}  -> Sets("color", "off")
       [] OTHER                                       -> Sets(s[2], TRUE)]

\* The option an option with a value sets.
Valued ==
  [s \in {<<"-", "w">>, <<"-", "d">>} \cup
         ({"--"} \X {"cols", "columns", "max-width", "depth", "root", "limit"}) |->
     CASE s[2] \in {"cols", "columns"} -> "cols"
       [] s[2] \in {"w", "max-width"}  -> "maxWidth"
       [] s[2] \in {"d", "depth"}      -> "maxDepth"
       [] OTHER                        -> s[2]]

Prints ==
  [s \in {<<"-", "h">>} \cup ({"--"} \X {"help", "version", "about"}) |->
     IF s[2] \in {"h", "help"} THEN "help" ELSE "version"]

Default ==
  [limit |-> DefaultLimit, nofollow |-> FALSE, raw |-> FALSE, json |-> FALSE, fmt |-> "Tsv",
   utf8 |-> FALSE, cols |-> <<>>, quiet |-> FALSE, recurse |-> FALSE, maxDepth |-> -1,
   depthFirst |-> FALSE, values |-> FALSE, debug |-> env.debug, hex |-> FALSE, maxWidth |-> 0,
   color |-> "auto", useColor |-> FALSE, root |-> NoRoot, allowUnsafe |-> FALSE]

Spelling(a) == <<a.lead, a.name>>

\* The argument about to be taken, its switch spelled with dashes.
Arg(k) == IF ~onlyPositional /\ env.windows THEN SlashSwitch(args[k]) ELSE args[k]

IsOption(a) == a.lead \in {"-", "--"} /\ a # [Word(Empty) EXCEPT !.lead = "-"]

AddsColumns(set, widths) == [set EXCEPT !.cols = @ \o widths]
NewColumns(set, widths) == [set EXCEPT !.cols = widths]

\* The widths of --cols replace those of one before.
SetColumns(set, widths) == NewColumns(set, widths)

\* The depth is an i64.
DepthFits(n) == n <= WordMax \div 2

\* What an option's value makes of the options: none of a value that is wrong.
WithValue(set, field, text) ==
  LET number == ParseNumber(text)
      widths == [k \in DOMAIN text |-> ParseDigits(text[k])]
  IN CASE field = "cols" ->
            IF text = NoText \/ NotANumber \in ToSet(widths) \/ Len(widths) > MaxCols THEN {}
            ELSE {SetColumns(set, widths)}
       [] field = "maxWidth" -> IF number = NotANumber THEN {} ELSE {[set EXCEPT !.maxWidth = number]}
       [] field = "root" -> IF text = NoText THEN {} ELSE {[set EXCEPT !.root = text]}
       [] field = "maxDepth" ->
            IF number = NotANumber \/ ~DepthFits(number) THEN {}
            ELSE {[set EXCEPT !.maxDepth = number, !.recurse = TRUE]}
       [] field = "limit" -> IF number = NotANumber THEN {} ELSE {[set EXCEPT !.limit = number]}

-----------------------------------------------------------------------------
(* Steps                                                                   *)

Exit(code) == phase' = "exit" /\ exit' = code
UsageError == Exit(2)

Scanning == phase = "scan" /\ i <= Len(args)
AtOption == Scanning /\ ~onlyPositional /\ IsOption(Arg(i))

EndOptions ==
  /\ AtOption /\ Arg(i) = [Word(Empty) EXCEPT !.lead = "--"]
  /\ onlyPositional' = TRUE /\ i' = i + 1
  /\ UNCHANGED <<env, args, o, colsGiven, pos, phase, exit>>

SetFlag ==
  /\ AtOption /\ Arg(i).eq = Empty /\ Spelling(Arg(i)) \in DOMAIN Flag
  /\ LET set == Flag[Spelling(Arg(i))] IN o' = [o EXCEPT ![set.field] = set.value]
  /\ i' = i + 1
  /\ UNCHANGED <<env, args, colsGiven, pos, onlyPositional, phase, exit>>

\* opt_value: behind the "=", or the next argument, whatever it looks like.
SetValue ==
  /\ AtOption /\ Arg(i).eq # ":" /\ Spelling(Arg(i)) \in DOMAIN Valued
  /\ LET inline == Arg(i).eq = "="
         field == Valued[Spelling(Arg(i))]
         text  == IF inline THEN {Arg(i).value}
                  ELSE IF i < Len(args) THEN {AsValue(args[i + 1])} ELSE {}
         set   == UNION {WithValue(o, field, t) : t \in text}
     IN IF set = {} THEN UsageError /\ UNCHANGED optionVars
        ELSE /\ o' \in set
             /\ colsGiven' = (colsGiven \/ field = "cols")
             /\ i' = IF inline THEN i + 1 ELSE i + 2
             /\ UNCHANGED <<env, args, pos, onlyPositional, phase, exit>>

PrintAndExit ==
  /\ AtOption /\ Arg(i).eq = Empty /\ Spelling(Arg(i)) \in DOMAIN Prints
  /\ phase' = Prints[Spelling(Arg(i))]
  /\ UNCHANGED <<optionVars, exit>>

UnknownOption ==
  /\ AtOption /\ Arg(i) # [Word(Empty) EXCEPT !.lead = "--"]
  /\ Arg(i).eq # Empty \/ Spelling(Arg(i)) \notin DOMAIN Flag \cup DOMAIN Prints
  /\ Arg(i).eq = ":" \/ Spelling(Arg(i)) \notin DOMAIN Valued
  /\ UsageError /\ UNCHANGED optionVars

Positional ==
  /\ Scanning /\ (onlyPositional \/ ~IsOption(Arg(i)))
  /\ IF Len(pos) = 3 THEN UsageError /\ UNCHANGED optionVars
     ELSE /\ pos' = Append(pos, Arg(i)) /\ i' = i + 1
          /\ UNCHANGED <<env, args, o, colsGiven, onlyPositional, phase, exit>>

OnPath == {"lst", "list", "dump", "dmp"}
OnAttribute == {"put", "set", "get", "len", "del"}

\* How many arguments a command takes.
Arity ==
  [name \in OnPath \cup OnAttribute \cup {"load", "limits", "lim"} |->
     IF name \in OnAttribute THEN {2} ELSE IF name \in OnPath THEN {1} ELSE {0, 1}]

Command(name) ==
  CASE name = "set" -> "put"
    [] name \in {"list", "dump", "dmp"} -> "lst"
    [] name = "lim" -> "limits"
    [] OTHER -> name

\* The widths given make a table of rows that are not framed or delimited.
Dispatch ==
  /\ phase = "scan" /\ i > Len(args)
  /\ LET name == pos[1].name
     IN IF pos = <<>> \/ pos[1] # Word(name) \/ name \notin DOMAIN Arity
           \/ Len(pos) - 1 \notin Arity[name]
        THEN UsageError /\ UNCHANGED o
        ELSE /\ phase' = Command(name) /\ UNCHANGED exit
             /\ o' = [o EXCEPT !.fmt = IF colsGiven /\ @ \notin {"Md", "Csv"} THEN "Table" ELSE @,
                               !.values = @ \/ name \in {"dump", "dmp"}]
  /\ UNCHANGED <<env, args, i, colsGiven, pos, onlyPositional>>

ScanInit ==
  /\ env \in Environments /\ args \in CommandLines
  /\ i = 1 /\ o = Default /\ colsGiven = FALSE /\ pos = <<>> /\ onlyPositional = FALSE
  /\ phase = "scan" /\ exit = NoExit
=============================================================================
