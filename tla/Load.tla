-------------------------------- MODULE Load --------------------------------
(***************************************************************************)
(* load (cmd_load and struct Load of src/rust/src/main.rs): a dump is read *)
(* line by line, each line is parsed in full, then its path is checked and *)
(* its attributes are written one call of xs::set at a time.  Whatever     *)
(* fails is reported and counted, and the rest of the dump still loads.    *)
(***************************************************************************)
EXTENDS Dump, CliExit

CONSTANTS
  Dumps,       \* the dumps read: sequences of lines
  Settings,    \* command lines: [file, unsafe, root]
  NoRoot,      \* --root was not given
  Byte,        \* what printable-binary decodes a character to
  SetFaults    \* what xs::set may fail with apart from its arguments

VARIABLES
  input,      \* what is left of the dump
  settings,   \* the command line
  pc,
  line,       \* Load.line: lines read
  fields,     \* fields of the line not applied yet
  skip,       \* the line's path was refused, or none came yet
  path,       \* where the line's attributes go
  failures,   \* Load.failures
  exit        \* the exit status

VARIABLES
  dump,       \* history: the whole dump
  calls,      \* history: the calls of xs::set and what they returned
  reports,    \* history: what was said on stderr
  cut         \* history: reading the dump failed

history == <<dump, calls, reports, cut>>
vars == <<input, settings, pc, line, fields, skip, path, failures, exit, history>>

ASSUME LoadAssumption ==
  /\ Dumps \subseteq Seq(Seq(Tokens))
  /\ SetFaults \subseteq Status \ {"OK"}
  /\ Settings \subseteq [file : BOOLEAN, unsafe : BOOLEAN, root : {NoRoot} \cup Seq(DOMAIN Byte)]

NoExit == 256

\* pb::decode, of texts whose glyphs are characters of their own.
Decode(text) == [i \in DOMAIN text |-> Byte[text[i]]]

Problem(n, p, name, status) == [line |-> n, path |-> p, name |-> name, status |-> status]

Report(p, name, status) ==
  /\ failures' = failures + 1
  /\ reports' = Append(reports, Problem(line', p, name, status))

Quiet == UNCHANGED <<failures, reports>>

\* xs::set checks the name, then the path, and asks the OS.
SetOutcomes(p, name) ==
  IF name = <<>> THEN {"InvalidName"}
  ELSE IF p = <<>> \/ Nul \in ToSet(p) THEN {"InvalidPath"}
  ELSE SetFaults \cup {"OK"}

-----------------------------------------------------------------------------
\* Standard input is simply there; a file has to be opened.
Open ==
  /\ pc = "open"
  /\ \/ pc' = "read" /\ UNCHANGED <<exit, reports>>
     \/ /\ settings.file
        /\ \E status \in {"NotFound", "Permission", "Io"} :
             /\ exit' = ExitFor(status)
             /\ reports' = Append(reports, Problem(0, <<>>, <<>>, status))
        /\ pc' = "done"
  /\ UNCHANGED <<input, settings, line, fields, skip, path, failures, dump, calls, cut>>

ReadFails ==
  /\ pc = "read"
  /\ cut' = TRUE
  /\ UNCHANGED line
  /\ Report(<<>>, <<>>, "Io")
  /\ pc' = "exit"
  /\ UNCHANGED <<input, settings, fields, skip, path, exit, dump, calls>>

CountParsed(l) == IF l = <<>> THEN line ELSE line + 1
CountAll(l)    == line + 1

\* Every line is counted, blank ones too.
LineNumber(l) == CountAll(l)

\* read_until and parse_line.
ReadLine ==
  /\ pc = "read" /\ Len(input) > 0
  /\ input' = Tail(input)
  /\ line' = LineNumber(Head(input))
  /\ LET parsed == ParseLine(Head(input))
     IN IF Head(input) = <<>> THEN Quiet /\ UNCHANGED <<fields, skip, pc>>
        ELSE /\ skip' = TRUE
             /\ IF parsed.ok
                THEN fields' = parsed.fields /\ pc' = "field" /\ Quiet
                ELSE Report(<<>>, <<>>, "InvalidArgument") /\ UNCHANGED <<fields, pc>>
  /\ UNCHANGED <<settings, path, exit, dump, calls, cut>>

EndOfDump ==
  /\ pc = "read" /\ input = <<>>
  /\ pc' = "exit"
  /\ UNCHANGED <<input, settings, line, fields, skip, path, failures, exit, history>>

PathText(f) == IF f.field = Key("path_pb") THEN Decode(f.value) ELSE f.value

Accepts(p) == settings.unsafe \/ IsContainedRelativePath(p)

\* set_path
Target(p) ==
  IF settings.root # NoRoot /\ ~IsAbsolutePath(p) THEN settings.root \o <<"/">> \o p ELSE p

\* Load::field, the path.
PathField ==
  /\ pc = "field" /\ fields # <<>> /\ Head(fields).field \in PathKeys
  /\ UNCHANGED line
  /\ LET p == PathText(Head(fields))
     IN IF Accepts(p)
        THEN path' = Target(p) /\ skip' = FALSE /\ Quiet
        ELSE Report(p, <<>>, "InvalidPath") /\ skip' = TRUE /\ UNCHANGED path
  /\ fields' = Tail(fields)
  /\ UNCHANGED <<input, settings, pc, exit, dump, calls, cut>>

NameAsWritten(f) == f.key

\* The name an attribute is written under.
AttrName(f) == IF f.field = Key("xattrs_pb") THEN Decode(f.key) ELSE f.key

\* Load::field, an attribute.
AttrField ==
  /\ pc = "field" /\ fields # <<>> /\ Head(fields).field \in MapKeys
  /\ UNCHANGED line
  /\ LET f == Head(fields)
     IN IF skip THEN Quiet /\ UNCHANGED calls
        ELSE \E status \in SetOutcomes(path, AttrName(f)) :
               /\ calls' = Append(calls, [line |-> line, path |-> path, name |-> AttrName(f),
                                          value |-> Decode(f.value), status |-> status])
               /\ IF status = "OK" THEN Quiet ELSE Report(path, AttrName(f), status)
  /\ fields' = Tail(fields)
  /\ UNCHANGED <<input, settings, pc, skip, path, exit, dump, cut>>

EndOfLine ==
  /\ pc = "field" /\ fields = <<>>
  /\ pc' = "read"
  /\ UNCHANGED <<input, settings, line, fields, skip, path, failures, exit, history>>

ExitByLine == IF skip THEN ExitError ELSE 0

\* The exit status once the dump has been read.
ExitCode == IF failures > 0 THEN ExitError ELSE 0

Exit ==
  /\ pc = "exit"
  /\ exit' = ExitCode
  /\ pc' = "done"
  /\ UNCHANGED <<input, settings, line, fields, skip, path, failures, history>>

-----------------------------------------------------------------------------
Init ==
  /\ dump \in Dumps /\ input = dump /\ settings \in Settings
  /\ pc = "open" /\ line = 0 /\ fields = <<>> /\ skip = TRUE /\ path = <<>>
  /\ failures = 0 /\ exit = NoExit
  /\ calls = <<>> /\ reports = <<>> /\ cut = FALSE

Next ==
  \/ Open \/ ReadFails \/ ReadLine \/ EndOfDump
  \/ PathField \/ AttrField \/ EndOfLine \/ Exit

Spec == Init /\ [][Next]_vars

-----------------------------------------------------------------------------
(* Properties                                                              *)

Consumed == Len(dump) - Len(input)

Lines == UNION {ToSet(d) : d \in Dumps}

\* What the lines mean, said without the parser; <<>> of what is no dump line.
Meant == [l \in Lines |-> IF Readings(l) = {} THEN <<>> ELSE Meaning(l)]

\* parse_line accepts the lines that are dump lines and no others, and emits
\* what they say: the path, then the xattrs, then the xattrs_pb, in document
\* order, whatever the order of the members (dump.rs:44-54).
ParsesExactly ==
  pc = "read" /\ input # <<>> =>
    LET parsed == ParseLine(Head(input))
    IN parsed.fields = Meant[Head(input)] /\ (parsed.ok <=> parsed.fields # <<>>)

PathOf(m) == LET f == Head(m) IN IF f.field = Key("path_pb") THEN Decode(f.value) ELSE f.value

\* A line with this meaning is restored.
Restored(m) == m # <<>> /\ Accepts(PathOf(m))

\* The calls line i of the dump asks for.
Wanted(i) ==
  LET m == Meant[dump[i]]
  IN IF ~Restored(m) THEN <<>>
     ELSE [j \in 1..(Len(m) - 1) |->
             [line |-> i, path |-> Target(PathOf(m)),
              name |-> IF m[j + 1].field = Key("xattrs_pb") THEN Decode(m[j + 1].key) ELSE m[j + 1].key,
              value |-> Decode(m[j + 1].value)]]

Asked(n) == FlattenSeq([i \in 1..n |-> Wanted(i)])

Made == [j \in DOMAIN calls |-> [line |-> calls[j].line, path |-> calls[j].path,
                                 name |-> calls[j].name, value |-> calls[j].value]]

\* Every attribute of every line that is accepted is written to that line's
\* path, once and in order, whatever failed before it; a line that is
\* malformed anywhere, or whose path is refused, writes nothing, and no path
\* or flag of a line reaches the next (main.rs:974-976, README.md:132-134).
RestoresAll ==
  LET asked == Asked(Consumed)
  IN IF pc = "field" THEN IsPrefix(Made, asked) ELSE Made = asked

\* Unless --allow-unsafe-paths is given nothing is written outside the tree
\* that --root or the current directory names, whichever system's separators
\* and drives the path is spelled with (README.md:123-131).
StaysBelowRoot ==
  ~settings.unsafe =>
    \A c \in ToSet(calls) :
      IF settings.root = NoRoot THEN StaysInside(c.path)
      ELSE /\ IsPrefix(settings.root \o <<"/">>, c.path)
           /\ StaysInside(SubSeq(c.path, Len(settings.root) + 2, Len(c.path)))

\* What is to be said of a call, when it is one of line i.
Complaint(c, i) ==
  IF c.line = i /\ c.status # "OK" THEN <<Problem(i, c.path, c.name, c.status)>> ELSE <<>>

Complaints(cs, i) == FlattenSeq([j \in DOMAIN cs |-> Complaint(cs[j], i)])

\* What is to be said of line i.
Told(i) ==
  LET m == Meant[dump[i]]
  IN IF dump[i] = <<>> THEN <<>>
     ELSE IF m = <<>> THEN <<Problem(i, <<>>, <<>>, "InvalidArgument")>>
     ELSE IF ~Restored(m) THEN <<Problem(i, PathOf(m), <<>>, "InvalidPath")>>
     ELSE Complaints(calls, i)

\* Every problem is reported once, in order, with the number of its line in
\* the dump and the path and name it is about (README.md:132-134).
ReportsMatch ==
  pc \in {"read", "exit"} =>
    reports = FlattenSeq([i \in 1..Consumed |-> Told(i)])
              \o (IF cut THEN <<Problem(Consumed, <<>>, <<>>, "Io")>> ELSE <<>>)

\* The exit status is 0 when the whole dump was read and everything in it is
\* on the disk, and only then ("the exit code is 1 if anything was skipped",
\* main.rs:1011-1013).
ExitTrue ==
  pc = "done" =>
    (exit = 0 <=>
       /\ input = <<>> /\ ~cut
       /\ \A i \in DOMAIN dump : dump[i] = <<>> \/ Restored(Meant[dump[i]])
       /\ Made = Asked(Len(dump)) /\ \A c \in ToSet(calls) : c.status = "OK"
       /\ \A r \in ToSet(reports) : r.line # 0)
=============================================================================
