---------------------------------- MODULE Cli ----------------------------------
(***************************************************************************)
(* xattr-stream from its arguments to its exit status (src/rust/src/       *)
(* main.rs): the command line, one command on one path, and what reaches   *)
(* standard output through the buffer in front of it.  The walk of a tree  *)
(* is in CliList, load in Load; here a recursive listing walks a path that *)
(* is a file.                                                              *)
(***************************************************************************)
EXTENDS Options, Rows, CliExit

CONSTANTS
  Files,       \* what a path holds: [path, attrs], attrs in the order xs::list has
  Values,      \* values of the attribute that put, get, len and del are about
  Absent,
  Stdins,
  Limits,      \* what xs::limits may answer
  Rooms,       \* bytes standard output takes before every write to it fails
  BufCap,      \* capacity of the BufWriter in front of it
  CallFaults,  \* statuses a call may fail with
  ReadFaults   \* statuses reading a listed attribute may fail with

VARIABLES
  file, value, stdin,
  buffered,    \* the BufWriter
  device,      \* what standard output took
  room,
  taken,       \* put: what was read; lst: the listed attributes read so far
  k,           \* lst: the next attribute
  result,      \* lst: status of the listing
  failures     \* Lst.failures

VARIABLES
  verb,        \* history: the command
  value0,      \* history: the value at the start
  written,     \* history: all that was put to standard output
  rows         \* history: the lines of a listing

output == <<buffered, device>>
history == <<verb, value0, written, rows>>
world == <<file, value, stdin, room>>
listing == <<taken, k, result, failures>>
vars == <<optionVars, phase, exit, world, output, listing, history>>

\* No input is longer than an address can count.
ASSUME CliAssumption ==
  /\ BufCap \in Nat \ {0} /\ Rooms \subseteq Nat /\ Limits \subseteq 0..WordMax
  /\ CallFaults \cup ReadFaults \subseteq Status \ {"OK"} /\ Absent \notin Values
  /\ Values \cup Stdins \subseteq Seq(Byte) /\ \A s \in Stdins : Len(s) <= WordMax
  /\ Files \subseteq [path : Seq(Byte), attrs : Seq([name : Seq(Byte), value : Seq(Byte)])]
  /\ DefaultWidth \in [ToSet(Column) -> Nat]

Verbs == {"put", "get", "len", "del", "lst", "load", "limits"}

-----------------------------------------------------------------------------
(* Standard output                                                         *)

KeepsLf(text) == text
CrlfEnds(text) ==
  FlattenSeq([n \in DOMAIN text |-> IF text[n] = LineFeed THEN <<Return, LineFeed>> ELSE <<text[n]>>])

\* struct Text: the bytes of a text on Windows.
Crlf(text) == CrlfEnds(text)
Translated(text) == IF env.windows THEN Crlf(text) ELSE text

\* What a write of bytes makes of the device; it fails once there is no room.
\* The line buffer std keeps in front of the device counts as part of it: the
\* flush that ends the program empties both.
Sent(dev, bytes) == SubSeq(dev \o bytes, 1, Min({room, Len(dev) + Len(bytes)}))
Whole(dev, bytes) == Len(dev) + Len(bytes) <= room

Out(buf, dev) == [buf |-> buf, dev |-> dev]

\* BufWriter::flush_buf: what could not be written stays.
Flushes(out) == Whole(out.dev, Translated(out.buf))
Flushed(out) ==
  Out(IF Flushes(out) THEN <<>> ELSE out.buf, Sent(out.dev, Translated(out.buf)))

\* BufWriter::write_all, its error ignored (Lst::put): a chunk waits in the
\* buffer if it can, else the buffer is flushed first; a chunk as large as the
\* buffer is written at once.
Put(out, chunk) ==
  LET full    == Len(out.buf) + Len(chunk) > BufCap
      flushed == IF full THEN Flushed(out) ELSE out
  IN IF full /\ ~Flushes(out) THEN flushed
     ELSE IF Len(chunk) >= BufCap THEN Out(flushed.buf, Sent(flushed.dev, Translated(chunk)))
     ELSE Out(flushed.buf \o chunk, flushed.dev)

PutAll(chunks) ==
  LET out == FoldLeft(Put, Out(buffered, device), chunks)
  IN /\ buffered' = out.buf /\ device' = out.dev
     /\ written' = written \o FlattenSeq(chunks)

\* A command's whole output, written and flushed.
PrintOut(bytes, text) ==
  LET all == IF text THEN Translated(bytes) ELSE bytes
  IN /\ device' = Sent(device, all) /\ written' = bytes
     /\ Exit(IF Whole(device, all) THEN 0 ELSE ExitError)
     /\ UNCHANGED <<buffered, verb, value0, rows>>

Say(line) == PrintOut(line \o <<LineFeed>>, TRUE)

\* report: told on stderr.
Fail(status) == Exit(ExitFor(status)) /\ UNCHANGED <<output, history>>

-----------------------------------------------------------------------------
(* Commands on one attribute                                               *)

SaturatingSuccessor(n) == IF n = WordMax THEN n ELSE n + 1
WrappingSuccessor(n) == (n + 1) % (WordMax + 1)

\* read_stdin takes a byte more than the limit, to see that it is exceeded.
ReadCap(limit) == SaturatingSuccessor(limit)

\* Cli::xs: zero is the default.
MaxValueLen == IF o.limit = 0 THEN DefaultLimit ELSE o.limit

ReadStdin ==
  /\ phase = "put"
  /\ LET got == SubSeq(stdin, 1, Min({ReadCap(o.limit), Len(stdin)}))
     IN \/ Fail("Io") /\ UNCHANGED taken
        \/ Len(got) > o.limit /\ Fail("TooLarge") /\ UNCHANGED taken
        \/ /\ Len(got) <= o.limit
           /\ taken' = got /\ phase' = "set" /\ UNCHANGED <<exit, output, history>>
  /\ UNCHANGED <<optionVars, world, k, result, failures>>

\* What a write that failed leaves: where values are streams, the old one is
\* gone once the stream is open (CREATE_ALWAYS), and a part may be written.
LeftBehind == {value} \cup (IF env.streams THEN Prefixes(taken) ELSE {})

SetValueOf ==
  /\ phase = "set"
  /\ \/ Len(taken) > MaxValueLen /\ Fail("TooLarge") /\ UNCHANGED value
     \/ /\ Len(taken) <= MaxValueLen
        /\ \/ \E status \in CallFaults : Fail(status) /\ value' \in LeftBehind
           \/ value' = taken /\ Fail("OK")
  /\ UNCHANGED <<optionVars, file, stdin, room, listing>>

CmdGet ==
  /\ phase = "get"
  /\ \/ \E status \in CallFaults : Fail(status)
     \/ value = Absent /\ Fail("Missing")
     \/ /\ value # Absent
        /\ IF Len(value) > MaxValueLen THEN Fail("TooLarge") ELSE PrintOut(value, FALSE)
  /\ UNCHANGED <<optionVars, world, listing>>

Number(n) == IF n < 0 THEN <<45>> \o Decimal(-n) ELSE Decimal(n)
LenKey == <<108, 101, 110>>
LimitsKey == <<109, 97, 120>>  \* max_value_bytes, shortened

\* A number, the only member of an object in JSON.
NumberLine(key, n) ==
  IF o.json THEN Braced(<<Quote>> \o key \o <<Quote>> \o ColonByte \o Number(n)) ELSE Number(n)

CmdLen ==
  /\ phase = "len"
  /\ \/ \E status \in CallFaults : Fail(status)
     \/ Say(NumberLine(LenKey, IF value = Absent THEN -1 ELSE Len(value)))
  /\ UNCHANGED <<optionVars, world, listing>>

CmdDel ==
  /\ phase = "del"
  /\ \/ \E status \in CallFaults : Fail(status) /\ UNCHANGED value
     \/ value' = Absent /\ Fail("OK")
  /\ UNCHANGED <<optionVars, file, stdin, room, listing>>

CmdLimits ==
  /\ phase = "limits"
  /\ \E n \in Limits : Say(NumberLine(LimitsKey, n))
  /\ UNCHANGED <<optionVars, world, listing>>

\* load, as Load has it.
CmdLoad ==
  /\ phase = "load"
  /\ \E code \in {0, 1} : Exit(code)
  /\ UNCHANGED <<optionVars, world, output, listing, history>>

\* The usage text, whether it can be written or not; the version.
PrintHelp    == phase = "help" /\ Exit(0) /\ UNCHANGED <<optionVars, world, output, listing, history>>
PrintVersion == phase = "version" /\ Say(<<118>>) /\ UNCHANGED <<optionVars, world, listing>>

-----------------------------------------------------------------------------
(* Listings                                                                *)

Framed(set)    == ~set.json /\ set.fmt \in {"Table", "Md"}
NamesArray(set) == set.json /\ ~set.values
ValueLines(set) == set.json /\ set.values

Row(kind, line) == [kind |-> kind, name |-> <<>>, value |-> <<>>, line |-> line]

Emit(lines) ==
  /\ PutAll([n \in DOMAIN lines |-> lines[n].line])
  /\ rows' = rows \o lines
  /\ UNCHANGED <<verb, value0>>

ResolveColor ==
  ~o.json /\ o.color # "off" /\ (o.color = "on" \/ (~env.noColor /\ env.terminal))

\* The lines in front of the first row; --csv with --json --values has its
\* labels in front of the objects.
Header(set) ==
  IF NamesArray(set) THEN <<Row("array", <<91>>)>>
  ELSE IF Framed(set)
  THEN (IF set.fmt = "Table" THEN <<Row("border", Border(set))>> ELSE <<>>)
       \o <<Row("header", HeaderRow(set)), Row("border", Border(set))>>
  ELSE IF set.fmt = "Csv" THEN <<Row("labels", CsvHeader(set))>> ELSE <<>>

LstStart ==
  /\ phase = "lst"
  /\ o' = [o EXCEPT !.useColor = ResolveColor]
  /\ Emit(Header(o'))
  /\ phase' = "list"
  /\ UNCHANGED <<env, args, i, colsGiven, pos, onlyPositional, exit, world, listing>>

\* list_one; a recursive listing comes to it by its walk, where a failure of
\* list_one is a warning, and one of the walk ends the listing as without.
LstList ==
  /\ phase = "list"
  /\ \/ k' = 1 /\ phase' = "rows" /\ UNCHANGED <<result, failures>>
     \/ \E status \in CallFaults :
          /\ \/ result' = status /\ UNCHANGED failures
             \/ o.recurse /\ failures' = failures + 1 /\ UNCHANGED result
          /\ phase' = "tail" /\ UNCHANGED k
  /\ UNCHANGED <<optionVars, exit, world, output, taken, history>>

\* The attributes in the order they are read.
Order ==
  IF ValueLines(o) THEN Those(file.attrs, TRUE) \o Those(file.attrs, FALSE) ELSE file.attrs

\* emit_entry of an attribute that could be read, if it had to be.
EntryLine(entry) ==
  CASE NamesArray(o) -> JsonEntry(o, taken = <<>>, file.path, entry.name)
    [] ~o.json /\ o.fmt = "Tsv" -> TsvRow(o, file.path, entry.name, entry.value)
    [] ~o.json /\ o.fmt = "Csv" -> CsvRow(o, file.path, entry.name, entry.value)
    [] Framed(o) -> TableRow(o, file.path, entry.name, entry.value)

Entry(entry) == [kind |-> "row", name |-> entry.name, value |-> entry.value, line |-> EntryLine(entry)]

LstRow ==
  /\ phase = "rows" /\ k <= Len(Order)
  /\ k' = k + 1
  /\ \/ /\ o.values /\ ReadFaults # {}
        /\ failures' = failures + 1
        /\ UNCHANGED <<taken, output, history>>
     \/ /\ taken' = Append(taken, Order[k])
        /\ IF ValueLines(o) THEN UNCHANGED <<output, history>> ELSE Emit(<<Entry(Order[k])>>)
        /\ UNCHANGED failures
  /\ UNCHANGED <<optionVars, phase, exit, world, result>>

LstRowsEnd ==
  /\ phase = "rows" /\ k > Len(Order)
  /\ IF ValueLines(o) /\ taken # <<>> THEN Emit(<<Row("json", JsonFile(file.path, taken))>>)
     ELSE UNCHANGED <<output, history>>
  /\ phase' = "tail"
  /\ UNCHANGED <<optionVars, exit, world, listing>>

\* What closes the listing; then the flush, the only write whose failure is
\* looked at.
LstTail ==
  /\ phase = "tail"
  /\ LET lines == IF NamesArray(o) THEN <<Row("array", <<93, LineFeed>>)>>
                  ELSE IF Framed(o) /\ o.fmt = "Table" THEN <<Row("border", Border(o))>> ELSE <<>>
         out == FoldLeft(Put, Out(buffered, device), [n \in DOMAIN lines |-> lines[n].line])
     IN /\ buffered' = Flushed(out).buf /\ device' = Flushed(out).dev
        /\ written' = written \o FlattenSeq([n \in DOMAIN lines |-> lines[n].line])
        /\ rows' = rows \o lines
        /\ Exit(IF result # "OK" THEN ExitFor(result)
                ELSE IF ~Flushes(out) \/ failures > 0 THEN ExitError ELSE 0)
  /\ UNCHANGED <<optionVars, world, listing, verb, value0>>

-----------------------------------------------------------------------------
\* The command is chosen; what it is about is there.
Start ==
  /\ Dispatch
  /\ IF phase' = "exit" THEN UNCHANGED <<file, value, stdin, verb, value0>>
     ELSE /\ file' \in IF phase' = "lst" THEN Files ELSE {file}
          /\ value' \in IF phase' \in {"put", "get", "len", "del"} THEN Values \cup {Absent} ELSE {value}
          /\ stdin' \in IF phase' = "put" THEN Stdins ELSE {stdin}
          /\ verb' = phase' /\ value0' = value'
  /\ UNCHANGED <<room, output, listing, written, rows>>

TakeArgument ==
  /\ EndOptions \/ SetFlag \/ SetValue \/ PrintAndExit \/ UnknownOption \/ Positional
  /\ UNCHANGED <<world, output, listing, history>>

Init ==
  /\ ScanInit
  /\ file = [path |-> <<>>, attrs |-> <<>>] /\ value = Absent /\ stdin = <<>>
  /\ room \in Rooms
  /\ buffered = <<>> /\ device = <<>>
  /\ taken = <<>> /\ k = 1 /\ result = "OK" /\ failures = 0
  /\ verb = "none" /\ value0 = Absent /\ written = <<>> /\ rows = <<>>

Next ==
  \/ TakeArgument \/ Start
  \/ ReadStdin \/ SetValueOf \/ CmdGet \/ CmdLen \/ CmdDel \/ CmdLimits \/ CmdLoad
  \/ PrintHelp \/ PrintVersion
  \/ LstStart \/ LstList \/ LstRow \/ LstRowsEnd \/ LstTail

Spec == Init /\ [][Next]_vars

-----------------------------------------------------------------------------
\* The command line as README.md:154 describes it, "Options go anywhere; later
\* options override earlier ones; -- ends options", without going through it
\* in order: an argument is a value if the option before it needs one.
Dashed(n) == IF env.windows THEN SlashSwitch(args[n]) ELSE args[n]
NeedsValue(n) == Spelling(Dashed(n)) \in DOMAIN Valued /\ Dashed(n).eq = Empty
Dashes(n) == args[n] = [Word(Empty) EXCEPT !.lead = "--"]

RoleOf[n \in 0..Len(args)] ==
  IF n = 0 THEN "option"
  ELSE IF \E m \in 1..(n - 1) : Dashes(m) /\ RoleOf[m] = "option" THEN "positional"
  ELSE IF n > 1 /\ RoleOf[n - 1] = "option" /\ NeedsValue(n - 1) THEN "value"
  ELSE IF IsOption(Dashed(n)) THEN "option" ELSE "positional"

\* The options that set a field, and the last text given to a valued one.
Setters(field) ==
  {n \in DOMAIN args : RoleOf[n] = "option" /\
     LET s == Spelling(Dashed(n))
     IN (s \in DOMAIN Flag /\ Flag[s].field = field) \/ (s \in DOMAIN Valued /\ Valued[s] = field)}
LastText(field) ==
  LET n == Max(Setters(field))
  IN IF Dashed(n).eq = "=" THEN Dashed(n).value ELSE AsValue(args[n + 1])

PlainFields == {"nofollow", "raw", "json", "utf8", "quiet", "depthFirst", "debug", "hex", "color",
                "allowUnsafe"}

\* What the last of the flags that set a field makes it.
LastFlag(field) ==
  IF Setters(field) = {} THEN Default[field] ELSE Flag[Spelling(Dashed(Max(Setters(field))))].value

\* Whatever the order of the arguments, each option is in effect with the last
\* value it was given, --depth recurses, a dump has values, and what is left
\* are the positional arguments.  The format is the last one asked for, but no
\* option behind --cols overrides it: given anywhere, it makes a table of what
\* is neither CSV nor Markdown (run of main.rs, the test in front of the
\* commands).
LastWins ==
  phase \in Verbs =>
    /\ \A field \in PlainFields : o[field] = LastFlag(field)
    /\ o.fmt = IF Setters("cols") # {} /\ LastFlag("fmt") \notin {"Md", "Csv"} THEN "Table"
               ELSE LastFlag("fmt")
    /\ o.values = (LastFlag("values") \/ pos[1].name \in {"dump", "dmp"})
    /\ o.recurse = (Setters("recurse") \cup Setters("maxDepth") # {})
    /\ o.cols = IF Setters("cols") = {} THEN <<>>
                ELSE [n \in DOMAIN LastText("cols") |-> ParseDigits(LastText("cols")[n])]
    /\ (Setters("root") # {}) => (o.root = LastText("root"))
    /\ LET rest == {n \in DOMAIN args : RoleOf[n] = "positional"}
       IN /\ Len(pos) = Cardinality(rest)
          /\ \A n \in rest : pos[Cardinality({m \in rest : m <= n})] = args[n]

Number10(item) == FoldLeft(LAMBDA v, d : v * 10 + d, 0, item)

\* A number that was accepted is the number that was written: none is taken
\* modulo the width of u64 (parse_digits), or beyond what a depth can hold.
NumbersExact ==
  phase \in Verbs =>
    /\ \A field \in {"limit", "maxWidth", "maxDepth"} :
         o[field] = IF Setters(field) = {} THEN Default[field] ELSE Number10(LastText(field)[1])
    /\ \A n \in DOMAIN o.cols : o.cols[n] = Number10(LastText("cols")[n])
    /\ o.maxDepth <= WordMax \div 2

\* Success and failure are what they say: put stored all of standard input and
\* nothing else, get wrote the value, del removed it.  A command that failed
\* left the value as it was, except a put where values are streams: it may
\* leave the start of standard input, though nothing of an input beyond the
\* limit (cmd_put, cmd_get, cmd_del, read_stdin; write of windows.rs).
CommandsTrue ==
  phase = "exit" =>
    /\ (verb = "put" /\ exit = 0) => (value = stdin)
    /\ (verb = "get" /\ exit = 0) => (device = value0)
    /\ (verb = "del" /\ exit = 0) => (value = Absent)
    /\ (exit # 0 \/ verb \notin {"put", "del"}) =>
         \/ value = value0
         \/ verb = "put" /\ env.streams /\ Len(stdin) <= o.limit /\ value \in Prefixes(stdin)

\* The device holds the text: on Windows with a CR before each LF.
Holds(dev, text) ==
  IF ~env.windows THEN dev = text
  ELSE /\ \A n \in DOMAIN dev : dev[n] = LineFeed => n > 1 /\ dev[n - 1] = Return
       /\ text = FlattenSeq([n \in DOMAIN dev |->
                           IF dev[n] = Return /\ n < Len(dev) /\ dev[n + 1] = LineFeed THEN <<>>
                           ELSE <<dev[n]>>])

\* An exit status of 0 says that the whole output arrived, however full the
\* device became and whenever the buffer was flushed (Lst::put ignores errors,
\* the flush at the end of cmd_lst and println_out do not).
OutputWhole ==
  phase = "exit" /\ exit = 0 /\ verb \in {"lst", "len", "limits"} => Holds(device, written)

Listed(kinds) == {rows[n] : n \in {m \in DOMAIN rows : rows[m].kind \in kinds}}

\* A line without its colors.
Plain(line) ==
  FoldLeft(LAMBDA st, b : IF st.in THEN [st EXCEPT !.in = b # 109]
                          ELSE IF b = 27 THEN [st EXCEPT !.in = TRUE]
                          ELSE [st EXCEPT !.out = Append(@, b)],
           [in |-> FALSE, out |-> <<>>], line).out

\* Where the frame is, counted in code points.
Bars(line, bar) ==
  {CountCodePoints(SubSeq(line, 1, n)) : n \in {m \in DOMAIN line : line[m] = bar}}

\* A table stays a table, whatever is in the cells: each line of it has its
\* bars where the border has its corners (fit_cell, escape_bars, put_cell),
\* if the widths are fixed and the path is on one line.
FrameHolds ==
  /\ phase = "exit" /\ verb = "lst" /\ Framed(o) /\ o.fmt = "Table"
  /\ \A c \in Present(o) : Width(o, c) # 0
  /\ LineFeed \notin ToSet(file.path)
  => \A row \in Listed({"header", "row"}) : Bars(Plain(row.line), Bar) = Bars(Border(o), 43)

\* The fields of a line of CSV, as RFC 4180 has them.
CsvFields(line) ==
  FoldLeft(LAMBDA st, b :
             IF b = Quote
             THEN [st EXCEPT !.quoted = ~@,
                             !.fields[Len(st.fields)] = IF ~st.quoted /\ st.last = Quote
                                                        THEN Append(@, Quote) ELSE @,
                             !.last = b]
             ELSE IF b = Comma /\ ~st.quoted THEN [st EXCEPT !.fields = Append(@, <<>>), !.last = b]
             ELSE [st EXCEPT !.fields[Len(st.fields)] = Append(@, b), !.last = b],
           [fields |-> <<<<>>>>, quoted |-> FALSE, last |-> 0], SubSeq(line, 1, Len(line) - 1)).fields

\* A row of CSV reads back as what was listed: the path, the name and the
\* value, a field each (csv_field, render_value).
CsvReadsBack ==
  phase = "exit" /\ verb = "lst" /\ ~o.json /\ o.fmt = "Csv"
  => \A row \in Listed({"row"}) :
       LET fields == CsvFields(row.line)
           start  == IF o.recurse THEN 1 ELSE 0
       IN /\ o.recurse => fields[1] = file.path
          /\ Decode(fields[start + 1]) = row.name
          /\ IF o.values
             THEN /\ Len(fields) = start + 2
                  /\ IF o.hex THEN fields[start + 2] = Hex(row.value)
                     ELSE Decode(fields[start + 2]) = row.value
             ELSE Len(fields) = start + 1

\* The strings of a line of JSON, in order.
Strings(line) ==
  FoldLeft(LAMBDA st, n :
             IF n < st.next \/ line[n] # Quote THEN st
             ELSE LET s == ParseString(SubSeq(line, n, Len(line)))
                  IN [next |-> n + s.i - 1, found |-> Append(st.found, s.text)],
           [next |-> 1, found |-> <<>>], [n \in DOMAIN line |-> n]).found

\* A line of a dump is UTF-8 and gives load back what was read: the path, then
\* each name with its value, the names that are not UTF-8 behind xattrs_pb
\* (json_file against Parser::string and pb::decode).
DumpReadsBack ==
  \A row \in (IF phase = "exit" THEN Listed({"json"}) ELSE {}) :
    LET found == Strings(row.line)
        split == {n \in DOMAIN found : found[n] = PbKey(XattrsKey)}
        Utf8Key(n) == \A m \in split : n < m
        names == {n \in 3..Len(found) : found[n] \in {XattrsKey, PbKey(XattrsKey)}}
        NameOf(n) == IF Utf8Key(n) THEN found[n] ELSE Decode(found[n])
        pairs == {n \in 4..(Len(found) - 1) : n \notin names /\
                    (n - Cardinality({m \in names : m < n})) % 2 = 1}
    IN /\ IsUtf8(row.line)
       /\ (IF found[1] = PathKey THEN found[2] ELSE Decode(found[2])) = file.path
       /\ {[name |-> NameOf(n), value |-> Decode(found[n + 1])] : n \in pairs} = ToSet(taken)

\* Cut or not, colored or not, a listing of text is text: no code point is
\* taken apart (fit_cell, print_value_tsv, utf8_prefix_bytes, utf8_suffix_start).
LinesAreText ==
  phase = "exit" /\ verb = "lst" /\ ~o.json /\ IsUtf8(file.path)
    /\ (\A entry \in ToSet(file.attrs) : IsUtf8(entry.name))
  => \A n \in DOMAIN rows : IsUtf8(rows[n].line)
=============================================================================
