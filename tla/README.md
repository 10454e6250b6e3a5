# A TLA+ model of xattr_stream

xattr_stream gives one portable view of extended attributes: Linux and macOS
xattrs and NTFS alternate data streams behind five calls (set, get, get_into,
size, remove) and a listing. The repository holds it twice: a library in Zig
behind a C ABI with a command line tool in C, and a complete port of both to
Rust. Nothing in it starts threads or keeps a database. What makes it hard is
that its state lives in the filesystem, where everybody else writes too: a get is
two or more system calls, a write on NTFS is a truncation followed by several
writes, and whatever happens between two of them is a case to be handled. The
other half of it is text: names judged by three systems' rules, dumps that must
come back as what they were, tables that must stay tables.

This directory models that behaviour, checks it with TLC on small instances, and
proves its central properties with TLAPS for every instance. Paths below are
relative to the repository's root; `PROJECT.json` holds the line-by-line map.
The Rust port is the reference of the map, its names those of the modules;
where the two implementations differ in behaviour the module says so. `libIo` and
one step of the walk exist in Zig only.

## The parts of the system

| Component | State | Operations | What makes it correct |
|---|---|---|---|
| Core port, `rust/src/lib.rs` (`src/xattr_stream.zig`) | the thread-local last OS error; locals of a call | set, get, get_into, size, remove, list | answers are true of one moment of the call; retries are bounded; one allocation per successful get; a bound is checked before allocating |
| Linux and macOS adapters, `rust/src/os/linux.rs`, `os/macos.rs` | none of their own: the inode's attributes | one system call each; list_raw several | errnos map to statuses; a listing is one the path had |
| Windows adapter, `rust/src/os/windows.rs` | the stream, open handles and their share modes | read, write, remove, size, list_raw | readers never see half a write; failures are true; every loop ends; stream names are spelled and read back alike |
| Names, `rust/src/names.rs` | none | validate_logical, classify, to_native, from_native | a bijection between logical names and the native names a listing shows |
| C ABI, `rust/src/ffi.rs` | buffers handed to the caller | xs_* | a buffer freed once, at the capacity it was allocated with |
| Walker, `rust/src/walk.rs` (`src/walk.zig`) | the pending queue or stack; in Zig the process-wide Io | walk, FsLister, libIo | parents before children, links never entered, the depth limit, one build of the Io |
| Dump format, `rust/src/dump.rs` | none | parse_line, is_contained_relative_path | a line is understood as a whole or not at all, no path that climbs out |
| Printable-binary, `rust/src/pb.rs`, `pb_map.rs` | none | encode, decode | every byte string comes back |
| CLI, `rust/src/main.rs` (`src/xattr_stream_cli.c`) | the options; the current line, its skip flag and the failure count of load; the failure count of a listing; a buffered output | put, get, len, del, lst, dump, load, limits | options mean what they say in any order; nothing of one dump line reaches the next; the exit status says whether anything failed |
| Build script, `build` | `CANONICAL_IMPL`, product trees, `bin/` | canonize, build, publish | `bin/` always names a checked, complete command (not modelled) |
| Packaging, CI, tests | | | not modelled |

How they interact: the C tool calls the C ABI, which calls the core; the Rust
tool calls the core itself. The core calls the adapter the build selected, and the
adapter calls the kernel. The walker and the dump parser call the CLI back once
per path and once per field. The kernel's state is shared with every other
process. Threads of one process share only `io_state` and `threaded` of
`walk.zig`; the last OS error is per thread.

The hard behaviours, each listed with its line under "hazards" in
`PROJECT.json`: the size query and the read of a get or a listing can be
separated by any write; a length of zero turns a read into a size query; a stream
is truncated before it is written; share modes do not govern attribute-only
opens; a base file can vanish after it was checked; a process can die in the middle
of a write; a bounded retry must neither give up early nor go on for ever; a tree
changes while it is walked, so what a directory listed may be gone, or be
something else, by the time it is visited, opened or read; one failed attribute of a
dump must neither stop the load nor be forgotten; standard output can become
full between two flushes; a buffer crosses the C boundary and comes back.

## The modules

```
AttrCalls          calls, answers, and which answers a history allows
  |-- AttrStore    abstract: a cell that calls read and replace atomically
  |-- PosixCore    the five calls over the Linux adapter, per system call
        |-- PosixCoreProofs     invariants and the refinement of AttrStore
        |-- MCPosixCore
PosixList          list over list_raw, Zig and Rust   <-- MCPosixList
  |-- PosixListProofs
NtfsStream         one stream under share modes       <-- MCNtfsStream
  |-- NtfsStreamProofs
Walk               walk over FsLister, on a changing tree
  |-- CliList      lst -r and dump -r: Walk calling walk_visit <-- MCCliList
        |-- CliListProofs       the order of the visits, what a listing leaves out
LibIo              libIo's lazy construction
  |-- LibIoProofs
Bytes              UTF-8 on byte sequences
  |-- Names        what a name may be, per system
  |-- NtfsNames    UTF-16, stream names
  |     |-- Abi    (with Names) the C ABI and its buffers <-- MCAbi
  |     |-- AbiProofs
  |-- Pb (PbMap)   printable-binary
        |-- Json   strings of JSON, written and read
              |-- Rows    every line a listing prints
                    |-- Cli   (with Options, CliExit) all commands <-- MCCli
                          |-- CliProofs
Dump (CliExit)     parse_line and the path guard
  |-- Load         cmd_load                           <-- MCLoad
        |-- LoadProofs
```

**AttrCalls** is the vocabulary: a request (operation, value, bound, and the
first thing validation objects to), an answer (status, bytes, length), and
`Outcomes(r, S, n)`: the answers a call `r` may give when `S` is everything the
attribute held while it ran and `n` how often it was written meanwhile. `Missing`
needs a moment of absence, `NotFound` a moment without the path, `TooLarge` of a
get a moment with a value over its bound, `Changed` as many writes as
attempts, and bytes with their length have to come from one moment.

**AttrStore** is the promise: begin; then one atomic step that reads an allowed
answer, replaces the cell, or removes it; then end. Others replace the cell at
any time.

**PosixCore** is the code. State: `cell` is what the kernel holds for one
attribute of one path (a value, `Absent`, or `Gone` when the path does not
resolve), `pc`, `attempt` and `expected` are `get_with`'s position and locals,
`live` counts its allocations, `osError` is `last_os_error`; `seen` and
`churn` are history variables nothing else reads. Each action ends with one
system call and includes the code up to the next: `Check` is the name, the path
and set's bound, in the code's order; `OptimisticRead`, `SizeQuery` and
`SizedRead` are the three system calls of `get_with`, with `Retry` its `continue`.
A failed allocation is a disjunct wherever the code allocates. The kernel
(`GetXattr`, `SetXattr`, `RemoveXattr`) is external and modelled from the way
the adapter calls it: a room of zero is a size query, too little room is ERANGE,
and any errno of `ReadFaults` or `WriteFaults` may come instead. Allocations are
those of the Zig implementation, which frees by hand; Rust aborts when memory is out
and frees by scope.

**PosixList** is the same for `list`: the attributes of a path are a set, the kernel
lists a set in any order, and `pack_logical` filters and sorts. `Size` is how many bytes
a listing of some names takes; that is all their lengths matter for. The constant
`Implementation` says what happens when the kernel reports more bytes than the
zero-length buffer it was given holds: Zig slices past the end, which the model
renders as `Garbage` (the default ReleaseFast build has no bounds check), and
Rust's `truncate` leaves the buffer empty.

**NtfsStream** is the Windows adapter under the core. A call goes through
`RequireBase`, an open with its retry loop (`BackOff`), then `ReadBody`, or
`WriteChunk` repeated and `EndWrite`. `handle` holds the open handles share
modes are judged by; `current` is a history variable: the last content that was
left whole or left behind, and `seen` collects for each call what of it the call's answer may
depend on. Crashes and other programs are actions of their own.
The names and paths of this module are valid and allocations succeed: NtfsNames
and PosixCore have those. `map_win`'s errors for reasons of the system's own are the
constant `Faults`; the statuses the code distinguishes (not found, missing, sharing
violation) come from the state.

**Walk** is `walk` over the real lister. State: `tree` gives what is at each path
(others delete and create entries at any time, one per action), `pending` and
`head` are the queue or the stack, `kids` the sorted entries not yet visited,
`node` the directory at work, `pc` the place in the loop. A step looks at the tree once
(`InspectRoot` and each step of `Lstat` are an lstat, `Read` opens and lists a
directory) or calls the visitor once (`VisitRoot`, `VisitNode`, `VisitKid`,
`ReportFailure`). Breadth-first visits children from `kids` and queues the
directories among them; depth-first pushes `kids` in reverse and visits what it pops.
`options.types` says whether listings tell kinds (`listedKind`); if not, an lstat per
entry follows, and the first that fails fails the listing. `FollowsLinks` says
how a directory is opened: Rust's `read_dir` resolves a link that has come to stand
where a directory was, Zig's open does not. A visitor may stop the walk unless it is
the CLI's. `log` (the visits), `steady` (paths nothing happened to) and `was` (kinds a
path has had) are history. A link leads to the root, to some file or nowhere, a
rename is a deletion and a creation, and reading a directory is one step: what the
kernel promises of entries that come and go during a readdir is less, but all
that the properties speak of are entries that stayed.

**CliList** composes Walk with the callback of the CLI. While `walk_visit` is at
work (`call`) the walk waits and everybody else goes on. `ListOne` is the listing of
the names, `GetValues` the loop of `json_file` or `emit_entry` with its get;
`complaints` is what `warn_path` said and counted, `listed` what was printed.

**LibIo** has one atomic operation per action, and the plain variable
`threaded` passes through a partial value, so a use too early would show.

**Dump** reads one line. A line is a sequence of tokens, a string token carrying
its text after unescaping; what a string looks like byte by byte is Json's. The
parser repeats a step on a state that holds its position, `Member` and `MapEntry`
being one round of its two loops. `Readings` and `Meaning` say the same grammar
without a parser, for `ParsesExactly`: which commas separate members, and what
stands between them. The guard `is_contained_relative_path` is
translated as it stands; `Climbs` and `StaysInside` say what it is for, by
walking the path part by part under the rules of either system.

**Load** is `cmd_load`: one action per line read, per field of the line, and for
the end. `skip` and `path` are those of struct Load and outlive a line, as
they do there. `calls` is the sequence of calls of set with their results, `reports`
what `report` said.

**Names** and **NtfsNames** are functions on bytes and units. **Abi** puts them
behind the calls of the header: a C program chooses a call, which of its pointers
are NULL, how much memory it offers, and which of its `xs_buffer`s to use. `heap` holds
every live allocation with its capacity. A call overwrites the `xs_buffer` it is given without
looking at what it holds (`Overwrite`), so a program may fill one in over an allocation, and `dropped`
remembers the allocations it has lost that way. What the program may not do is what C leaves
undefined and the library cannot notice: release an `xs_buffer` no call has written to, or a copy
of one it has released. `SpellingOf` and `ContentOf` say how a path is spelled and
what it carries, so that `TooFar` can tell when `stream_path` finds path and name
too long together. What the system
answers is any answer: PosixCore and NtfsStream say how it comes about.
Names are compared as they are spelled; that Windows takes `A` and `a` for one stream (the header
says so) is not in the model.

**Options** scans the arguments, one a step. An argument is a record of how it is
spelled (dashes, name, inline value), its numbers sequences of digits, so that
overflow happens at `WordMax`. **Cli** is the command that is then chosen, on one
path with a few attributes, and its output. A `put` that fails leaves the old value, or on
streams, which the write has truncated, some beginning of the new one
(`LeftBehind`). `buffered` and `device` are the
BufWriter and what lies behind it, `room` how much the device takes before it is
full. **Rows** is each line of a listing as bytes, **Json** and **Pb** what they
are made from, **PbMap** the vendored table as code points. **CliExit** maps
statuses to exit codes.

## What is checked

| Run | Bounds | What it shows |
|---|---|---|
| PosixOne | 1 client, 13 requests, values of 0 to 3 bytes written by others, stack buffer 1, kernel limit 3, 4 attempts, EIO, ENOSPC, EACCES | `TypeOK`, `AnswersHold`, `NoLeak`, `BufferFits`, `OsErrorExplainsStatus`, the refinement `Atomic` and the liveness `Answered`: every operation, refusal and failed allocation, against outsiders doing anything |
| ListRust | 3 attributes, lists of 0 to 5 bytes, stack buffer 1, 4 attempts | `ListingHolds`, `FailureHolds`, `Listed` for the Rust port |
| ListZig | as ListRust, Zig | violated, see below |
| NtfsShare | 2 clients, 7 requests, a value of 2 bytes written in one chunk or two, 2 attempts, 2 opens, crashes, files that come and go, a program that may hold the stream for ever | `TypeOK`, `ReadsWhole`, `FailuresHold`, and `Answered` under fairness |
| NtfsEmpty | 2 clients, one get and one set, the rest as NtfsShare without faults, crashes and others | violated, see below |
| CliList | 7 paths on 3 levels, two trees with directories, files and links; 9 walks: both orders, limits 0, 1, 2 and none, kinds told or not, links followed or not, values or not, a visitor that may stop; 3 changes by others; failed allocations and reads | `TypeOK`, `VisitsInOrder`, `VisitsReached`, `SecondVisits`, `ExitHonest`, `BlameTrue` |
| CliLinks | as CliList, opening as Rust does | violated, see below |
| LibIo | 3 threads | `UsedWhenBuilt`, `EveryoneUses` |
| Load | dumps of one line: every path of up to 3 characters and more around `..`, every line one token away from two good ones; dumps of three lines, two of them out of good, refused, malformed and blank ones; with and without `--root` and `--allow-unsafe-paths`; sets and reads that fail | `ParsesExactly`, `RestoresAll`, `StaysBelowRoot`, `ReportsMatch`, `ExitTrue` |
| Cli | every 3 arguments out of 20 sorts; every pair of 13 listing options, and of 14 options set twice or nearly out of range, before or after a command; POSIX and Windows; 4 files; numbers of 5 bits, a default limit of 2 bytes, an output buffer of 80 bytes, a device of 30 or 1000 | `LastWins`, `NumbersExact`, `CommandsTrue`, `OutputWhole`, `FrameHolds`, `CsvReadsBack`, `DumpReadsBack`, `LinesAreText` |
| LstPut | JSON dumps, an output buffer of 16 bytes | violated, see below |
| Abi | 2 buffers, 2 addresses, 8 names, a path on each of 3 systems and a Windows path of 18 units where 20 are allowed, memory of 0, 1, 2, 6, 7 and 256 bytes | `Owned`, `RefusalExplained`, `NativeReadsBack`, `ListedReachable`, `ReachableListed` |

Why these bounds are enough to meet the interesting cases. What `get_with` does
depends on how a length compares with four numbers: zero, the stack buffer, the
caller's bound, and the length expected. Values of 0, 1, 2 and 3 bytes around a
stack buffer of 1 and bounds of 0, 2 and 3 give every combination, among them
growing and shrinking between two lengths that both miss the stack buffer. Two
clients on one attribute are left to the proof of the refinement, which has no
bound: to one client another is an outsider. `MaxAttempts` is the code's 4
for the POSIX adapters; it is 2 for NTFS, where the loop also contains the
retry loop of each open, and both loops are still left by success, by retry and
by exhaustion. `Retries` is 2 for the code's 200 for the same reason. One path
and one attribute suffice because no call involves two.

For the walk, three changes are what it takes to empty a directory, remove it, and
put something else in its place, at any moments; three levels let a limit of 2 cut
below a directory that is expanded, and two names give siblings an order. `Faults`
holds one failure, since `walk` and `walk_visit` treat all but NotFound alike.

For the dump, the guard looks at nothing but separators, dots, a drive letter and
its colon, so a path of three or four characters over those contains every
pattern it distinguishes; GuardContains is proved for any length. A parser's
mistakes are in the tokens it accepts by mistake, hence lines one token away, and ParsesAll
is proved for all lines. Three
lines show what one leaves to the next, and to the one after.

For the command line, three arguments are an option, its value and a third that
comes before, between or after; pairs of options show every override, because no
option looks at more than the fields it sets. Widths go from 0 to 5 with cells of
one- and two-byte code points at the cut. The buffer of 80 bytes holds several rows
and not a whole table, so flushes happen in the middle; every line of Cli fits it, which is
the case in which `OutputWhole` holds, and LstPut is the other case.

For the ABI, a second handle and a second address are what confusing two
allocations takes; the names are one for each rule of `names.rs` and one for each
length of UTF-8, with an unpaired surrogate among them. `MaxLen` bounds values, `Spares` what
a capacity has to spare. The sizes of memory are none, that of the name `a` on
each system with its NUL and without it, and one for every name; a path of 18 units leaves room for a name of one unit and not of two.

The specification `Spec` has no fairness: safety never depends on it, though runs that also
check liveness check both under `FairSpec`, which has the same behaviours up to any moment. It adds
weak fairness of `Step(c)`, a thread inside a call being scheduled again, and
nothing else: no client has to call, no outsider has to stop or to release a
stream. The operating system's scheduler gives that much to a runnable thread,
and no action of a call ever waits for another party: system calls return.
Under it `Answered` and `Listed` say that the code's own bounds end each
loop. A spinner of `LibIo` is the exception that needs another thread, and that
one is inside `Step` too.

Deadlock is checked wherever a client can always begin another call. CliList,
CliLinks, Load, Cli and LstPut are programs that end, and say
`CHECK_DEADLOCK FALSE`.

Type invariants are checked where the state is more than bookkeeping (PosixCore, NtfsStream,
Walk with CliList) and proved for all of them and, as part of its invariant, for LibIo.

`OsErrorExplainsStatus` is about the statuses only the system can decide. Failures
the library decides itself (a name, a path, a value or a length over the bound, an
exhausted retry) record nothing, and `xs_last_os_error` then still has the
code of an earlier call.

### Disagreements between the code and what is said of it

Eight are findings in `PROJECT.json`. Four of them are violations, each found by a run of its own:

* **ListZig.** `listRaw` lacks `getWith`'s check for a length of zero. Attributes
  that overflow the stack buffer, all vanish, and come back between the size
  query and the read make the second call a size query as well, whose answer is
  then taken for a count of bytes written. `ListRust` shows that the port is
  not affected. The safe builds trap where the default one reads on.
* **CliLinks.** A directory is queued when its parent is listed and opened when
  its turn comes. In Rust `read_dir` then follows a link that has taken its
  place, so the walk enters a link, which `walk.rs` and the README exclude; with
  a link to the root it starts over. The Zig lister opens without following links.
* **LstPut.** `put` drops errors and leaves them to the last flush. A line as long as
  the buffer never is in the buffer: it is written at once, its error is
  dropped, and the flush has nothing left to fail on. A dump of a value of some
  kilobytes onto a full disk ends with status 0. A listing with shorter lines is
  not affected (`OutputWhole` in Cli).
* **NtfsEmpty.** A size query on Windows ignores share modes. A get that met a long value, fell
  back on the size query, and made it between a writer's truncation and its first byte
  answers with an empty value that was never written. windows.rs (lines 4-6) and the README (lines
  243-244) exclude that. `ReadsWhole` is what does hold: bytes that a read returns
  are never those of a write in progress.

Four more are seen in what the properties of passing runs have to say:

* The header (`include/xattr_stream.h`, lines 17-20) has it that on Windows a concurrent reader
  "can observe a partial value; see README". No read returns part of a write in progress (`ReadsWhole`),
  which is what the README says; only a size query sees one.
* "Later options override earlier ones" (README, line 154), but behind `--cols`
  only those for CSV and Markdown do: `--cols 3 --tsv` is a table. And `--cols 3 --csv` is CSV, although
  `--cols` "implies `--table` unless `--md` is given". `LastWins` has the format as
  the code chooses it.
* On Windows a path and a name that are too long together are an InvalidName which
  `xs_validate_name` cannot explain, since it knows no path; the README (line 199) promises "the exact reason
  for any refusal". `RefusalExplained` has this one exception, `TooFar`.
* A raw listing on Windows shows streams whose names no raw call accepts: those with an unpaired surrogate, and
  those of more than 255 bytes though of no more than 255 units. The README (line 31) offers
  `--raw` for "any stream". `ListedReachable` excludes these names.

Others came up while modelling. The modules do what the code does, and no property
is spent on them:

* `require_base` is to keep CREATE_ALWAYS from creating files (windows.rs:194). It
  looks once, before the open, and up to two seconds of retries may follow.
* "Files deleted mid-walk are skipped silently" (README, lines 94-96). That is so when
  the listing of names does not find them. With values, a file deleted between
  that and the get is warned of and makes the command fail. `BlameTrue` is what
  does hold: a complaint that something is missing is only made where something
  that was there has changed. It also admits, as the code does, that where listings do not tell kinds a
  single file deleted during the listing is a complaint about its whole directory,
  whose other entries are then not listed; `ExitHonest` says the exit status tells.
* `--json --csv dump` prints the label line of CSV before its objects
  (main.rs:873), although "JSON ignores all of these" (README:88).
* A dump line may give one name in clear in one map and encoded in another. Both are
  accepted, and the second write wins (`RestoresAll` has both writes).
* `lst --json` of raw names that are not UTF-8 copies their bytes, so that line
  is not UTF-8; `DumpReadsBack` is about dumps, which encode them.
* A Markdown cell that ends in a backslash before a bar, and a path with a line feed
  in a table, break their row; `FrameHolds` excludes the second, and is about tables.
* `--limit 0` reads no standard input and refuses what there is, while the library
  takes a limit of 0 for the default.
* `xs_list` with a NULL count returns before it touches its buffer, the other refusals
  after emptying it. A caller that releases the buffer only after success does not notice.

## What is proved

All of it is checked by tlapm to the last leaf, for every value of the
constants that satisfies the named assumptions of the modules: `CellAssumption` and, of AttrCalls,
`CallAssumption` (lengths are naturals, only `Empty` has length zero, sentinels
are not values, requests are requests), `KernelAssumption` (what the kernel
may answer of its own accord is never that the attribute or the path is
missing), `NtfsAssumption`, `TreeAssumption` (names are finitely many and differ in
rank, paths are closed under taking the parent, trees hang together), `LoadAssumption`,
`ListAssumption` (names are finitely many and differ in rank, a list of no bytes has no names),
`AbiAssumption` (names are byte strings), `PathsAssumption` (what a path carries is spelt in bytes or, on
Windows, in 16-bit units, and paths in bytes), `OptionsAssumption` and `CliAssumption` (arguments
are texts, bytes are bytes, the buffer has room for one, standard input and limits fit a word, system calls
fail with a failure). `CommandLines`, `Files`, `Clients`, `Values`, `Requests`, `Paths`, `Trees`, `Dumps`, `Handles`,
`Addresses` and `CallNames` may be infinite.

* **PosixCoreProofs.** `Invariance: Spec => []IInv`, from which `TypeCorrect`,
  `AnswersCorrect`, `NothingLeaks` and `BuffersFit` follow. None of the
  four is inductive alone. `OsErrorsExplain` needs less: a status is never stored
  without the error it comes from, and no step after that touches either. `AnswersHold` needs to know at each
  label of `get_with` what the call has already witnessed: at a retry the value has
  been outgrown in every attempt so far, so `churn` is at least `attempt`, and
  strictly more once the value has changed since the size query of this attempt;
  `Changed` is then only answered with `churn = MaxAttempts`. It also needs the
  present cell to be in `seen` throughout a call. The step lemmas go action by
  action; `Outside` and another client's write are one lemma, for both only
  add to `seen` and `churn`.
* `Refinement: Spec => Atomic` then maps each step: `Check`, `SizeQuery` and the
  reads are `AnswerRead` when they finish and stutter otherwise, the two
  writes are `Set` and `Remove`, the rest keep their names. That `AnswerRead` is
  enabled is `AnswersHold` in the next state.
* **NtfsStreamProofs.** `ReadersSeeWhole: Spec => []ReadsWhole`. The inductive
  invariant has three parts: a writer's handle excludes every other and a
  reader's every writer; while no writer is open the stream is
  `current` or absent (`Settled`), and a reader's handle excludes the second; and
  every read with an open handle has witnessed `current`. So the bytes
  a reader gets are `current`, which it has seen. `TypeCorrect` and `FailuresTrue`
  come from the same invariance: what a failure says was seen when it was met, and
  every attempt that is given up has met a change of its own.
* **CliListProofs.** `OrderOfVisits`, `ReachedFirst`, `FailuresSecond` and `TypeCorrect`, from
  one invariant of the walk. The proof never looks at the tree beyond its type: a listing
  answers any set of names, each once, and whatever it answers, what is still to be
  visited comes after all that has been. Depth-first this says of the stack: from its
  top down its paths ascend, none is below another (`Falling`), the node at work comes
  before them all and after the whole log. Breadth-first it says of the queue: it
  ascends by level (`Rising`), everything in it was visited, and everything visited is an
  entry of a consumed part of it, or of the node at work and smaller than
  what `kids` still has. The three properties follow only jointly: that a path is new
  is its order, that its directory was not reported is that each directory is
  taken once.
* `NothingLeftOut: CliSpec => []ExitHonest`. A path that nothing has
  happened to has directories above it of which the same holds, so its kind, once learned,
  is right for good (`KindsTrue`). Once its directory has been visited it is always
  somewhere (`Followed`): in a queue or on the stack, in the listing being read, at work,
  visited, or a failure of its directory was reported. When the walk has ended
  nothing waits, so a path that was missed was not due, its directory was
  missed before it, and a missed path of least depth cannot be.
* `ComplaintsTrue: CliSpec => []BlameTrue`. Whatever the walk has a name of did exist, or the
  way to it has changed (`Known`), and what has stood on the way to anything
  waiting is a directory (`Straight`). An earlier `BlameTrue`, that what a
  complaint names had itself existed, was not inductive for a good reason: with four changes
  on three levels, more than the run has, a link that takes the place of a
  directory leads to entries that were never there.
* **LibIoProofs.** `BuiltOnce: Spec => []UsedWhenBuilt`. At most one thread is
  building and only while `io_state` is 1; `threaded` is as far as that
  thread's label says; state 2 is never left and means built.
* **LoadProofs.** `GuardContains`: a path of any length over any characters that
  the guard lets through is anchored on neither system and never climbs above where
  it starts. The step is `UpIsSeen`: a part `..` by POSIX rules is also one when both
  separators count, since its two dots are no separators. `OnlyGuardedWrites: Spec =>
  []OnlyGuarded`: unless told otherwise, every call of set has as its path the target of a path that
  the guard let through; the invariant adds that `path` is such a one whenever `skip`
  is false, which is what could leak from one line to the next. `NothingOutside: Spec =>
  []StaysBelowRoot` joins the two, cutting the root off again; it needs that the parser
  emits texts of characters only, whatever the line (`ParsedType`), by induction over
  the rounds of its two loops.
* `ParsesAll: Spec => []ParsesExactly`, for lines of any length over any tokens. The grammar
  has no loop: a reading of a line is a set of commas between which every stretch is a
  member, with keys that differ. What the parser does is compared with it round by round
  (`InMap`, `InLineAt`): after each member the boundaries it has found are those that
  every reading has up to there (`Upto`), because the beginning of a member or a map
  decides where it ends (`OneMember`, `OneMap`). So a parser that goes on
  agrees with all readings, one that gives up shows that there is none, and one that ends
  has found the only one. Each round takes a token at least, so a loop of as many rounds as
  the line has tokens has ended.
* `WritesWhatIsAsked`, `ReportsTrue` and `StatusTrue`: `Spec => []RestoresAll`,
  `[]ReportsMatch` and `[]ExitTrue`, on top of `ParsesAll`. `LoadInv` says how far the run has come: between lines, the calls are what
  the lines read ask for and the reports what is to be said of them; within a line whose
  first g fields were applied, g - 1 of its calls were made, `skip` and `path` are what
  its first field decides, and nothing of an earlier line is left in them.
* **AbiProofs.** `NamesBijection`: on each system, the native name of a logical name
  reads back as that name and no other. The work is the prefix `user.` of Linux, put on
  and taken off, and that validation leaves nothing for `from_native` to refuse.
  `AbiOwned: Spec => []Owned`, for any number of handles and addresses: each live
  allocation has one owner that knows its capacity, or was filled over and has none for good. The invariant
  adds what handles hold before they are filled. `RefusalsExplained` compares two routines,
  `to_native` for the calls and `classify` for the explanation (`JudgedAlike`), and follows
  the verdict through every order of NULL checks. It has to say when `stream_path`
  refuses what both let through. `NativeNamesReadBack` is about the bytes the program finds in its memory:
  a native name has no NUL in it (`NativeText`), so the C string ends where the copy does
  (`StringCopied`), within memory of any size, and is the native name, which reads back.
* `ListedReached` and `ReachedListed`: `Spec => []ListedReachable` and `[]ReachableListed`, for paths
  that carry anything at all. A listing gathers what each thing found is called
  (`NameGathered`, `RawGathered`), so both come down to one name. On Windows that name goes through
  `from_utf8`, `encode_utf16`, `decode_utf16` and their encoders, and the proof is that
  the two conversions undo one another. They are scans, which say nothing about how
  a text is to be read from both ends, so bytes and units are related first: `SameText` holds of them
  when some set of pairs of places has the first pair and the pair behind both
  ends, and each pair in it is either the end or begins one code point in both, with the
  pair behind that in the set again (`Matched`). `Written` and `ReadAsUnits` say that each conversion
  makes the same text, `Utf16Reads` and `Wtf8Reads` that the same text converts in
  one way only. In the last two a step of the scan goes from one pair to the next. An
  unpaired surrogate is a code point there too (`Code`, `StandsAlone`): a stream with one in its name
  is listed raw, and no name reaches it. Where path and name fit together, the path is a
  prefix of what is opened and the rest is compared (`OpensIts`); where they do not, nothing is
  reached.
* **PosixListProofs.** `PacksInOrder`: for whatever the kernel lists there is exactly one
  ascending sequence to answer with. That a finite set can be sorted and that a listing
  of n names is a bijection are inductions, which `Induction` brings
  down to counting: a set of numbers with 0 and successors that missed n would map
  0..n into itself without reaching 0. `ListingTrue: Spec => []ListingHolds` for the
  Rust port needs of the two calls in `list_raw` only that `expected` is the length of a
  list the path has had, and that if this is no longer the list, it has changed
  once more than attempts failed (`Measured`); an empty answer to a buffer of length zero is then
  the list of that moment. `GivesUpTruly: Spec => []FailureHolds` is the same count.

* **CliProofs.** `CommandsAreTrue: Spec => []CommandsTrue` needs of the output only what a `print_out`
  that reports success has handed to the device, of a failed `put` that what it leaves is a beginning of standard
  input within the limit, and of the options only their types. `OutputIsWhole:
  Spec => [](LinesFit => OutputWhole)`, where `LinesFit` says that every line printed is shorter than the
  output buffer, which is what LstPut shows to be necessary. The
  invariant is that `buffered` after `device` is everything said so far, or else the device is
  full and the buffer cannot become empty again, so that the last flush has to fail (`Arrives`); a
  line as long as the buffer is what breaks it. On Windows the text is translated and read
  back by undoing it.
* `LastOneWins: Spec => []LastWins` and `NumbersAreExact: Spec => []NumbersExact`, for command lines of any
  length and numbers of any length. The properties read the arguments as a whole: which of them
  are options follows from a recursion over positions (`RoleOf`), and an option's value from the last
  argument that sets it. The scan has only its position and the options so far. The invariant (`ScanInv`)
  is that these are right for the arguments before the position, each field being its
  default or what the last setter before it says, and a step adds one option or one positional
  argument. The format and `values` are settled after the scan, by `--cols` and by the command.
  A number is a fold that stops at the first overflow, and agrees with the one that
  does not exist in machine words up to there, because a prefix of a number that fits does.

* `LinesStayText: Spec => []LinesAreText`, for paths, names and values of any length and any widths of the
  columns. `IsUtf8` is a read from left to right, which a proof cannot follow through a
  line that is cut, padded, escaped and joined. Instead a line is `Text` when some set of its
  places contains the first, and with each place the one behind the character read there
  (`Closed`). Two such sets put together are one for the joined line (`TextJoins`), and every byte that
  is not a continuation is in the set (`StartsClosed`), so that a cut where `utf8_prefix_bytes` or
  `utf8_suffix_start` makes it leaves text on both sides. Escapes and quotes map single ASCII bytes to
  text (`MappedText`), and a value is first encoded with a table of glyphs or in hexadecimal.
  `ReadsText` and `TextReads` lead from `IsUtf8` to `Text` and back. `TextInv` says that
  from the first line of a listing on every line is text.

* `PbLossless`: `Decode(Encode(s)) = s` for every s. No byte's glyph is another's or a space
  (`GlyphOnce`), and no code written by the encoder is the beginning of another's, so the decoder, one
  step per character, goes from the end of one byte's code to the end of the next with that byte added
  (`DecodedTo`).
* `CsvIsRead: Spec => []CsvReadsBack`, for any paths, names and values. The reader of the property is a
  state machine (`CsvStep`: the fields behind, the text of this one, inside or outside of quotes, the
  byte before). Each field, bare or quoted, leads it from the beginning of a field
  (`Ready`) to the end of the field with exactly its text (`Past`), the comma behind it to the next
  `Ready` (`FieldLeads`, `FieldsLead`), whatever quotes, commas and line ends are in the text. `CsvInv` says
  that each line of a listing as CSV is the row of the name and value seen, and `PbLossless` gets the
  value back from its column.

Not proved, only model-checked: everything about liveness (`Answered`,
`Listed`, `EveryoneUses`), which is beyond the prover; that what the CLI prints as a table and what it dumps
can be read back (`FrameHolds`, `DumpReadsBack`), whose readers are folds over every byte of a
line that would each need their inverse by induction.

## Not modelled

* The build script `build`: a shell script whose steps are compilers and renames.
  Its two hazards are listed. Modelling it would need the semantics of a shell and of
  the tools it calls, none of which is in the repository.
* Packaging and CI (Nix, Cargo, build.zig, workflows): no run-time behaviour. The tests:
  read as evidence of intent.
* Of the macOS adapter what differs in spelling only: its errnos ENOATTR and ENOTSUP, the
  options flag, and its limits query, whose answer is any number in `CmdLimits`.
* Of the C ABI the callbacks of `xs_walk` and `xs_parse_dump_line`, behind which are Walk and
  Dump, and the functions that return a constant string.
* The wording of what goes to stderr: `reports` and `complaints` have what is said of
  what. The terminal's width, locale and virtual-terminal mode.
* Entries that come and go during one readdir: a directory is read in one step.
