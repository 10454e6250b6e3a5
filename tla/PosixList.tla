------------------------------ MODULE PosixList ------------------------------
(***************************************************************************)
(* list of src/rust/src/lib.rs over list_raw of the Linux adapter          *)
(* (src/rust/src/os/linux.rs; the macOS one, macos.rs, has the same        *)
(* steps), and the Zig library both were ported from, one system call per  *)
(* step.  Others add and remove attributes, or unlink the path, between    *)
(* any two calls.                                                          *)
(*                                                                         *)
(* list_raw has the shape of get_with without its check for a length of    *)
(* zero: when the size query finds no attribute, the second call is made   *)
(* with a buffer of length zero, which the kernel takes for another size   *)
(* query and answers with a length while writing nothing.                  *)
(***************************************************************************)
EXTENDS Integers, SequencesExt

CONSTANTS
  Names,           \* native attribute names, as the kernel lists them
  Size(_),         \* bytes of a listing of these names, the NUL of each included
  Rank,            \* place of a name in bytewise order
  Logical,         \* names the logical layer can address: from_native is not None
  NoPath,          \* no name: marks a path that does not resolve
  Outsiders,       \* the sets of attributes others may leave on the path
  SmallLen,        \* OPTIMISTIC_READ_LEN
  MaxAttempts,     \* MAX_GET_ATTEMPTS
  Faults,          \* errnos the environment may answer with
  Implementation   \* "zig" or "rust"

VARIABLES
  present,   \* the attributes on the path
  request,   \* the listing asked for
  seen,      \* history: every `present` since the call began
  churn,     \* history: changes since the call began, counted to MaxAttempts
  answer,    \* what list will return
  pc, attempt, expected   \* of list_raw

fileVars == <<present, seen, churn>>
vars == <<present, request, seen, churn, answer, pc, attempt, expected>>

Gone     == {NoPath}
Contents == (SUBSET Names) \cup {Gone}
Modes    == {"logical", "raw", "badPath"}
Statuses == {"OK", "InvalidPath", "NotFound", "Permission", "Unsupported",
             "OutOfMemory", "Io", "Changed"}

ASSUME ListAssumption ==
  /\ IsFiniteSet(Names)
  /\ \A S \in SUBSET Names : Size(S) \in Nat /\ (Size(S) = 0 => S = {})
  /\ Rank \in [Names -> Nat]
  /\ \A m, n \in Names : Rank[m] = Rank[n] => m = n
  /\ Logical \subseteq Names
  /\ NoPath \notin Names
  /\ Outsiders \subseteq Contents
  /\ SmallLen \in Nat \ {0} /\ MaxAttempts \in Nat \ {0}
  /\ Faults \subseteq {"ACCES", "OPNOTSUPP", "IO"}
  /\ Implementation \in {"zig", "rust"}

Fail(status)  == [status |-> status, names |-> <<>>]
Listing(names) == [status |-> "OK", names |-> names]
NoAnswer      == Fail("OK")   \* never confused: the pc tells

\* An allocation that is refused is an answer in Zig and the end of the
\* process in Rust.
AllocFailure == IF Implementation = "zig" THEN {Fail("OutOfMemory")} ELSE {}

\* What reading past the end of a zero-length allocation yields in the
\* library's default build, if the process survives it.
Garbage == <<NoPath>>

-----------------------------------------------------------------------------
\* listxattr(path, buf, room): external.  The kernel lists in an order of its
\* own.  With room 0 it returns the length and writes nothing.
ListXattr(room) ==
  {[errno |-> e, got |-> 0, data |-> <<>>] : e \in Faults} \cup
  (IF present = Gone THEN {[errno |-> "NOENT", got |-> 0, data |-> <<>>]}
   ELSE IF room = 0 THEN {[errno |-> "SUCCESS", got |-> Size(present), data |-> <<>>]}
   ELSE IF Size(present) > room THEN {[errno |-> "RANGE", got |-> 0, data |-> <<>>]}
   ELSE {[errno |-> "SUCCESS", got |-> Size(present), data |-> order] :
           order \in SetToSeqs(present)})

\* map_errno for the errnos of a listing.  RANGE is dealt with where it occurs.
MapErrno(e) ==
  CASE e = "ACCES" -> "Permission"
    [] e = "OPNOTSUPP" -> "Unsupported"
    [] e = "NOENT" -> "NotFound"
    [] OTHER -> "Io"

\* names::from_native's verdict on a native name.
Addressable(mode, n) == mode = "raw" \/ n \in Logical

\* Bytewise order, each name once.
Ascending(names) == \A i, j \in DOMAIN names : i < j => Rank[names[i]] < Rank[names[j]]

PackUnsorted(mode, raw) == SelectSeq(raw, LAMBDA n : Addressable(mode, n))

\* pack_logical: the addressable names of a raw listing, sorted.  The kernel
\* lists no name twice.
PackLogical(mode, raw) ==
  CHOOSE sorted \in SetToSeqs({n \in ToSet(raw) : Addressable(mode, n)}) : Ascending(sorted)

Finish(a) == pc' = "done" /\ answer' = a
Goto(label) == pc' = label /\ UNCHANGED answer

-----------------------------------------------------------------------------
Begin(mode) ==
  /\ pc = "idle"
  /\ request' = mode
  /\ seen' = {present}
  /\ IF mode = "badPath" THEN Finish(Fail("InvalidPath")) ELSE Goto("first")
  /\ UNCHANGED <<present, churn, attempt, expected>>

\* The listing into the stack buffer.
OptimisticList ==
  /\ pc = "first"
  /\ \E k \in ListXattr(SmallLen) :
       \/ /\ k.errno = "SUCCESS"
          /\ \E a \in {Listing(PackLogical(request, k.data))} \cup AllocFailure : Finish(a)
       \/ k.errno = "RANGE" /\ Goto("sizeQuery")
       \/ k.errno \notin {"SUCCESS", "RANGE"} /\ Finish(Fail(MapErrno(k.errno)))
  /\ UNCHANGED <<fileVars, request, attempt, expected>>

SizeQuery ==
  /\ pc = "sizeQuery"
  /\ \E k \in ListXattr(0) :
       \/ k.errno = "SUCCESS" /\ Goto("sizedRead") /\ expected' = k.got
       \/ /\ \E a \in IF k.errno = "SUCCESS" THEN AllocFailure ELSE {Fail(MapErrno(k.errno))} :
               Finish(a)
          /\ UNCHANGED expected
  /\ UNCHANGED <<fileVars, request, attempt>>

\* The names the code takes out of its buffer of `expected` bytes when the
\* kernel says it wrote k.got.  More than fit can only be reported for an
\* empty buffer: Zig slices beyond it, Rust's truncate leaves it empty.
TakenOut(k) ==
  IF k.got <= expected THEN k.data
  ELSE IF Implementation = "rust" THEN <<>>
  ELSE Garbage

EarlyLimit   == MaxAttempts - 1
AttemptLimit == MaxAttempts

RetryUncounted == Goto("sizeQuery") /\ UNCHANGED attempt

\* The list outgrew the buffer: free it and measure again.
Retry ==
  /\ attempt' = attempt + 1
  /\ IF attempt + 1 < AttemptLimit THEN Goto("sizeQuery") ELSE Finish(Fail("Changed"))

SizedRead ==
  /\ pc = "sizedRead"
  /\ \E k \in ListXattr(expected) :
       \/ k.errno = "RANGE" /\ Retry
       \/ /\ k.errno = "SUCCESS"
          /\ LET names == IF TakenOut(k) = Garbage THEN Garbage
                          ELSE PackLogical(request, TakenOut(k))
             IN \E a \in {Listing(names)} \cup AllocFailure : Finish(a)
          /\ UNCHANGED attempt
       \/ k.errno \notin {"SUCCESS", "RANGE"} /\ Finish(Fail(MapErrno(k.errno))) /\ UNCHANGED attempt
  /\ UNCHANGED <<fileVars, request, expected>>

\* The caller takes the listing.
End ==
  /\ pc = "done"
  /\ pc' = "idle"
  /\ request' = "none" /\ answer' = NoAnswer
  /\ seen' = {} /\ churn' = 0 /\ attempt' = 0 /\ expected' = 0
  /\ UNCHANGED present

\* Others add or remove attributes, unlink the path or put one back.
Outside(x) ==
  /\ x # present
  /\ present' = x
  /\ IF pc \in {"idle", "done"} THEN UNCHANGED <<seen, churn>>
     ELSE /\ seen' = seen \cup {x}
          /\ churn' = IF churn < MaxAttempts THEN churn + 1 ELSE churn
  /\ UNCHANGED <<request, answer, pc, attempt, expected>>

-----------------------------------------------------------------------------
Init ==
  /\ present \in Outsiders
  /\ request = "none" /\ answer = NoAnswer
  /\ seen = {} /\ churn = 0
  /\ pc = "idle" /\ attempt = 0 /\ expected = 0

Step == OptimisticList \/ SizeQuery \/ SizedRead

Next ==
  \/ \E mode \in Modes : Begin(mode)
  \/ Step
  \/ End
  \/ \E x \in Outsiders : Outside(x)

Spec == Init /\ [][Next]_vars

\* The thread inside list is scheduled again; others may never stop.
FairSpec == Spec /\ WF_vars(Step)

-----------------------------------------------------------------------------
(* Properties                                                              *)

\* The names of S a listing shows.
Shown(S) == {n \in S : Addressable(request, n)}

\* A listing is what the path carried at one moment of the call: every name
\* the mode shows, none it hides, in bytewise order, however the list grew
\* and shrank between the system calls (include/xattr_stream.h:145-147).
ListingHolds ==
  pc = "done" /\ answer.status = "OK" =>
    /\ Ascending(answer.names)
    /\ \E S \in seen \ {Gone} : ToSet(answer.names) = Shown(S)

\* list gives up with Changed only after the list changed in each of its
\* attempts, and says NotFound only of a path that was gone.
FailureHolds ==
  pc = "done" =>
    /\ answer.status = "Changed" => churn = MaxAttempts
    /\ answer.status = "NotFound" => Gone \in seen

\* Every listing is answered, however often the attributes change.
Listed == pc = "first" ~> pc = "done"
=============================================================================
