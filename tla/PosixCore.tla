------------------------------ MODULE PosixCore ------------------------------
(***************************************************************************)
(* set, get, get_into, size and remove of src/rust/src/lib.rs over the     *)
(* Linux adapter src/rust/src/os/linux.rs, one system call per step, and   *)
(* the Zig library they were ported from (xattr_stream.zig, linux.zig),    *)
(* which has the same steps.  Between two calls into the kernel anybody    *)
(* may write the attribute, delete it or unlink the path; the code between *)
(* two system calls touches nothing shared and belongs to the step of the  *)
(* call before it.                                                         *)
(*                                                                         *)
(* get is the interesting one: an optimistic read into a stack buffer,     *)
(* then up to MAX_GET_ATTEMPTS rounds of a size query and a read into a    *)
(* buffer of exactly that size, which a concurrent writer can outgrow,     *)
(* shrink below, empty or remove at any point.                             *)
(***************************************************************************)
EXTENDS AttrCalls, Integers

CONSTANTS
  SmallLen,        \* OPTIMISTIC_READ_LEN: bytes in get's stack buffer
  KernelMax,       \* XATTR_SIZE_MAX: longest value the kernel accepts
  ReadFaults,      \* errnos a read may end with whatever the cell holds
  WriteFaults,     \* errnos a write may end with whatever the cell holds
  Outsiders,       \* contents other processes may put into the cell
  AllocFails       \* TRUE in Zig, where a copy or a buffer may be refused;
                   \* FALSE in Rust, where that ends the process

VARIABLES cell, request, seen, churn, answer  \* see AttrStore

VARIABLES
  pc,        \* where in the call the client is
  attempt,   \* get_with's loop counter
  expected,  \* length the size query of this attempt returned
  live,      \* allocations of the call not yet freed
  osError    \* LAST_OS_ERROR, thread-local

\* The cell and the calls are those of the abstract store; what a call keeps
\* on its stack, its allocations and the OS error are hidden from it.
Store == INSTANCE AttrStore WITH
  cell <- cell, request <- request, seen <- seen, churn <- churn, answer <- answer

callVars == <<pc, attempt, expected, live, osError>>
vars == <<cell, request, seen, churn, answer, pc, attempt, expected, live, osError>>

Errnos == {"NODATA", "OPNOTSUPP", "ROFS", "ACCES", "PERM", "2BIG", "NOSPC",
           "DQUOT", "FBIG", "RANGE", "NOENT", "NOTDIR", "LOOP",
           "NAMETOOLONG", "INVAL", "NOMEM", "IO"}

\* What the kernel may say of a read or a write apart from the state of the
\* cell: never that the attribute or the path is missing.
EnvironmentErrnos == {"OPNOTSUPP", "ROFS", "ACCES", "PERM", "NAMETOOLONG", "INVAL", "NOMEM", "IO"}

ASSUME KernelAssumption ==
  /\ SmallLen \in Nat \ {0} /\ KernelMax \in Nat
  /\ ReadFaults \subseteq EnvironmentErrnos
  /\ WriteFaults \subseteq EnvironmentErrnos \cup {"NOSPC", "DQUOT", "FBIG"}
  /\ Outsiders \subseteq Contents
  /\ AllocFails \in BOOLEAN
  /\ \A v \in Outsiders \cap Values : LenOf[v] <= KernelMax

-----------------------------------------------------------------------------
(* The kernel: external, modelled from how linux.rs calls it.             *)

\* getxattr(path, name, buf, room).  `got` is the byte count returned, `data`
\* what was written into buf.  With room 0 the call is a size query: it
\* returns the length and writes nothing.
GetXattr(room) ==
  {[errno |-> e, got |-> 0, data |-> Absent] : e \in ReadFaults} \cup
  (IF cell = Gone THEN {[errno |-> "NOENT", got |-> 0, data |-> Absent]}
   ELSE IF cell = Absent THEN {[errno |-> "NODATA", got |-> 0, data |-> Absent]}
   ELSE IF room > 0 /\ LenOf[cell] > room THEN {[errno |-> "RANGE", got |-> 0, data |-> Absent]}
   ELSE {[errno |-> "SUCCESS", got |-> LenOf[cell], data |-> IF room = 0 THEN Absent ELSE cell]})

\* setxattr and removexattr: the errno, and what the cell holds afterwards.
SetXattr(v) ==
  {[errno |-> e, after |-> cell] : e \in WriteFaults} \cup
  (IF cell = Gone THEN {[errno |-> "NOENT", after |-> cell]}
   ELSE IF LenOf[v] > KernelMax THEN {[errno |-> "2BIG", after |-> cell]}
   ELSE {[errno |-> "SUCCESS", after |-> v]})

RemoveXattr ==
  {[errno |-> e, after |-> cell] : e \in WriteFaults} \cup
  (IF cell = Gone THEN {[errno |-> "NOENT", after |-> cell]}
   ELSE IF cell = Absent THEN {[errno |-> "NODATA", after |-> cell]}
   ELSE {[errno |-> "SUCCESS", after |-> Absent]})

-----------------------------------------------------------------------------
\* linux.rs map_errno; ctx is "read" for getxattr into a buffer.
MapErrno(e, ctx) ==
  CASE e = "NODATA" -> "Missing"
    [] e = "OPNOTSUPP" -> "Unsupported"
    [] e = "ROFS" -> "ReadOnly"
    [] e \in {"ACCES", "PERM"} -> "Permission"
    [] e \in {"2BIG", "NOSPC", "DQUOT", "FBIG"} -> "TooLarge"
    [] e = "RANGE" -> IF ctx = "read" THEN "BufferTooSmall" ELSE "TooLarge"
    [] e \in {"NOENT", "NOTDIR", "LOOP"} -> "NotFound"
    [] e \in {"NAMETOOLONG", "INVAL"} -> "InvalidName"
    [] e = "NOMEM" -> "OutOfMemory"
    [] OTHER -> "Io"

RecordFirst(c, e) == osError' = [osError EXCEPT ![c] = IF @ # "SUCCESS" THEN @ ELSE e]

\* map_errno records the code of every errno it maps, and only then.
Record(c, e) == osError' = [osError EXCEPT ![c] = IF e = "SUCCESS" THEN @ ELSE e]

\* The checks made before any system call, in the order the code makes them.
Rejection(r) ==
  IF r.args = "badName" THEN "InvalidName"
  ELSE IF r.args = "badPath" THEN "InvalidPath"
  ELSE IF r.op = "set" /\ LenOf[r.value] > r.limit THEN "TooLarge"
  ELSE "none"

\* The call returns `a` to its caller, holding n allocations.
Finish(c, a, n) ==
  /\ pc' = [pc EXCEPT ![c] = "done"]
  /\ answer' = [answer EXCEPT ![c] = a]
  /\ live' = [live EXCEPT ![c] = n]

Goto(c, label) == pc' = [pc EXCEPT ![c] = label] /\ UNCHANGED answer

Quiet == UNCHANGED <<cell, request, seen, churn>>

-----------------------------------------------------------------------------
Begin(c, r) ==
  /\ pc[c] = "idle"
  /\ Store!Begin(c, r)
  /\ pc' = [pc EXCEPT ![c] = "check"]
  /\ UNCHANGED <<attempt, expected, live, osError>>

\* name_z, path_z and set's bound: no system call has happened yet.
Check(c) ==
  /\ pc[c] = "check"
  /\ LET r == request[c]
     IN \/ /\ Rejection(r) # "none"
           /\ Finish(c, Fail(Rejection(r)), 0)
        \/ /\ Rejection(r) = "none"
           /\ Goto(c, r.op)
           /\ UNCHANGED live
  /\ Quiet
  /\ UNCHANGED <<attempt, expected, osError>>

Set(c) ==
  /\ pc[c] = "set"
  /\ \E k \in SetXattr(request[c].value) :
       /\ Record(c, k.errno)
       /\ IF k.errno = "SUCCESS"
          THEN /\ Store!Replace(k.after)
               /\ Finish(c, Done, 0)
          ELSE /\ UNCHANGED <<cell, seen, churn>>
               /\ Finish(c, Fail(MapErrno(k.errno, "generic")), 0)
  /\ UNCHANGED <<request, attempt, expected>>

Remove(c) ==
  /\ pc[c] = "remove"
  /\ \E k \in RemoveXattr :
       /\ Record(c, k.errno)
       /\ IF k.errno = "SUCCESS"
          THEN /\ Store!Replace(k.after)
               /\ Finish(c, Done, 0)
          ELSE /\ UNCHANGED <<cell, seen, churn>>
               /\ Finish(c, Fail(MapErrno(k.errno, "generic")), 0)
  /\ UNCHANGED <<request, attempt, expected>>

Size(c) ==
  /\ pc[c] = "size"
  /\ \E k \in GetXattr(0) :
       /\ Record(c, k.errno)
       /\ Finish(c, IF k.errno = "SUCCESS" THEN Sized(k.got)
                    ELSE Fail(MapErrno(k.errno, "generic")), 0)
  /\ Quiet
  /\ UNCHANGED <<attempt, expected>>

\* A buffer of length 0 is answered from a size query, because the kernel
\* would take the read for one.
GetInto(c) ==
  /\ pc[c] = "getInto"
  /\ LET room == request[c].limit
         ctx == IF room = 0 THEN "generic" ELSE "read"
     IN \E k \in GetXattr(room) :
          /\ Record(c, k.errno)
          /\ Finish(c, IF k.errno # "SUCCESS" THEN Fail(MapErrno(k.errno, ctx))
                       ELSE IF room > 0 THEN [status |-> "OK", out |-> k.data, len |-> k.got]
                       ELSE IF k.got = 0 THEN Read(Empty)
                       ELSE Fail("BufferTooSmall"), 0)
  /\ Quiet
  /\ UNCHANGED <<attempt, expected>>

-----------------------------------------------------------------------------
(* get_with                                                                *)

\* The read into the stack buffer, and the copy out of it.
OptimisticRead(c) ==
  /\ pc[c] = "get"
  /\ \E k \in GetXattr(SmallLen) :
       /\ Record(c, k.errno)
       /\ \/ /\ k.errno = "SUCCESS" /\ k.got > request[c].limit
             /\ Finish(c, Fail("TooLarge"), 0)
          \/ /\ k.errno = "SUCCESS" /\ k.got <= request[c].limit
             /\ \/ Finish(c, [status |-> "OK", out |-> k.data, len |-> k.got], 1)
                \/ AllocFails /\ Finish(c, Fail("OutOfMemory"), 0)
          \/ /\ k.errno # "SUCCESS" /\ MapErrno(k.errno, "read") = "BufferTooSmall"
             /\ Goto(c, "sizeQuery")
             /\ UNCHANGED live
          \/ /\ k.errno # "SUCCESS" /\ MapErrno(k.errno, "read") # "BufferTooSmall"
             /\ Finish(c, Fail(MapErrno(k.errno, "read")), 0)
  /\ Quiet
  /\ UNCHANGED <<attempt, expected>>

AffordsAnything(c, n) == TRUE
NeverEmpty(n) == FALSE

\* get_with's checks on the length a size query returned.
Affords(c, n) == n <= request[c].limit
IsEmpty(n)    == n = 0

\* The size query of one attempt, its checks and the allocation.
SizeQuery(c) ==
  /\ pc[c] = "sizeQuery"
  /\ \E k \in GetXattr(0) :
       /\ Record(c, k.errno)
       /\ \/ /\ k.errno # "SUCCESS"
             /\ Finish(c, Fail(MapErrno(k.errno, "generic")), 0)
             /\ UNCHANGED expected
          \/ /\ k.errno = "SUCCESS" /\ ~Affords(c, k.got)
             /\ Finish(c, Fail("TooLarge"), 0)
             /\ UNCHANGED expected
          \/ /\ k.errno = "SUCCESS" /\ Affords(c, k.got) /\ IsEmpty(k.got)
             /\ Finish(c, Read(Empty), 1)
             /\ UNCHANGED expected
          \/ /\ k.errno = "SUCCESS" /\ Affords(c, k.got) /\ ~IsEmpty(k.got)
             /\ expected' = [expected EXCEPT ![c] = k.got]
             /\ live' = [live EXCEPT ![c] = @ + 1]
             /\ Goto(c, "sizedRead")
          \/ /\ k.errno = "SUCCESS" /\ Affords(c, k.got) /\ AllocFails
             /\ Finish(c, Fail("OutOfMemory"), 0)
             /\ UNCHANGED expected
  /\ Quiet
  /\ UNCHANGED attempt

KeepBuffer(c)  == live[c]
SameAttempt(c) == attempt[c]

FreeBuffer(c)  == live[c] - 1
NextAttempt(c) == attempt[c] + 1
AttemptLimit   == MaxAttempts

\* The buffer outgrown: free it and try again, at most MAX_GET_ATTEMPTS times.
Retry(c) ==
  /\ attempt' = [attempt EXCEPT ![c] = NextAttempt(c)]
  /\ IF NextAttempt(c) < AttemptLimit
     THEN Goto(c, "sizeQuery") /\ live' = [live EXCEPT ![c] = FreeBuffer(c)]
     ELSE Finish(c, Fail("Changed"), FreeBuffer(c))

\* The read of one attempt.  A shorter value is returned at its length: the
\* buffer is resized in place, or copied into a new one and freed.
SizedRead(c) ==
  /\ pc[c] = "sizedRead"
  /\ \E k \in GetXattr(expected[c]) :
       LET status == MapErrno(k.errno, "read")
           result == [status |-> "OK", out |-> k.data, len |-> k.got]
       IN /\ Record(c, k.errno)
          /\ \/ k.errno # "SUCCESS" /\ status = "BufferTooSmall" /\ Retry(c)
             \/ /\ k.errno # "SUCCESS" /\ status # "BufferTooSmall"
                /\ Finish(c, Fail(status), FreeBuffer(c))
                /\ UNCHANGED attempt
             \/ /\ k.errno = "SUCCESS"
                /\ Finish(c, result, live[c])
                /\ UNCHANGED attempt
             \/ /\ k.errno = "SUCCESS" /\ k.got # expected[c] /\ AllocFails
                /\ Finish(c, Fail("OutOfMemory"), FreeBuffer(c))
                /\ UNCHANGED attempt
  /\ Quiet
  /\ UNCHANGED expected

\* The caller takes the answer and releases what came with it.
End(c) ==
  /\ pc[c] = "done"
  /\ Store!End(c)
  /\ pc' = [pc EXCEPT ![c] = "idle"]
  /\ attempt' = [attempt EXCEPT ![c] = 0]
  /\ expected' = [expected EXCEPT ![c] = 0]
  /\ live' = [live EXCEPT ![c] = 0]
  /\ UNCHANGED osError

Outside(x) == Store!Outside(x) /\ UNCHANGED callVars

-----------------------------------------------------------------------------
Init ==
  /\ Store!Init
  /\ cell \in Values => LenOf[cell] <= KernelMax
  /\ pc = [c \in Clients |-> "idle"]
  /\ attempt = [c \in Clients |-> 0]
  /\ expected = [c \in Clients |-> 0]
  /\ live = [c \in Clients |-> 0]
  /\ osError = [c \in Clients |-> "SUCCESS"]

\* A step of the call itself, once it has begun.
Step(c) ==
  \/ Check(c)
  \/ Set(c) \/ Remove(c) \/ Size(c) \/ GetInto(c)
  \/ OptimisticRead(c) \/ SizeQuery(c) \/ SizedRead(c)

Next ==
  \/ \E c \in Clients :
       \/ \E r \in Requests : Begin(c, r)
       \/ Step(c)
       \/ End(c)
  \/ \E x \in Outsiders : Outside(x)

Spec == Init /\ [][Next]_vars

\* A thread inside a call is scheduled again; nobody has to make calls.
FairSpec == Spec /\ \A c \in Clients : WF_vars(Step(c))

-----------------------------------------------------------------------------
(* Properties                                                              *)

Labels == {"idle", "check", "set", "remove", "size", "getInto", "get",
           "sizeQuery", "sizedRead", "done"}

\* Types of the cell, of the calls and of what a call keeps on its stack.
TypeOK ==
  /\ cell \in Contents
  /\ request \in [Clients -> Requests \cup {NoRequest}]
  /\ seen \in [Clients -> SUBSET Contents]
  /\ churn \in [Clients -> 0..MaxAttempts]
  /\ answer \in [Clients -> Answer \cup {NoAnswer}]
  /\ pc \in [Clients -> Labels]
  /\ attempt \in [Clients -> 0..MaxAttempts]
  /\ expected \in [Clients -> Nat]
  /\ live \in [Clients -> 0..1]
  /\ osError \in [Clients -> Errnos \cup {"SUCCESS"}]

Explained(c) ==
  answer[c] # NoAnswer =>
    \/ answer[c] \in MayAnswer(request[c], seen[c], churn[c])
    \/ Wrote(request[c], seen[c], answer[c])

Tidy(c) ==
  pc[c] = "done" =>
    live[c] = IF request[c].op = "get" /\ answer[c].status = "OK" THEN 1 ELSE 0

\* Every answer is one the contract allows: a value, a length, an absence or
\* a TooLarge that was true at some moment of the call, never a mixture, and
\* Changed only after MAX_GET_ATTEMPTS writes by others (README "Sizes and
\* races"; get_with, get_into, size).
AnswersHold == \A c \in Clients : Explained(c)

\* get gives its caller exactly one allocation when it succeeds and none when
\* it fails, on every path through the retries, the shrink and the failures.
NoLeak == \A c \in Clients : Tidy(c)

\* get never allocates for more than max_value_len ("larger reads fail before
\* allocating"), and never reads into an empty buffer, which the kernel would
\* take for a size query.
BufferFits ==
  \A c \in Clients : pc[c] = "sizedRead" =>
    0 < expected[c] /\ expected[c] <= request[c].limit

\* A status only the OS can decide is explained by the code last_os_error
\* gives the thread, whatever later calls and retries have recorded since.
OsErrorExplainsStatus ==
  \A c \in Clients :
    pc[c] = "done" /\ answer[c].status \in {"Missing", "NotFound", "Permission", "ReadOnly", "Unsupported", "Io"}
      => osError[c] # "SUCCESS" /\ MapErrno(osError[c], "generic") = answer[c].status

\* Every call is answered however often others write meanwhile: the retries
\* of get are bounded.
Answered ==
  \A c \in Clients : pc[c] = "check" ~> pc[c] = "done"

\* The core implements the atomic attribute of AttrStore.
Atomic == Store!Spec
=============================================================================
