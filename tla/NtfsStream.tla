------------------------------ MODULE NtfsStream ------------------------------
(***************************************************************************)
(* One named stream of one file, as the Windows adapter                    *)
(* src/rust/src/os/windows.rs reads, writes and deletes it under the       *)
(* functions of src/rust/src/lib.rs, one Win32 call per step; windows.zig  *)
(* and xattr_stream.zig, which it was ported from, take the same steps.    *)
(*                                                                         *)
(* A write truncates the stream when it opens it and fills it chunk by     *)
(* chunk, so the adapter leans on share modes: a writer's handle excludes  *)
(* everybody, a reader's excludes writers, and an open that meets another  *)
(* handle is retried a bounded number of times.  Size queries open for     *)
(* attributes only, which share modes do not govern.                       *)
(*                                                                         *)
(* Names and paths are valid here and memory does not run out: PosixCore   *)
(* has both.                                                               *)
(***************************************************************************)
EXTENDS Integers, Sequences

CONSTANTS
  Clients,      \* threads or processes using the library
  Values,       \* byte strings
  Requests,     \* calls each of them makes
  Absent,       \* the file exists, the stream does not
  Gone,         \* the file does not exist
  NoRequest,
  SmallLen,     \* optimistic_read_len
  MaxAttempts,  \* max_get_attempts
  Retries,      \* sharing_retries
  Faults,       \* what an open may fail with for reasons of its own
  Crashes,      \* whether a client may die inside a call
  Outsiders     \* what other programs do: "files" come and go, they "hold" streams

ASSUME NtfsAssumption ==
  /\ <<>> \in Values /\ \A v \in Values : v \in Seq(Nat)
  /\ Absent \notin Seq(Nat)
  /\ Requests \in [Clients -> SUBSET [op : {"set", "get", "getInto", "size", "remove"},
                                      value : Values, limit : Nat]]
  /\ SmallLen \in Nat \ {0} /\ MaxAttempts \in Nat \ {0} /\ Retries \in Nat \ {0}
  /\ Faults \subseteq {"Permission", "ReadOnly", "Unsupported", "OutOfMemory", "Io"}
  /\ Crashes \in BOOLEAN /\ Outsiders \subseteq {"files", "hold"}

VARIABLES
  base,      \* the file exists
  stream,    \* bytes of the stream, Absent without one
  held,      \* a program outside the library holds the stream open
  handle,    \* each client's open handle: "none", "reader" or "writer"
  current,   \* history: the last content that was left whole, or was left behind
  seen,      \* history: every `current` since a client's call began that it Watches
  churn      \* history: changes of `current` since a get began, counted to MaxAttempts

VARIABLES
  request, answer, pc,
  phase,     \* where getWith is: "first", "size" or "sized"
  tries,     \* openStream's loop counter
  attempt,   \* getWith's loop counter
  expected   \* length the size query of this attempt returned

history  == <<current, seen, churn>>
ntfs     == <<base, stream, held>>
callVars == <<request, answer, pc, phase, tries, attempt, expected>>
vars     == <<ntfs, handle, history, callVars>>

NoAnswer     == [status |-> "none", out |-> <<>>, len |-> 0]
Fail(status) == [status |-> status, out |-> <<>>, len |-> 0]
Done         == [status |-> "OK", out |-> <<>>, len |-> 0]
Read(v)      == [status |-> "OK", out |-> v, len |-> Len(v)]
Sized(n)     == [status |-> "OK", out |-> <<>>, len |-> n]

Busy(c)    == pc[c] \notin {"idle", "done"}
Getting(c) == Busy(c) /\ request[c].op = "get"

Reads == {"get", "getInto"}

\* What a call's answer may depend on: bytes only a read's, that there was
\* nothing everybody's.
Watches(op, x) == op \in Reads \/ x \in {Absent, Gone}

\* History: what a call could have observed while it ran.
Note(x) ==
  /\ current' = x
  /\ seen' = [c \in Clients |-> IF Busy(c) /\ Watches(request[c].op, x)
                                THEN seen[c] \cup {x} ELSE seen[c]]
  /\ churn' = [c \in Clients |->
                 IF Getting(c) /\ churn[c] < MaxAttempts THEN churn[c] + 1 ELSE churn[c]]

Finish(c, a) == pc' = [pc EXCEPT ![c] = "done"] /\ answer' = [answer EXCEPT ![c] = a]
Goto(c, l)   == pc' = [pc EXCEPT ![c] = l] /\ UNCHANGED answer

\* The adapter function a call is in, and the buffer it reads into.
AdapterOp(c) ==
  LET r == request[c]
  IN IF r.op = "get" THEN IF phase[c] = "size" THEN "size" ELSE "read"
     ELSE IF r.op = "getInto" THEN IF r.limit = 0 THEN "size" ELSE "read"
     ELSE r.op

Room(c) == IF request[c].op = "getInto" THEN request[c].limit
           ELSE IF phase[c] = "first" THEN SmallLen
           ELSE expected[c]

-----------------------------------------------------------------------------
\* The call is made; set checks its bound before any system call.
Begin(c, r) ==
  /\ pc[c] = "idle"
  /\ request' = [request EXCEPT ![c] = r]
  /\ seen' = [seen EXCEPT ![c] = {x \in {current} : Watches(r.op, x)}]
  /\ phase' = [phase EXCEPT ![c] = "first"]
  /\ IF r.op = "set" /\ Len(r.value) > r.limit THEN Finish(c, Fail("TooLarge"))
     ELSE Goto(c, "base")
  /\ UNCHANGED <<ntfs, handle, current, churn, tries, attempt, expected>>

\* requireBase: GetFileAttributesW on the file itself.
RequireBase(c) ==
  /\ pc[c] = "base"
  /\ IF base THEN Goto(c, "open") ELSE Finish(c, Fail("NotFound"))
  /\ tries' = [tries EXCEPT ![c] = 0]
  /\ UNCHANGED <<ntfs, handle, history, request, phase, attempt, expected>>

SharesAll == {"none", "reader", "writer"}

\* Handles of others a reader's share mode (SHARE_READER) tolerates.
ReaderShares == {"none", "reader"}

\* Handles of others a writer's, or a delete, tolerates (SHARE_WRITER).
WriterShares == {"none"}

\* An open or delete meets somebody else's handle.
Violation(c, shares) == held \/ \E d \in Clients \ {c} : handle[d] \notin shares

TriesLeft(c) == tries[c] + 1 < Retries

\* Tries again from the start, where the count begins anew.
StartAfresh(c) ==
  /\ Goto(c, "base")
  /\ UNCHANGED <<ntfs, handle, history, request, phase, tries, attempt, expected>>

\* Back off and try again, or give up with ERROR_SHARING_VIOLATION.
BackOff(c) ==
  /\ IF TriesLeft(c)
     THEN /\ tries' = [tries EXCEPT ![c] = IF @ < Retries THEN @ + 1 ELSE @]
          /\ Goto(c, "open")
     ELSE Finish(c, Fail("Io")) /\ UNCHANGED tries
  /\ UNCHANGED <<ntfs, handle, history, request, phase, attempt, expected>>

Refuse(c) ==
  /\ \E status \in Faults : Finish(c, Fail(status))
  /\ UNCHANGED <<ntfs, handle, history, request, phase, tries, attempt, expected>>

\* CreateFileW for reading an existing stream.
OpenReader(c) ==
  /\ pc[c] = "open" /\ AdapterOp(c) = "read"
  /\ \/ Violation(c, ReaderShares) /\ BackOff(c)
     \/ Refuse(c)
     \/ /\ ~Violation(c, ReaderShares)
        /\ IF stream = Absent
           THEN Finish(c, Fail("Missing")) /\ UNCHANGED handle
           ELSE Goto(c, "body") /\ handle' = [handle EXCEPT ![c] = "reader"]
        /\ UNCHANGED <<ntfs, history, request, phase, tries, attempt, expected>>

\* CreateFileW for writing with CREATE_ALWAYS: truncates the stream, creates
\* it when absent, and creates the file too if it vanished since requireBase.
OpenWriter(c) ==
  /\ pc[c] = "open" /\ AdapterOp(c) = "set"
  /\ \/ Violation(c, WriterShares) /\ BackOff(c)
     \/ Refuse(c)
     \/ /\ ~Violation(c, WriterShares)
        /\ base' = TRUE /\ stream' = <<>>
        /\ IF base THEN UNCHANGED history ELSE Note(Absent)
        /\ handle' = [handle EXCEPT ![c] = "writer"]
        /\ Goto(c, "body")
        /\ UNCHANGED <<held, request, phase, tries, attempt, expected>>

\* DeleteFileW.
Delete(c) ==
  /\ pc[c] = "open" /\ AdapterOp(c) = "remove"
  /\ \/ Violation(c, WriterShares) /\ BackOff(c)
     \/ Refuse(c)
     \/ /\ ~Violation(c, WriterShares)
        /\ IF stream = Absent
           THEN Finish(c, Fail("Missing")) /\ UNCHANGED <<stream, history>>
           ELSE Finish(c, Done) /\ stream' = Absent /\ Note(Absent)
        /\ UNCHANGED <<base, held, handle, request, phase, tries, attempt, expected>>

CloseHandle(c) == handle' = [handle EXCEPT ![c] = "none"]
LeaveOpen(c)   == UNCHANGED handle

\* Each adapter function closes its handle on every way out.
Close(c) == CloseHandle(c)

\* size opens for attributes only, which no share mode refuses, and asks for
\* the length.  Nothing can come between the two calls that could not come
\* before both or after.
SizeQuery(c) ==
  /\ pc[c] = "open" /\ AdapterOp(c) = "size"
  /\ LET r == request[c]
         n == Len(stream)
     IN \/ Refuse(c)
        \/ /\ stream = Absent
           /\ Finish(c, Fail("Missing"))
           /\ UNCHANGED <<phase, expected>>
           /\ UNCHANGED <<ntfs, handle, history, request, tries, attempt>>
        \/ /\ stream # Absent /\ r.op # "get"
           /\ Finish(c, IF r.op = "size" THEN Sized(n)
                        ELSE IF n = 0 THEN Read(<<>>) ELSE Fail("BufferTooSmall"))
           /\ UNCHANGED <<phase, expected>>
           /\ UNCHANGED <<ntfs, handle, history, request, tries, attempt>>
        \/ /\ stream # Absent /\ r.op = "get" /\ (n > r.limit \/ n = 0)
           /\ Finish(c, IF n = 0 THEN Read(<<>>) ELSE Fail("TooLarge"))
           /\ UNCHANGED <<phase, expected>>
           /\ UNCHANGED <<ntfs, handle, history, request, tries, attempt>>
        \/ /\ stream # Absent /\ r.op = "get" /\ n \in 1..r.limit
           /\ expected' = [expected EXCEPT ![c] = n]
           /\ phase' = [phase EXCEPT ![c] = "sized"]
           /\ Goto(c, "base")
           /\ UNCHANGED <<ntfs, handle, history, request, tries, attempt>>

EarlyLimit   == MaxAttempts - 1
AttemptLimit == MaxAttempts

\* The stream does not fit the buffer.
TooSmall(c) ==
  LET counted == IF phase[c] = "sized" THEN attempt[c] + 1 ELSE attempt[c]
  IN IF request[c].op = "getInto"
     THEN Finish(c, Fail("BufferTooSmall")) /\ UNCHANGED <<phase, attempt>>
     ELSE /\ attempt' = [attempt EXCEPT ![c] = counted]
          /\ phase' = [phase EXCEPT ![c] = "size"]
          /\ IF counted < AttemptLimit THEN Goto(c, "base") ELSE Finish(c, Fail("Changed"))

\* read's body: the length, the bytes, and CloseHandle.  While the handle is
\* open nobody can write or delete, so the two calls see one stream; either may
\* fail.
ReadBody(c) ==
  /\ pc[c] = "body" /\ handle[c] = "reader"
  /\ \/ Len(stream) > Room(c) /\ TooSmall(c)
     \/ /\ Len(stream) <= Room(c)
        /\ Finish(c, IF request[c].op = "get" /\ Len(stream) > request[c].limit
                     THEN Fail("TooLarge") ELSE Read(stream))
        /\ UNCHANGED <<phase, attempt>>
     \/ \E status \in Faults : Finish(c, Fail(status)) /\ UNCHANGED <<phase, attempt>>
  /\ Close(c)
  /\ UNCHANGED <<ntfs, history, request, tries, expected>>

\* WriteFile: some more bytes of the value, not always all of them.
WriteChunk(c) ==
  /\ pc[c] = "body" /\ handle[c] = "writer"
  /\ \E n \in Len(stream)+1 .. Len(request[c].value) :
       stream' = SubSeq(request[c].value, 1, n)
  /\ UNCHANGED <<base, held, handle, history, callVars>>

\* The loop over the value ends, or WriteFile fails or writes nothing.
EndWrite(c) ==
  /\ pc[c] = "body" /\ handle[c] = "writer"
  /\ \/ stream = request[c].value /\ Finish(c, Done)
     \/ stream # request[c].value /\ \E s \in Faults \cup {"TooLarge", "Io"} : Finish(c, Fail(s))
  /\ Note(stream)
  /\ Close(c)
  /\ UNCHANGED <<ntfs, request, phase, tries, attempt, expected>>

Idle(c) ==
  /\ pc' = [pc EXCEPT ![c] = "idle"]
  /\ request' = [request EXCEPT ![c] = NoRequest]
  /\ answer' = [answer EXCEPT ![c] = NoAnswer]
  /\ phase' = [phase EXCEPT ![c] = "first"]
  /\ tries' = [tries EXCEPT ![c] = 0]
  /\ attempt' = [attempt EXCEPT ![c] = 0]
  /\ expected' = [expected EXCEPT ![c] = 0]

\* The caller takes the answer.
End(c) ==
  /\ pc[c] = "done"
  /\ Idle(c)
  /\ seen' = [seen EXCEPT ![c] = {}]
  /\ churn' = [churn EXCEPT ![c] = 0]
  /\ UNCHANGED <<ntfs, handle, current>>

\* A client dies inside a call.  The system closes its handle; what it had
\* written so far stays.
Crash(c) ==
  /\ Crashes /\ Busy(c)
  /\ Idle(c)
  /\ handle' = [handle EXCEPT ![c] = "none"]
  /\ LET left == IF handle[c] = "writer" THEN stream ELSE current
         note == handle[c] = "writer"
     IN /\ current' = left
        /\ seen' = [d \in Clients |-> IF d = c THEN {}
                                      ELSE IF note /\ Busy(d) /\ Watches(request[d].op, left)
                                      THEN seen[d] \cup {left}
                                      ELSE seen[d]]
        /\ churn' = [d \in Clients |-> IF d = c THEN 0
                                       ELSE IF note /\ Getting(d) /\ churn[d] < MaxAttempts
                                       THEN churn[d] + 1 ELSE churn[d]]
  /\ UNCHANGED ntfs

-----------------------------------------------------------------------------
(* Programs outside the library: external.                                 *)

Unshared == ~held /\ \A c \in Clients : handle[c] = "none"

DeleteFile ==
  /\ "files" \in Outsiders /\ base /\ Unshared
  /\ base' = FALSE /\ stream' = Absent /\ Note(Gone)
  /\ UNCHANGED <<held, handle, callVars>>

CreateFile ==
  /\ "files" \in Outsiders /\ ~base
  /\ base' = TRUE /\ Note(Absent)
  /\ UNCHANGED <<stream, held, handle, callVars>>

Hold ==
  /\ "hold" \in Outsiders /\ stream # Absent /\ Unshared
  /\ held' = TRUE
  /\ UNCHANGED <<base, stream, handle, history, callVars>>

Release ==
  /\ held
  /\ held' = FALSE
  /\ UNCHANGED <<base, stream, handle, history, callVars>>

-----------------------------------------------------------------------------
Init ==
  /\ base = TRUE
  /\ stream \in Values \cup {Absent}
  /\ held = FALSE
  /\ handle = [c \in Clients |-> "none"]
  /\ current = stream
  /\ seen = [c \in Clients |-> {}]
  /\ churn = [c \in Clients |-> 0]
  /\ request = [c \in Clients |-> NoRequest]
  /\ answer = [c \in Clients |-> NoAnswer]
  /\ pc = [c \in Clients |-> "idle"]
  /\ phase = [c \in Clients |-> "first"]
  /\ tries = [c \in Clients |-> 0]
  /\ attempt = [c \in Clients |-> 0]
  /\ expected = [c \in Clients |-> 0]

Step(c) ==
  \/ RequireBase(c)
  \/ OpenReader(c) \/ OpenWriter(c) \/ Delete(c) \/ SizeQuery(c)
  \/ ReadBody(c) \/ WriteChunk(c) \/ EndWrite(c)

Outside == DeleteFile \/ CreateFile \/ Hold \/ Release

Next ==
  \/ \E c \in Clients :
       \/ \E r \in Requests[c] : Begin(c, r)
       \/ Step(c)
       \/ End(c)
       \/ Crash(c)
  \/ Outside

Spec == Init /\ [][Next]_vars

\* A client inside a call is scheduled again.  Nobody has to let go of the
\* stream, and nobody has to make calls.
FairSpec == Spec /\ \A c \in Clients : WF_vars(Step(c))

-----------------------------------------------------------------------------
(* Properties                                                              *)

\* Types, the bounds on both loops, and the handle a label implies.
TypeOK ==
  /\ base \in BOOLEAN /\ held \in BOOLEAN
  /\ ~base => stream = Absent
  /\ handle \in [Clients -> {"none", "reader", "writer"}]
  /\ churn \in [Clients -> 0..MaxAttempts]
  /\ pc \in [Clients -> {"idle", "base", "open", "body", "done"}]
  /\ phase \in [Clients -> {"first", "size", "sized"}]
  /\ tries \in [Clients -> 0..Retries-1]
  /\ attempt \in [Clients -> 0..MaxAttempts]
  /\ \A c \in Clients : handle[c] # "none" <=> pc[c] = "body"

\* A call answered with success in the words of the adapter function `op`.
Answers(c, op) == pc[c] = "done" /\ answer[c].status = "OK" /\ AdapterOp(c) = op

\* Bytes a read returns, none included, are a value somebody wrote whole, or
\* what a write that failed or died left behind: never the middle of a write
\* still going on (windows.rs:46-49).
ReadsWhole == \A c \in Clients : Answers(c, "read") => answer[c].out \in seen[c]

\* A get or get_into answers with the old value or the new one, whether it
\* read the stream or took its value to be empty from a size query.  This is
\* what windows.rs:4-6 and README.md:244 say of readers.
ReadsOldOrNew ==
  \A c \in Clients :
    request[c] # NoRequest /\ request[c].op \in Reads /\ Answers(c, AdapterOp(c))
      => answer[c].out \in seen[c]

\* A failure says something true: NotFound of a file that was gone, Missing of
\* a stream that was, Changed only after max_get_attempts changes.
FailuresHold ==
  \A c \in Clients : pc[c] = "done" =>
    /\ answer[c].status = "NotFound" => Gone \in seen[c]
    /\ answer[c].status = "Missing" => seen[c] \cap {Absent, Gone} # {}
    /\ answer[c].status = "Changed" => churn[c] = MaxAttempts

\* Every call is answered, even while another program holds the stream or
\* writers keep taking it: the retries are bounded.
Answered == \A c \in Clients : pc[c] = "base" ~> pc[c] \in {"done", "idle"}
=============================================================================
