------------------------------ MODULE AttrCalls ------------------------------
(***************************************************************************)
(* The vocabulary of calls on one attribute of one path, as the functions  *)
(* set, get, get_into, size and remove of src/rust/src/lib.rs take and     *)
(* return them (as do those of the Zig library), and the answers a call    *)
(* may give in view of what the attribute held while it ran.               *)
(***************************************************************************)
EXTENDS Naturals

CONSTANTS
  Clients,      \* threads or processes inside a call of the library
  Values,       \* attribute values, byte strings told apart
  LenOf,        \* LenOf[v] is the length of value v in bytes
  Empty,        \* the value of length zero: present, not missing
  Absent,       \* the path exists and the attribute does not
  Gone,         \* the path does not resolve
  Requests,     \* the calls clients make
  NoRequest,    \* a client outside any call
  NoAnswer,     \* a call that has not been answered yet
  MaxAttempts   \* MAX_GET_ATTEMPTS, src/rust/src/lib.rs:137

Contents == Values \cup {Absent, Gone}

Ops == {"set", "get", "getInto", "size", "remove"}

Statuses == {"OK", "Missing", "Unsupported", "ReadOnly", "Permission",
             "TooLarge", "NotFound", "InvalidName", "InvalidPath", "Changed",
             "BufferTooSmall", "OutOfMemory", "Io"}

\* A call: `limit` is max_value_len for set and get, buf.len() for getInto;
\* `args` is the first thing validation objects to, if anything.
Request == [op    : Ops,
            value : Values \cup {Absent},
            limit : Nat,
            args  : {"ok", "badName", "badPath"}]

\* What a call returns: `out` is the value read (Absent when none is), `len`
\* the byte count.
Answer == [status : Statuses, out : Values \cup {Absent}, len : {LenOf[v] : v \in Values}]

Fail(status) == [status |-> status, out |-> Absent, len |-> 0]
Done         == [status |-> "OK", out |-> Absent, len |-> 0]
Read(v)      == [status |-> "OK", out |-> v, len |-> LenOf[v]]
Sized(n)     == [status |-> "OK", out |-> Absent, len |-> n]

ASSUME CellAssumption ==
  /\ LenOf \in [Values -> Nat]
  /\ Empty \in Values
  /\ \A v \in Values : LenOf[v] = 0 <=> v = Empty
  /\ Absent \notin Values /\ Gone \notin Values /\ Absent # Gone

ASSUME CallAssumption ==
  /\ Requests \subseteq Request
  /\ \A r \in Requests : r.op = "set" => r.value \in Values
  /\ NoRequest \notin Request
  /\ NoAnswer \notin Answer
  /\ MaxAttempts \in Nat \ {0}

\* The OS may refuse a call for reasons of its own, and memory may run out.
Refusals == {"Unsupported", "ReadOnly", "Permission", "InvalidName", "OutOfMemory", "Io"}

\* Answers to a call whose arguments were accepted and that wrote nothing:
\* S is what the cell held while it ran, n how often the cell was written.
Outcomes(r, S, n) ==
  LET found   == S \cap Values
      fitting == {v \in found : LenOf[v] <= r.limit}
      Given(condition, status) == IF condition THEN {Fail(status)} ELSE {}
  IN {Fail(s) : s \in Refusals}
     \cup Given(Absent \in S, "Missing")
     \cup Given(Gone \in S, "NotFound")
     \cup Given(r.op \in {"set", "remove"}, "TooLarge")
     \cup Given(r.op = "get" /\ n = MaxAttempts, "Changed")
     \cup Given(r.op = "get" /\ found # fitting, "TooLarge")
     \cup Given(r.op = "getInto" /\ found # fitting, "BufferTooSmall")
     \cup (IF r.op \in {"get", "getInto"} THEN {Read(v) : v \in fitting} ELSE {})
     \cup (IF r.op = "size" THEN {Sized(LenOf[v]) : v \in found} ELSE {})

MayAnswer(r, S, n) ==
  IF r.args = "badName" THEN {Fail("InvalidName")}
  ELSE IF r.args = "badPath" THEN {Fail("InvalidPath")}
  ELSE Outcomes(r, S, n)

\* What a write that succeeded left in the cell while it ran.
Wrote(r, S, a) ==
  /\ r.args = "ok" /\ a = Done
  /\ \/ r.op = "set" /\ LenOf[r.value] <= r.limit /\ r.value \in S
     \/ r.op = "remove" /\ Absent \in S
=============================================================================
