---------------------------- MODULE MCPosixCore ----------------------------
(***************************************************************************)
(* A small instance of PosixCore.  Values are told apart by their lengths  *)
(* 0..4 around SmallLen = 1 and KernelMax = 3: `one` fits get's stack      *)
(* buffer, `two` and `three` do not and can outgrow and shrink below each  *)
(* other, `four` is refused by the kernel.  MaxAttempts is the code's 4.   *)
(***************************************************************************)
EXTENDS PosixCore, TLC

CONSTANTS none, one, two, three, four

MCValues == {none, one, two, three, four}
MCLenOf == none :> 0 @@ one :> 1 @@ two :> 2 @@ three :> 3 @@ four :> 4

Ask(op, value, limit, args) == [op |-> op, value |-> value, limit |-> limit, args |-> args]

Gets(limits) == {Ask("get", Absent, n, "ok") : n \in limits}
Sets(values) == {Ask("set", v, 4, "ok") : v \in values}

\* Every operation; bounds below, at and above the lengths; one name or path
\* the library refuses; a value over the caller's bound.
AllRequests ==
  Gets({0, 2, 3})
  \cup {Ask("getInto", Absent, n, "ok") : n \in {0, 2}}
  \cup Sets({two, four})
  \cup {Ask("size", Absent, 0, "ok"), Ask("remove", Absent, 0, "ok"),
        Ask("set", three, 2, "ok"), Ask("get", Absent, 3, "badName"),
        Ask("remove", Absent, 0, "badPath")}

\* What other processes write: values that fit, outgrow and shrink below one
\* another, nothing at all, and a path that comes and goes.
Everybody == {none, one, two, three, Absent, Gone}
=============================================================================
