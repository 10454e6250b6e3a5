---------------------------- MODULE MCNtfsStream ----------------------------
(***************************************************************************)
(* Two clients on one stream.  SmallLen = 1, so a value of two bytes takes *)
(* get to its size query, and is written in one chunk or in two: a stream  *)
(* of one byte is always a write in progress, or one that was cut short.   *)
(***************************************************************************)
EXTENDS NtfsStream, TLC

CONSTANTS c1, c2

two == <<2, 2>>

MCValues == {<<>>, two}

Ask(op, value, limit) == [op |-> op, value |-> value, limit |-> limit]

SetTwo == Ask("set", two, 2)
Get    == Ask("get", <<>>, 2)

AllRequests == {Get, SetTwo, Ask("set", two, 1), Ask("size", <<>>, 0),
                Ask("getInto", <<>>, 0), Ask("getInto", <<>>, 1), Ask("remove", <<>>, 0)}

\* One client makes every call; the other makes those that can disturb it: a
\* write, a removal, and a read that excludes writers.
MCRequests == c1 :> AllRequests @@
              c2 :> {SetTwo, Ask("remove", <<>>, 0), Ask("getInto", <<>>, 1)}

\* A reader and a writer.
OneOfEach == c1 :> {Get} @@ c2 :> {SetTwo}
=============================================================================
